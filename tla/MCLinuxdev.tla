----------------------------- MODULE MCLinuxdev -----------------------------
(* Small instances of Linuxdev for TLC. *)
EXTENDS Linuxdev, TLC

CONSTANT pin1

Unspecified == MCUPR_UNSPECIFIED

Busnums == {Unspecified, 1}

(* One setting for the SPI bus. *)
OneSetting == {[busnum |-> Unspecified, mode |-> 3, speed |-> 1]}

(* Chip select 0, named or, with MCUPR_SPI_BUSNUM=0, left to the default. *)
Select0       == {0}
SelectDefault == {Unspecified}
SpiDevice00   == {<<0, 0>>}

(* One direction per pin, as long as clients agree. *)
AgreedUses == {<<pin1, MCUPR_GPIO_MODE_OUTPUT>>}

Symmetry == Permutations(Threads) \cup Permutations(FDs)
=============================================================================
