------------------------------ MODULE MCPigpiod ------------------------------
(* Small instances of Pigpiod for TLC. *)
EXTENDS Pigpiod, TLC

(* An unspecified bus number is bus 1. *)
SomeBusnums == {MCUPR_UNSPECIFIED, 0}

(* The other programs are on a device that the client uses too. *)
SharedUse == {<<1, 57>>}

(* The daemon is lost, or it refuses. *)
SomeErrors == {-1}

Symmetry == Permutations(Buses)
==============================================================================
