----------------------------- MODULE MCI2cDetect -----------------------------
(* A small instance of I2cDetect for TLC. *)
EXTENDS I2cDetect

Busnums == {MCUPR_UNSPECIFIED, 1, 2}

Addrs == 1 .. Last
==============================================================================
