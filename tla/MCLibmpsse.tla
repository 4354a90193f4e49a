----------------------------- MODULE MCLibmpsse -----------------------------
(* Small instances of Libmpsse for TLC. *)
EXTENDS Libmpsse

(* The ends of the 7-bit range and their neighbours. *)
EdgeAddrs == {-1, 0, 57, 127, 128}

(* A failed open's leftover, odd handles, and ones beyond the range. *)
OddHandles == {-2, -1, 57, 114, 255, 256}
=============================================================================
