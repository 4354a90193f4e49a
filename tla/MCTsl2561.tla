------------------------------ MODULE MCTsl2561 ------------------------------
(* Small instances of Tsl2561 for TLC. *)
EXTENDS Tsl2561

(* No byte of one word is a byte of another, and none is 0. *)
SomeWords == {<<254, 1>>, <<3, 2>>, <<5, 4>>}
==============================================================================
