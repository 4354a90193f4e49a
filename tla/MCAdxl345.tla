------------------------------ MODULE MCAdxl345 ------------------------------
(* Small instances of Adxl345 for TLC. *)
EXTENDS Adxl345

TwoAxes == <<"x", "y">>

(* -2 and 256: neither byte of the one is a byte of the other. *)
SomeSamples == {<<254, 255>>, <<0, 1>>}
==============================================================================
