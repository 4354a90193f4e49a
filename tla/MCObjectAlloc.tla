----------------------------- MODULE MCObjectAlloc -----------------------------
(* Small instances of ObjectAlloc for TLC: words of two bytes. *)
EXTENDS ObjectAlloc

(* A member before the pointer, and sizes that are not whole words; the    *)
(* pointer first; no data.                                                 *)
SomeShapes ==
  {[size0 |-> 5, offset |-> 2, size1 |-> 3], [size0 |-> 2, offset |-> 0, size1 |-> 2],
   [size0 |-> 2, offset |-> 0, size1 |-> 0]}

(* The next block follows at once, or padding, or a word of the allocator. *)
SomeTails == {[pad |-> 0, own |-> 0], [pad |-> 2, own |-> 0], [pad |-> 0, own |-> 2]}
==============================================================================
