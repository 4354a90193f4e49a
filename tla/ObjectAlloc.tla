----------------------------- MODULE ObjectAlloc -----------------------------
(***************************************************************************)
(* The objects of src/utils.c: one calloc() holds a header with the size   *)
(* of the whole, the object, and a data area that a pointer in the object  *)
(* leads to.  A release clears the object and frees the block.  The heap   *)
(* is a row of bytes; a word is kept in its first byte.  After a block     *)
(* calloc() may leave padding and may keep bytes of its own; a release     *)
(* that overwrites those leaves an allocator that may do anything.         *)
(***************************************************************************)
EXTENDS Integers, FiniteSets

CONSTANTS
  W,         \* sizeof(void*), which is also sizeof(mcupr_object_t)
  Tails,     \* what may follow a block: padding, then the allocator's own bytes
  HeapSize,
  MaxCorrupt, \* bound: a corrupt allocator gives no block beyond so many
  Shapes     \* the arguments [size0, offset, size1] of mcupr_alloc_object

Foreign == -1   \* free memory or padding, whatever it holds
Own     == -2   \* what the allocator keeps after a block

ASSUME ObjectAssumption ==
  /\ W \in Nat \ {0} /\ HeapSize \in Nat
  /\ Tails \subseteq [pad : Nat, own : Nat]
  /\ Shapes \subseteq [size0 : Nat, offset : Nat, size1 : Nat]
  /\ \A s \in Shapes : s.offset + W <= s.size0

VARIABLES
  heap,      \* heap[c]: byte c of the heap
  objects,   \* the live objects: block, shape, and what the owner left in the block
  allocator  \* "intact", or "corrupt" once its own bytes are overwritten

vars == <<heap, objects, allocator>>

Cells == 0 .. HeapSize - 1

Init == heap = [c \in Cells |-> Foreign] /\ objects = {} /\ allocator = "intact"

-----------------------------------------------------------------------------

MCUPR_ALIGN(x, n) == ((x + n - 1) \div n) * n

Header == MCUPR_ALIGN(W, W)

BlockSize(s) == Header + MCUPR_ALIGN(s.size0, W) + MCUPR_ALIGN(s.size1, W)

(* Faulty variant of DataStart: the size of the object is not rounded up. *)
DataStartUnaligned(s) == Header + s.size0

(* &buf[size + size0], from the start of the block. *)
DataStart(s) == Header + MCUPR_ALIGN(s.size0, W)

(* Faulty variant of StoredSize: the header is counted twice. *)
StoredSizeTwice(s) == Header + BlockSize(s)

(* obj->size *)
StoredSize(s) == BlockSize(s)

(* &buf[size + offset], from the start of the block. *)
PointerAt(s) == Header + s.offset

(* What a new block holds at byte i: zeros, the size, the data pointer. *)
Fresh(base, s, i) ==
  CASE 0 < s.size1 /\ i = PointerAt(s) -> base + DataStart(s)
    [] i = 0 /\ ~(0 < s.size1 /\ i = PointerAt(s)) -> StoredSize(s)
    [] OTHER -> 0

Inside(c, base, size) == base <= c /\ c < base + size

Apart(base, extent, o) == base + extent <= o.base \/ o.base + o.extent <= base

(* calloc() returns NULL or a block of its own; a NULL changes nothing.  A *)
(* corrupt allocator may give a block that is in use.                      *)
AllocObject(base, s, t) ==
  LET size   == BlockSize(s)
      extent == size + t.pad + t.own
  IN  /\ base + extent <= HeapSize
      /\ IF allocator = "intact" THEN \A o \in objects : Apart(base, extent, o)
                                 ELSE Cardinality(objects) < MaxCorrupt
      /\ heap' = [c \in Cells |-> CASE Inside(c, base, size) -> Fresh(base, s, c - base)
                                  [] Inside(c, base + size + t.pad, t.own) -> Own
                                  [] OTHER -> heap[c]]
      /\ objects' = objects \cup
           {[base |-> base, size |-> size, extent |-> extent, shape |-> s,
             words |-> [i \in Cells |-> Fresh(base, s, i)]]}
      /\ UNCHANGED allocator

IsParam(o, i) == Header <= i /\ i < Header + o.shape.offset

(* "bus->params = *params": the owner writes the members before the pointer. *)
SetParams(o) ==
  /\ heap' = [c \in Cells |-> IF Inside(c, o.base, o.size) /\ IsParam(o, c - o.base) THEN 1
                                                                               ELSE heap[c]]
  /\ objects' = (objects \ {o}) \cup
       {[o EXCEPT !.words = [i \in Cells |-> IF IsParam(o, i) THEN 1 ELSE @[i]]]}
  /\ UNCHANGED allocator

(* What memset(objp, 0, obj->size) clears: as many bytes as the header     *)
(* says now, from the object on and not from the header on.                *)
Cleared(o) == {c \in Cells : Inside(c, o.base + Header, heap[o.base])}

(* The memset(), which also reaches one header past the block, and free(). *)
ReleaseObject(o) ==
  /\ heap' = [c \in Cells |-> CASE Inside(c, o.base, o.extent) -> Foreign
                              [] /\ ~Inside(c, o.base, o.extent)
                                 /\ c \in Cleared(o) /\ heap[c] # Foreign -> 0
                              [] OTHER -> heap[c]]
  /\ objects' = objects \ {o}
  /\ allocator' = IF \E c \in Cleared(o) : heap[c] = Own THEN "corrupt" ELSE allocator

Next ==
  \/ \E s \in Shapes, t \in Tails, base \in Cells : base % W = 0 /\ AllocObject(base, s, t)
  \/ \E o \in objects : SetParams(o) \/ ReleaseObject(o)

Spec == Init /\ [][Next]_vars

-----------------------------------------------------------------------------

(* As long as no release has overwritten the allocator's bytes, a live     *)
(* object holds what its owner left in it: the release of the block before *)
(* it reaches no further than the header in front of it (utils.c:67).      *)
LiveKept ==
  allocator = "intact" =>
    \A o \in objects : \A i \in Header .. o.size - 1 : heap[o.base + i] = o.words[i]

(* As long as the allocator is intact, obj->data leads to the data area of *)
(* the object's own block: aligned, past the object, and with room for     *)
(* size1 bytes.                                                            *)
DataInside ==
  allocator = "intact" =>
    \A o \in objects :
      LET data == heap[o.base + Header + o.shape.offset]
      IN  0 < o.shape.size1 =>
            /\ data % W = 0
            /\ o.base + Header + o.shape.size0 <= data
            /\ data + o.shape.size1 <= o.base + o.size

(* A release clears the object and nothing else: no byte changes that is   *)
(* not of the block which calloc() was asked for (utils.c:43, 67).         *)
ReleaseInBlock ==
  [][\A o \in objects \ objects' : \A c \in Cells :
       heap'[c] # heap[c] => Inside(c, o.base, o.size)]_vars
==============================================================================
