-------------------------- MODULE ObjectAllocProofs --------------------------
(***************************************************************************)
(* Until a release overwrites bytes of the allocator, no live object of    *)
(* src/utils.c is reached by another's allocation, use or release: the     *)
(* release clears at most the header of the next block.                    *)
(***************************************************************************)
EXTENDS ObjectAlloc, TLAPS

Objects ==
  [base : Nat, size : Nat \ {0}, extent : Nat, shape : Shapes, words : [Cells -> Int]]

TypeOK ==
  /\ heap \in [Cells -> Int]
  /\ objects \subseteq Objects
  /\ allocator \in {"intact", "corrupt"}

Fits == \A o \in objects : o.size <= o.extent /\ o.base + o.extent <= HeapSize

AllApart ==
  allocator = "intact" => \A o, p \in objects : o # p => Apart(o.base, o.extent, p)

(* The size that a release clears is the one that calloc() was asked for,  *)
(* or nothing, when the release of the block before has cleared the header.*)
SizeStored ==
  allocator = "intact" => \A o \in objects : heap[o.base] \in {0, o.size}

Inv == TypeOK /\ Fits /\ SizeStored /\ AllApart /\ LiveKept

-----------------------------------------------------------------------------

LEMMA AlignBounds ==
  ASSUME NEW x \in Nat, NEW n \in Nat \ {0}
  PROVE  MCUPR_ALIGN(x, n) \in Nat /\ x <= MCUPR_ALIGN(x, n)
<1> DEFINE q == (x + n - 1) \div n
           r == (x + n - 1) % n
<1>1. q \in Int /\ r \in 0 .. n - 1 /\ x + n - 1 = n * q + r
  OBVIOUS
<1>2. n * q = q * n
  BY <1>1
<1> QED
  BY <1>1, <1>2 DEF MCUPR_ALIGN

LEMMA HeaderPositive == Header \in Nat \ {0}
<1>1. Header \in Nat /\ W <= Header
  BY AlignBounds, ObjectAssumption DEF Header
<1> QED
  BY <1>1, ObjectAssumption

LEMMA BlockPositive ==
  ASSUME NEW s \in Shapes
  PROVE  /\ BlockSize(s) \in Nat \ {0}
         /\ PointerAt(s) \in Nat \ {0}
         /\ DataStart(s) \in Nat
<1>1. s.size0 \in Nat /\ s.size1 \in Nat /\ s.offset \in Nat
  BY ObjectAssumption
<1>2. MCUPR_ALIGN(s.size0, W) \in Nat /\ MCUPR_ALIGN(s.size1, W) \in Nat
  BY <1>1, AlignBounds, ObjectAssumption
<1> HIDE DEF MCUPR_ALIGN
<1> QED
  BY <1>1, <1>2, HeaderPositive DEF BlockSize, PointerAt, DataStart

(* What a new block holds is an integer, and its first word is its size. *)
LEMMA FreshBlock ==
  ASSUME NEW s \in Shapes, NEW base \in Int
  PROVE  /\ \A i \in Int : Fresh(base, s, i) \in Int
         /\ Fresh(base, s, 0) = BlockSize(s)
<1>1. s.size1 \in Nat
  BY ObjectAssumption
<1> QED
  BY <1>1, BlockPositive DEF Fresh, StoredSize

LEMMA InitInv == Init => Inv
  BY DEF Init, Inv, TypeOK, Fits, SizeStored, AllApart, LiveKept, Foreign

-----------------------------------------------------------------------------

LEMMA AllocInv ==
  ASSUME Inv, NEW base \in Cells, NEW s \in Shapes, NEW t \in Tails, AllocObject(base, s, t)
  PROVE  Inv'
<1> DEFINE size == BlockSize(s)
           extent == size + t.pad + t.own
           new == [base |-> base, size |-> size, extent |-> extent, shape |-> s,
                   words |-> [i \in Cells |-> Fresh(base, s, i)]]
<1>1. /\ size \in Nat \ {0} /\ base \in Nat /\ HeapSize \in Nat
      /\ t.pad \in Nat /\ t.own \in Nat
  BY BlockPositive, ObjectAssumption DEF Cells
<1>2. /\ base + extent <= HeapSize
      /\ allocator = "intact" => \A o \in objects : Apart(base, extent, o)
      /\ heap' = [c \in Cells |-> CASE Inside(c, base, size) -> Fresh(base, s, c - base)
                                  [] Inside(c, base + size + t.pad, t.own) -> Own
                                  [] OTHER -> heap[c]]
      /\ objects' = objects \cup {new}
      /\ allocator' = allocator
  BY DEF AllocObject
<1>3. \A i \in Int : Fresh(base, s, i) \in Int
  BY <1>1, FreshBlock
<1>4. extent \in Nat /\ size <= extent
  BY <1>1
<1>5. new \in Objects
  BY <1>1, <1>3, <1>4 DEF Cells, Objects
<1>6. new.base = base /\ new.size = size /\ new.extent = extent
      /\ \A i \in Cells : new.words[i] = Fresh(base, s, i)
  OBVIOUS
<1>7. Fresh(base, s, 0) = size
  BY <1>1, FreshBlock
<1>8. \A c \in Cells : Inside(c, base + size + t.pad, t.own) => Inside(c, base, extent)
  BY <1>1 DEF Inside, Cells
<1>9. \A c \in Cells : Inside(c, base, size) => heap'[c] = Fresh(base, s, c - base)
  <2>1. \A c \in Cells : ~(Inside(c, base, size) /\ Inside(c, base + size + t.pad, t.own))
    BY <1>1 DEF Inside, Cells
  <2> HIDE DEF size, extent
  <2> QED
    BY <2>1, <1>2
<1>10. \A c \in Cells : ~Inside(c, base, extent) => heap'[c] = heap[c]
  <2>1. \A c \in Cells : Inside(c, base, size) => Inside(c, base, extent)
    BY <1>1, <1>4 DEF Inside, Cells
  <2> HIDE DEF size, extent
  <2> QED
    BY <2>1, <1>2, <1>8
<1>11. TypeOK'
  <2>1. \A c \in Cells : c - base \in Int /\ heap[c] \in Int
    BY <1>1 DEF Inv, TypeOK, Cells
  <2>2. heap' \in [Cells -> Int]
    BY <2>1, <1>2, <1>3 DEF Own
  <2> QED
    BY <2>2, <1>2, <1>5 DEF Inv, TypeOK
<1> HIDE DEF new, size, extent
<1>12. Fits'
  BY <1>2, <1>4, <1>6 DEF Inv, Fits
<1>13. AllApart'
  BY <1>1, <1>2, <1>4, <1>6 DEF Inv, AllApart, Apart, TypeOK, Objects
<1>14. ASSUME NEW o \in objects, NEW i \in 0 .. o.size - 1, allocator = "intact"
       PROVE  o.base + i \in Cells /\ heap'[o.base + i] = heap[o.base + i]
  <2>1. /\ o.base \in Nat /\ o.size \in Nat /\ o.extent \in Nat
        /\ o.size <= o.extent /\ o.base + o.extent <= HeapSize /\ Apart(base, extent, o)
    BY <1>2, <1>14 DEF Inv, TypeOK, Objects, Fits
  <2>2. o.base + i \in Cells /\ ~Inside(o.base + i, base, extent)
    BY <2>1, <1>1, <1>4 DEF Apart, Inside, Cells
  <2> QED
    BY <2>2, <1>10
<1>15. ASSUME NEW i \in 0 .. size - 1
       PROVE  heap'[base + i] = Fresh(base, s, i) /\ i \in Cells
  <2>1. i \in Cells /\ base + i \in Cells /\ (base + i) - base = i /\ Inside(base + i, base, size)
    BY <1>1, <1>2, <1>4 DEF Inside, Cells
  <2> QED
    BY <2>1, <1>9
<1>16. SizeStored'
  <2> SUFFICES ASSUME allocator = "intact", NEW o \in objects'
               PROVE  heap'[o.base] \in {0, o.size}
    BY <1>2 DEF SizeStored
  <2>1. CASE o = new
    <3>1. heap'[base + 0] = size
      BY <1>1, <1>7, <1>15
    <3> QED
      BY <2>1, <3>1, <1>1, <1>6
  <2>2. CASE o \in objects
    <3>1. o.base \in Nat /\ 0 \in 0 .. o.size - 1 /\ heap[o.base] \in {0, o.size}
      BY <2>2 DEF Inv, TypeOK, Objects, SizeStored
    <3>2. heap'[o.base + 0] = heap[o.base + 0]
      BY <2>2, <3>1, <1>14
    <3> QED
      BY <3>1, <3>2
  <2> QED
    BY <2>1, <2>2, <1>2
<1>17. LiveKept'
  <2> SUFFICES ASSUME allocator = "intact", NEW o \in objects', NEW i \in Header .. o.size - 1
               PROVE  heap'[o.base + i] = o.words[i]
    BY <1>2 DEF LiveKept
  <2>1. CASE o = new
    <3>1. i \in 0 .. size - 1
      BY <2>1, <1>1, <1>6, HeaderPositive
    <3> QED
      BY <2>1, <3>1, <1>6, <1>15
  <2>2. CASE o \in objects
    <3>1. i \in 0 .. o.size - 1
      BY <2>2, HeaderPositive DEF Inv, TypeOK, Objects
    <3>2. heap[o.base + i] = o.words[i]
      BY <2>2 DEF Inv, LiveKept
    <3> QED
      BY <2>2, <3>1, <3>2, <1>14
  <2> QED
    BY <2>1, <2>2, <1>2
<1> QED
  BY <1>11, <1>12, <1>13, <1>16, <1>17 DEF Inv

LEMMA SetParamsInv ==
  ASSUME Inv, NEW o \in objects, SetParams(o)
  PROVE  Inv'
<1> DEFINE set == [o EXCEPT !.words = [i \in Cells |-> IF IsParam(o, i) THEN 1
                                                                      ELSE o.words[i]]]
<1>1. /\ heap' = [c \in Cells |-> IF Inside(c, o.base, o.size) /\ IsParam(o, c - o.base)
                                    THEN 1 ELSE heap[c]]
      /\ objects' = (objects \ {o}) \cup {set}
      /\ allocator' = allocator
  BY DEF SetParams
<1>2. /\ o \in Objects /\ o.base \in Nat /\ o.size \in Nat \ {0} /\ o.extent \in Nat
      /\ o.size <= o.extent /\ o.base + o.extent <= HeapSize
      /\ HeapSize \in Nat
  BY ObjectAssumption DEF Inv, TypeOK, Objects, Fits
<1>3. /\ set.base = o.base /\ set.size = o.size /\ set.extent = o.extent
      /\ \A i \in Cells : set.words[i] = IF IsParam(o, i) THEN 1 ELSE o.words[i]
  BY <1>2 DEF Objects
<1>4. set \in Objects
  BY <1>2 DEF Objects
<1> HIDE DEF set
<1>5. TypeOK'
  BY <1>1, <1>4 DEF Inv, TypeOK
<1>6. Fits'
  BY <1>1, <1>2, <1>3 DEF Inv, Fits
<1>7. AllApart'
  <2>1. allocator = "intact" =>
          \A p \in objects : p # o => Apart(set.base, set.extent, p) /\ Apart(p.base, p.extent, set)
    BY <1>3 DEF Inv, AllApart, Apart
  <2> QED
    BY <2>1, <1>1 DEF Inv, AllApart
<1>8. ASSUME NEW p \in objects \ {o}, NEW i \in 0 .. p.size - 1, allocator = "intact"
      PROVE  heap'[p.base + i] = heap[p.base + i]
  <2>1. /\ p.base \in Nat /\ p.size \in Nat /\ p.extent \in Nat
        /\ p.size <= p.extent /\ p.base + p.extent <= HeapSize /\ Apart(p.base, p.extent, o)
    BY <1>8 DEF Inv, TypeOK, Objects, Fits, AllApart
  <2>2. p.base + i \in Cells /\ ~Inside(p.base + i, o.base, o.size)
    BY <2>1, <1>2 DEF Apart, Inside, Cells
  <2> QED
    BY <2>2, <1>1
<1>9. ASSUME NEW i \in 0 .. o.size - 1
      PROVE  /\ i \in Cells
             /\ heap'[o.base + i] = IF IsParam(o, i) THEN 1 ELSE heap[o.base + i]
  <2>1. i \in Cells /\ o.base + i \in Cells /\ Inside(o.base + i, o.base, o.size)
        /\ (o.base + i) - o.base = i
    BY <1>2 DEF Inside, Cells
  <2> QED
    BY <2>1, <1>1
<1>10. SizeStored'
  <2> SUFFICES ASSUME allocator = "intact", NEW p \in objects'
               PROVE  heap'[p.base] \in {0, p.size}
    BY <1>1 DEF SizeStored
  <2>1. CASE p = set
    <3>1. 0 \in 0 .. o.size - 1 /\ ~IsParam(o, 0) /\ o.base + 0 = o.base
      BY <1>2, HeaderPositive DEF IsParam
    <3>2. heap'[o.base + 0] = heap[o.base + 0]
      BY <3>1, <1>9
    <3> QED
      BY <2>1, <3>1, <3>2, <1>3 DEF Inv, SizeStored
  <2>2. CASE p \in objects \ {o}
    <3>1. 0 \in 0 .. p.size - 1 /\ p.base + 0 = p.base
      BY <2>2 DEF Inv, TypeOK, Objects
    <3>2. heap'[p.base + 0] = heap[p.base + 0]
      BY <2>2, <3>1, <1>8
    <3> QED
      BY <2>2, <3>1, <3>2 DEF Inv, SizeStored
  <2> QED
    BY <2>1, <2>2, <1>1
<1>11. LiveKept'
  <2> SUFFICES ASSUME allocator = "intact", NEW p \in objects', NEW i \in Header .. p.size - 1
               PROVE  heap'[p.base + i] = p.words[i]
    BY <1>1 DEF LiveKept
  <2>1. CASE p = set
    <3>1. i \in 0 .. o.size - 1 /\ i \in Header .. o.size - 1
      BY <2>1, <1>2, <1>3, HeaderPositive
    <3>2. heap[o.base + i] = o.words[i]
      BY <3>1 DEF Inv, LiveKept
    <3> QED
      BY <2>1, <3>1, <3>2, <1>3, <1>9
  <2>2. CASE p \in objects \ {o}
    <3>1. i \in 0 .. p.size - 1
      BY <2>2, HeaderPositive DEF Inv, TypeOK, Objects
    <3>2. heap[p.base + i] = p.words[i]
      BY <2>2 DEF Inv, LiveKept
    <3> QED
      BY <2>2, <3>1, <3>2, <1>8
  <2> QED
    BY <2>1, <2>2, <1>1
<1> QED
  BY <1>5, <1>6, <1>7, <1>10, <1>11 DEF Inv

(* The release clears as many bytes as the block has, a header further on: *)
(* of the next block it reaches the header, and nothing that comes after.  *)
LEMMA ReleaseInv ==
  ASSUME Inv, NEW o \in objects, ReleaseObject(o)
  PROVE  Inv'
<1>1. /\ o.base \in Nat /\ o.size \in Nat \ {0} /\ o.extent \in Nat
      /\ o.size <= o.extent /\ o.base + o.extent <= HeapSize
      /\ HeapSize \in Nat /\ Header \in Nat
  BY ObjectAssumption, HeaderPositive DEF Inv, TypeOK, Objects, Fits
<1>2. /\ heap' = [c \in Cells |-> CASE Inside(c, o.base, o.extent) -> Foreign
                                  [] /\ ~Inside(c, o.base, o.extent)
                                     /\ c \in Cleared(o) /\ heap[c] # Foreign -> 0
                                  [] OTHER -> heap[c]]
      /\ objects' = objects \ {o}
      /\ allocator' \in {"corrupt", allocator}
  BY DEF ReleaseObject
<1>3. TypeOK'
  BY <1>2 DEF Inv, TypeOK, Foreign
<1>4. Fits' /\ AllApart'
  BY <1>2 DEF Inv, Fits, AllApart
<1>5. ASSUME allocator = "intact", NEW p \in objects, p # o, NEW i \in 0 .. p.size - 1
      PROVE  /\ heap'[p.base + i] \in {0, heap[p.base + i]}
             /\ Header <= i => heap'[p.base + i] = heap[p.base + i]
  <2>1. /\ p.base \in Nat /\ p.size \in Nat /\ p.extent \in Nat
        /\ p.size <= p.extent /\ p.base + p.extent <= HeapSize /\ Apart(p.base, p.extent, o)
        /\ heap[o.base] \in {0, o.size}
    BY <1>5 DEF Inv, TypeOK, Objects, Fits, AllApart, SizeStored
  <2>2. p.base + i \in Cells /\ ~Inside(p.base + i, o.base, o.extent)
    BY <2>1, <1>1 DEF Apart, Inside, Cells
  <2>3. Header <= i => p.base + i \notin Cleared(o)
    BY <2>1, <2>2, <1>1 DEF Apart, Inside, Cells, Cleared
  <2>4. heap'[p.base + i] = IF p.base + i \in Cleared(o) /\ heap[p.base + i] # Foreign
                              THEN 0 ELSE heap[p.base + i]
    BY <2>2, <1>2
  <2> QED
    BY <2>3, <2>4
<1>6. SizeStored'
  <2> SUFFICES ASSUME allocator = "intact", NEW p \in objects, p # o
               PROVE  heap'[p.base] \in {0, p.size}
    BY <1>2 DEF SizeStored
  <2>1. 0 \in 0 .. p.size - 1 /\ p.base + 0 = p.base
    BY DEF Inv, TypeOK, Objects
  <2>2. heap'[p.base + 0] \in {0, heap[p.base + 0]}
    BY <2>1, <1>5
  <2> QED
    BY <2>1, <2>2 DEF Inv, SizeStored
<1>7. LiveKept'
  <2> SUFFICES ASSUME allocator = "intact", NEW p \in objects, p # o,
                      NEW i \in Header .. p.size - 1
               PROVE  heap'[p.base + i] = p.words[i]
    BY <1>2 DEF LiveKept
  <2>1. i \in 0 .. p.size - 1 /\ Header <= i
    BY <1>1 DEF Inv, TypeOK, Objects
  <2> QED
    BY <2>1, <1>5 DEF Inv, LiveKept
<1> QED
  BY <1>3, <1>4, <1>6, <1>7 DEF Inv

LEMMA AlwaysInv == Spec => []Inv
<1>1. Inv /\ [Next]_vars => Inv'
  <2> SUFFICES ASSUME Inv, [Next]_vars PROVE Inv'
    OBVIOUS
  <2>1. ASSUME NEW s \in Shapes, NEW t \in Tails, NEW base \in Cells, AllocObject(base, s, t)
        PROVE  Inv'
    BY <2>1, AllocInv
  <2>2. CASE \E o \in objects : SetParams(o) \/ ReleaseObject(o)
    BY <2>2, SetParamsInv, ReleaseInv
  <2>3. CASE UNCHANGED vars
    BY <2>3 DEF vars, Inv, TypeOK, Fits, SizeStored, AllApart, LiveKept
  <2> QED
    BY <2>1, <2>2, <2>3 DEF Next
<1> QED
  BY <1>1, InitInv, PTL DEF Spec

(* What a live object holds is what its owner left in it, whatever the     *)
(* other objects' allocations and releases do, with or without padding     *)
(* between blocks, until a release overwrites bytes of the allocator:      *)
(* mcupr_alloc_object and mcupr_release_object.                            *)
THEOREM LiveObjectsKept == Spec => []LiveKept
<1>1. Inv => LiveKept
  BY DEF Inv
<1> QED
  BY <1>1, AlwaysInv, PTL

-----------------------------------------------------------------------------

LEMMA ProductMod ==
  ASSUME NEW k \in Int, NEW n \in Nat \ {0}
  PROVE  (k * n) % n = 0
<1> DEFINE q == (k * n) \div n
           r == (k * n) % n
<1>1. q \in Int /\ r \in 0 .. n - 1 /\ k * n = n * q + r
  OBVIOUS
<1>2. n * (k - q) = r
  BY <1>1
<1>3. k - q \in Int
  BY <1>1
<1> HIDE DEF q, r
<1>4. ASSUME NEW d \in Int, n * d = r PROVE r = 0
  <2>1. CASE d >= 1
    <3>1. n * d >= n
      BY <2>1
    <3> QED
      BY <3>1, <1>4, <1>1
  <2>2. CASE d <= -1
    <3>1. n * d <= -n
      BY <2>2
    <3> QED
      BY <3>1, <1>4, <1>1
  <2>3. CASE d = 0
    BY <2>3, <1>4
  <2> QED
    BY <2>1, <2>2, <2>3
<1>5. r = 0
  BY <1>2, <1>3, <1>4
<1> QED
  BY <1>5 DEF r

(* The sum of two multiples is one, and so is a rounded size. *)
LEMMA Multiple ==
  ASSUME NEW n \in Nat \ {0}, NEW a \in Nat, NEW b \in Nat, a % n = 0, b % n = 0
  PROVE  (a + b) % n = 0
<1> DEFINE i == a \div n
           j == b \div n
<1>1. i \in Int /\ j \in Int /\ a = n * i /\ b = n * j
  OBVIOUS
<1>2. a + b = (i + j) * n
  BY <1>1
<1>3. i + j \in Int
  BY <1>1
<1> QED
  BY <1>2, <1>3, ProductMod

LEMMA Aligned ==
  ASSUME NEW x \in Nat, NEW n \in Nat \ {0}
  PROVE  MCUPR_ALIGN(x, n) % n = 0
<1>1. (x + n - 1) \div n \in Int
  OBVIOUS
<1> QED
  BY <1>1, ProductMod DEF MCUPR_ALIGN

(* The parts of a block, in their order. *)
LEMMA BlockParts ==
  ASSUME NEW s \in Shapes
  PROVE  /\ PointerAt(s) + W <= DataStart(s) /\ Header + s.size0 <= DataStart(s)
         /\ DataStart(s) + s.size1 <= BlockSize(s)
         /\ DataStart(s) % W = 0
<1>1. s.size0 \in Nat /\ s.size1 \in Nat /\ s.offset \in Nat /\ s.offset + W <= s.size0
      /\ W \in Nat \ {0}
  BY ObjectAssumption
<1>2. /\ MCUPR_ALIGN(s.size0, W) \in Nat /\ s.size0 <= MCUPR_ALIGN(s.size0, W)
      /\ MCUPR_ALIGN(s.size1, W) \in Nat /\ s.size1 <= MCUPR_ALIGN(s.size1, W)
  BY <1>1, AlignBounds
<1>3. Header \in Nat /\ Header % W = 0 /\ MCUPR_ALIGN(s.size0, W) % W = 0
  BY <1>1, HeaderPositive, Aligned DEF Header
<1>4. (Header + MCUPR_ALIGN(s.size0, W)) % W = 0
  BY <1>1, <1>2, <1>3, Multiple
<1> HIDE DEF MCUPR_ALIGN
<1> QED
  BY <1>1, <1>2, <1>3, <1>4 DEF PointerAt, DataStart, BlockSize

(* The pointer of a live object is the one mcupr_alloc_object has stored:  *)
(* no member that the owner sets lies over it.                             *)
Pointed ==
  \A o \in objects :
    /\ o.base % W = 0 /\ o.size = BlockSize(o.shape)
    /\ 0 < o.shape.size1 => o.words[PointerAt(o.shape)] = o.base + DataStart(o.shape)

LEMMA NextPointed ==
  ASSUME Inv, Pointed, [Next]_vars
  PROVE  Pointed'
<1>1. ASSUME NEW s \in Shapes, NEW t \in Tails, NEW base \in Cells, base % W = 0,
             AllocObject(base, s, t)
      PROVE  Pointed'
  <2> DEFINE new == [base |-> base, size |-> BlockSize(s),
                     extent |-> BlockSize(s) + t.pad + t.own, shape |-> s,
                     words |-> [i \in Cells |-> Fresh(base, s, i)]]
  <2>0. t.pad \in Nat /\ t.own \in Nat /\ BlockSize(s) \in Nat
    BY BlockPositive, ObjectAssumption
  <2>1. base + BlockSize(s) <= HeapSize /\ objects' = objects \cup {new}
    BY <1>1, <2>0, ObjectAssumption DEF AllocObject, Cells
  <2>2. PointerAt(s) \in Cells
    BY <2>1, BlockParts, BlockPositive, ObjectAssumption DEF Cells
  <2>3. 0 < s.size1 => Fresh(base, s, PointerAt(s)) = base + DataStart(s)
    BY DEF Fresh
  <2>4. 0 < s.size1 => new.words[PointerAt(s)] = base + DataStart(s)
    BY <2>2, <2>3
  <2> QED
    BY <1>1, <2>1, <2>4 DEF Pointed
<1>2. ASSUME NEW o \in objects, SetParams(o)
      PROVE  Pointed'
  <2> DEFINE set == [o EXCEPT !.words = [i \in Cells |-> IF IsParam(o, i) THEN 1
                                                                        ELSE o.words[i]]]
  <2>1. objects' = (objects \ {o}) \cup {set}
    BY <1>2 DEF SetParams
  <2>2. /\ o \in Objects /\ o.shape \in Shapes /\ o.base \in Nat
        /\ o.size = BlockSize(o.shape) /\ o.base + o.size <= HeapSize
    BY ObjectAssumption DEF Inv, TypeOK, Objects, Fits, Pointed
  <2>3. PointerAt(o.shape) \in Cells
    BY <2>2, BlockParts, BlockPositive, ObjectAssumption DEF Cells
  <2>4. ~IsParam(o, PointerAt(o.shape))
    BY <2>2, HeaderPositive, ObjectAssumption DEF IsParam, PointerAt
  <2>5. /\ set.base = o.base /\ set.size = o.size /\ set.shape = o.shape
        /\ set.words[PointerAt(o.shape)] = o.words[PointerAt(o.shape)]
    BY <2>2, <2>3, <2>4 DEF Objects
  <2> HIDE DEF set
  <2> QED
    BY <2>1, <2>5 DEF Pointed
<1>3. ASSUME NEW o \in objects, ReleaseObject(o)
      PROVE  Pointed'
  BY <1>3 DEF ReleaseObject, Pointed
<1>4. CASE UNCHANGED vars
  BY <1>4 DEF vars, Pointed
<1> QED
  BY <1>1, <1>2, <1>3, <1>4 DEF Next

(* obj->data of a live object leads to the data area of its own block,     *)
(* aligned and long enough, for every shape that mcupr_alloc_object is     *)
(* asked for: the pointer is where the caller's offset says and stays what *)
(* it was, and the sizes are rounded so that the areas do not overlap.     *)
THEOREM DataStaysInside == Spec => []DataInside
<1>1. Init => Pointed
  BY DEF Init, Pointed
<1>2. Inv /\ Pointed /\ [Next]_vars => Pointed'
  BY NextPointed
<1>3. Inv /\ Pointed => DataInside
  <2> SUFFICES ASSUME Inv, Pointed, allocator = "intact",
                      NEW o \in objects, 0 < o.shape.size1
               PROVE  LET data == heap[o.base + Header + o.shape.offset]
                      IN  /\ data % W = 0
                          /\ o.base + Header + o.shape.size0 <= data
                          /\ data + o.shape.size1 <= o.base + o.size
    BY DEF DataInside
  <2>1. /\ o.base \in Nat /\ o.shape \in Shapes /\ o.base % W = 0
        /\ o.size = BlockSize(o.shape)
        /\ o.words[PointerAt(o.shape)] = o.base + DataStart(o.shape)
    BY DEF Inv, TypeOK, Objects, Pointed
  <2>2. PointerAt(o.shape) \in Header .. o.size - 1
    BY <2>1, BlockParts, BlockPositive, HeaderPositive, ObjectAssumption DEF PointerAt
  <2>3. heap[o.base + PointerAt(o.shape)] = o.base + DataStart(o.shape)
    BY <2>1, <2>2 DEF Inv, LiveKept
  <2>4. o.base + Header + o.shape.offset = o.base + PointerAt(o.shape)
    BY <2>1, HeaderPositive, ObjectAssumption DEF PointerAt
  <2>5. (o.base + DataStart(o.shape)) % W = 0
    BY <2>1, BlockParts, BlockPositive, Multiple, ObjectAssumption
  <2>6. o.shape.size0 \in Nat /\ o.shape.size1 \in Nat /\ Header \in Nat
    BY <2>1, HeaderPositive, ObjectAssumption
  <2> QED
    BY <2>1, <2>3, <2>4, <2>5, <2>6, BlockParts, BlockPositive
<1> QED
  BY <1>1, <1>2, <1>3, AlwaysInv, PTL DEF Spec
==============================================================================
