------------------------- MODULE GeneralArenaProofs -------------------------
(***************************************************************************)
(* Proofs about GeneralArena, for any layout of blocks, limit, sizes and   *)
(* alignments, any addresses that native allocators give, and any number   *)
(* of objects.                                                             *)
(*                                                                         *)
(* ArenaInv is the inductive invariant. That objects are apart needs that  *)
(* each lies in the part of its block that is in use (ObjectsPlaced) and   *)
(* that blocks are apart, which follows from where native memory is        *)
(* (Books) when it is obtained.                                            *)
(*                                                                         *)
(* AgainInv carries the repetition after a reset: each object of both      *)
(* rounds lies where the search puts it, which is a function of where the  *)
(* blocks are and of the objects before it.                                *)
(***************************************************************************)
EXTENDS GeneralArena, SequenceTheorems, WellFoundedInduction, TLAPS

Block == [base : Nat, capacity : Nat, used : Nat]

\* What the arena holds is exactly what is out.
Books ==
    IF alive
    THEN taken = {NativeBlock(source, blocks[i]) : i \in 1..Len(blocks)} \cup {NativeHome(source)}
    ELSE taken = {} /\ blocks = <<>> /\ given = <<>>

BlocksApart ==
    \A i, j \in 1..Len(blocks) : i # j =>
        ~Overlap(blocks[i].base, Header + blocks[i].capacity,
                 blocks[j].base, Header + blocks[j].capacity)

\* An object lies in the part of its block that is in use.
Placed(o, b) ==
    /\ o.at % o.align = 0
    /\ Data(b) <= o.at
    /\ o.at + o.size <= Data(b) + b.used

ObjectsPlaced ==
    \A k \in 1..Len(given) :
        given[k].in \in 1..Len(blocks) /\ Placed(given[k], blocks[given[k].in])

ArenaInv ==
    TypeOK /\ Books /\ BlocksApart /\ ObjectsPlaced /\ NoOverlap /\ NativeInRange

\* There is nothing yet.
LEMMA InitArena == Init => ArenaInv
<1> SUFFICES ASSUME Init PROVE ArenaInv
  OBVIOUS
<1>1. /\ <<>> \in Seq(Allocators) /\ <<>> \in Seq(Block) /\ <<>> \in Seq(Object)
      /\ 1..Len(<<>>) = {} /\ Len(<<>>) = 0
  OBVIOUS
<1>2. /\ nextCapacity \in InitialCapacity..GrowthLimit /\ home \in Nat /\ passes \in 0..MaxPasses
  BY Layout DEF Init
<1>3. /\ scopes \in Seq(Allocators) /\ blocks \in Seq(Block)
      /\ given \in Seq(Object) /\ earlier \in Seq(Object)
      /\ current \in 0..Len(blocks) /\ 1..Len(blocks) = {} /\ 1..Len(given) = {}
  BY <1>1 DEF Init
<1>4. TypeOK
  BY <1>2, <1>3 DEF Init, TypeOK, Block
<1> QED
  BY <1>3, <1>4 DEF Init, ArenaInv, Books, BlocksApart, ObjectsPlaced, NoOverlap, NativeInRange

\* What the checks of a request establish about its numbers.
LEMMA RequestNumbers ==
    ASSUME NEW bytes \in Sizes, NEW align \in Alignments, InRange(bytes, align),
           nextCapacity \in InitialCapacity..GrowthLimit
    PROVE  /\ AtLeastOne(bytes) \in Nat \ {0} /\ align \in Nat \ {0}
           /\ Storage(AtLeastOne(bytes), align) \in Nat
           /\ Allowed(AtLeastOne(bytes), align) =>
                Header + Storage(AtLeastOne(bytes), align) <= Limit
<1>1. /\ bytes \in Nat /\ align \in Nat /\ Limit \in Nat /\ Header \in Nat
      /\ InitialCapacity \in Nat /\ GrowthLimit \in Nat /\ Header <= Limit
  BY Layout
<1>2. align # 0
  <2>1. PICK k \in 0..align : 2^k = align
    BY DEF InRange, IsPower
  <2>2. SUFFICES ASSUME align = 0 PROVE FALSE
    OBVIOUS
  <2>3. k = 0
    BY <2>1, <2>2
  <2>4. 2^0 = 0
    BY <2>1, <2>2, <2>3
  <2> QED
    BY <2>4
<1>3. /\ AtLeastOne(bytes) + (align - 1) <= Limit - Header
      /\ AtLeastOne(bytes) \in Nat \ {0}
  BY <1>1, <1>2 DEF InRange, AtLeastOne, Minus
<1>4. Larger(nextCapacity, AtLeastOne(bytes)) \in Nat
  BY <1>1, <1>3 DEF Larger
<1>5. Storage(AtLeastOne(bytes), align) = Larger(nextCapacity, AtLeastOne(bytes)) + align - 1
  BY DEF Storage
<1>6. Minus(Minus(Limit, Header), align - 1) = Limit - Header - (align - 1)
  BY <1>1, <1>2, <1>3 DEF Minus
<1> HIDE DEF Storage, Larger, AtLeastOne
<1>7. ASSUME Allowed(AtLeastOne(bytes), align)
      PROVE  Header + Storage(AtLeastOne(bytes), align) <= Limit
  <2>1. Larger(nextCapacity, AtLeastOne(bytes)) <= Limit - Header - (align - 1)
    BY <1>6, <1>7 DEF Allowed
  <2> QED
    BY <2>1, <1>1, <1>2, <1>4, <1>5
<1>8. Storage(AtLeastOne(bytes), align) \in Nat
  BY <1>1, <1>2, <1>4, <1>5
<1> QED
  BY <1>2, <1>1, <1>3, <1>7, <1>8

-----------------------------------------------------------------------------

\* A block that is used further still holds what it held.
LEMMA StaysPlaced ==
    ASSUME NEW o, NEW b, NEW c, b.base = c.base, b.used <= c.used,
           o.at \in Nat, o.size \in Nat, b.base \in Nat, b.used \in Nat, c.used \in Nat,
           Placed(o, b)
    PROVE  Placed(o, c)
<1>1. o.at % o.align = 0 /\ Data(c) <= o.at /\ o.at + o.size <= Data(b) + b.used
  BY DEF Placed, Data
<1>2. Header \in Nat
  BY Layout
<1>3. o.at + o.size <= Data(c) + c.used
  BY <1>1, <1>2 DEF Data
<1> QED
  BY <1>1, <1>3 DEF Placed

LEMMA SizesAdd == \A x \in Nat : Header + x \in Nat /\ \A y \in Nat : (x + Header) + y \in Nat
  BY Layout

\* An object lies in its block.
LEMMA PlacedInBlock ==
    ASSUME NEW o, NEW b, Placed(o, b), b.used <= b.capacity,
           o.at \in Nat, o.size \in Nat, b.base \in Nat, b.used \in Nat, b.capacity \in Nat
    PROVE  b.base <= o.at /\ o.at + o.size <= b.base + (Header + b.capacity)
<1>1. b.base + Header <= o.at /\ o.at + o.size <= b.base + Header + b.used
  BY DEF Placed, Data
<1>2. Header \in Nat
  BY Layout
<1> QED
  BY <1>1, <1>2

\* What ends where the other begins is apart from it.
LEMMA BelowIsApart ==
    ASSUME NEW x \in Nat, NEW n \in Nat, NEW m \in Nat, NEW y \in Nat, NEW k \in Nat,
           x + n <= m, m <= y
    PROVE  ~Overlap(x, n, y, k)
  BY DEF Overlap

\* Objects in blocks that are apart are apart.
LEMMA InBlocksApart ==
    ASSUME NEW o, NEW b, NEW x, NEW c, Placed(o, b), Placed(x, c),
           b.used <= b.capacity, c.used <= c.capacity,
           o.at \in Nat, o.size \in Nat, b.base \in Nat, b.used \in Nat, b.capacity \in Nat,
           x.at \in Nat, x.size \in Nat, c.base \in Nat, c.used \in Nat, c.capacity \in Nat,
           ~Overlap(b.base, Header + b.capacity, c.base, Header + c.capacity)
    PROVE  ~Overlap(o.at, o.size, x.at, x.size)
<1>1. /\ b.base <= o.at /\ o.at + o.size <= b.base + (Header + b.capacity)
      /\ c.base <= x.at /\ x.at + x.size <= c.base + (Header + c.capacity)
  BY PlacedInBlock
<1>2. Header + b.capacity \in Nat /\ Header + c.capacity \in Nat
  BY SizesAdd
<1> QED
  BY <1>1, <1>2 DEF Overlap

\* An object laid into the unused part of an old or a new block is apart from
\* all others, and these stay where they are.
LEMMA ObjectAdded ==
    ASSUME ArenaInv, NEW o \in Object, given' = Append(given, o),
           blocks' \in Seq(Block), Len(blocks) <= Len(blocks'),
           \A j \in 1..Len(blocks) : /\ blocks'[j].base = blocks[j].base
                                     /\ blocks'[j].capacity = blocks[j].capacity
                                     /\ blocks[j].used <= blocks'[j].used,
           \A j \in 1..Len(blocks') : blocks'[j].used <= blocks'[j].capacity,
           BlocksApart', o.in \in 1..Len(blocks'), Placed(o, blocks'[o.in]),
           o.in <= Len(blocks) => Data(blocks[o.in]) + blocks[o.in].used <= o.at
    PROVE  given' \in Seq(Object) /\ ObjectsPlaced' /\ NoOverlap'
<1>0. Header \in Nat
  BY Layout
<1>1. /\ given \in Seq(Object) /\ blocks \in Seq(Block) /\ Len(blocks) \in Nat
      /\ Len(given) \in Nat /\ Len(blocks') \in Nat
  <2>1. given \in Seq(Object) /\ blocks \in Seq(Block)
    BY Zenon DEF ArenaInv, TypeOK, Block
  <2> QED
    BY <2>1, LenProperties, Zenon
<1>2. /\ given' \in Seq(Object) /\ Len(given') = Len(given) + 1
      /\ given'[Len(given) + 1] = o
      /\ \A k \in 1..Len(given) : given'[k] = given[k]
  BY <1>1, AppendProperties
<1>3. \A k \in 1..Len(given) : given[k] \in Object
  BY <1>1, ElementOfSeq
<1>4. /\ \A j \in 1..Len(blocks) : blocks[j] \in Block
      /\ \A j \in 1..Len(blocks') : blocks'[j] \in Block
  BY <1>1, ElementOfSeq
<1>5. \A k \in 1..Len(given) :
        /\ given[k].in \in 1..Len(blocks) /\ given[k].in \in 1..Len(blocks')
        /\ Placed(given[k], blocks[given[k].in])
        /\ Placed(given[k], blocks'[given[k].in])
  <2> SUFFICES ASSUME NEW k \in 1..Len(given)
               PROVE  /\ given[k].in \in 1..Len(blocks)
                      /\ given[k].in \in 1..Len(blocks')
                      /\ Placed(given[k], blocks[given[k].in])
                      /\ Placed(given[k], blocks'[given[k].in])
    OBVIOUS
  <2>1. given[k].in \in 1..Len(blocks) /\ Placed(given[k], blocks[given[k].in])
    BY DEF ArenaInv, ObjectsPlaced
  <2>2. given[k].in \in 1..Len(blocks')
    BY <2>1, <1>1
  <2>3. /\ blocks[given[k].in].base = blocks'[given[k].in].base
        /\ blocks[given[k].in].used <= blocks'[given[k].in].used
    BY <2>1
  <2>4. /\ blocks[given[k].in].base \in Nat /\ blocks[given[k].in].used \in Nat
        /\ blocks'[given[k].in].used \in Nat
        /\ given[k].at \in Nat /\ given[k].size \in Nat
    BY <2>1, <2>2, <1>3, <1>4 DEF Object, Block
  <2>7. Placed(given[k], blocks'[given[k].in])
    BY <2>1, <2>3, <2>4, StaysPlaced
  <2> QED
    BY <2>1, <2>2, <2>7
<1>6. ObjectsPlaced'
  <2> SUFFICES ASSUME NEW k \in 1..Len(given')
               PROVE  /\ given'[k].in \in 1..Len(blocks')
                      /\ Placed(given'[k], blocks'[given'[k].in])
    BY DEF ObjectsPlaced, Placed, Data
  <2>1. k \in 1..Len(given) \/ k = Len(given) + 1
    BY <1>1, <1>2
  <2> QED
    BY <2>1, <1>2, <1>5
<1>7. \A k \in 1..Len(given) : ~Overlap(given[k].at, given[k].size, o.at, o.size)
  <2> SUFFICES ASSUME NEW k \in 1..Len(given)
               PROVE  ~Overlap(given[k].at, given[k].size, o.at, o.size)
    OBVIOUS
  <2> DEFINE j == given[k].in
  <2>1. given[k] \in Object /\ j \in 1..Len(blocks) /\ blocks[j] \in Block
    BY <1>3, <1>4, <1>5
  <2>2. /\ given[k].at \in Nat /\ given[k].size \in Nat /\ o.at \in Nat /\ o.size \in Nat
        /\ blocks[j].base \in Nat /\ blocks[j].used \in Nat /\ blocks[j].capacity \in Nat
    BY <2>1 DEF Object, Block
  <2>3. CASE j = o.in
    <3>1. Data(blocks[j]) + blocks[j].used <= o.at
      BY <2>1, <2>3, <1>1
    <3>2. given[k].at + given[k].size <= Data(blocks[j]) + blocks[j].used
      BY <1>5 DEF Placed
    <3>3. Data(blocks[j]) + blocks[j].used \in Nat
      BY <2>2, SizesAdd, Zenon DEF Data
    <3> QED
      BY <3>1, <3>2, <3>3, <2>2, BelowIsApart, Zenon
  <2>4. CASE j # o.in
    <3>0. j \in 1..Len(blocks')
      BY <1>5, Zenon
    <3>1. j \in 1..Len(blocks') /\ blocks'[j] \in Block /\ blocks'[o.in] \in Block
      BY <3>0, <1>4, Zenon
    <3> HIDE DEF j
    <3>2. ~Overlap(blocks'[j].base, Header + blocks'[j].capacity,
                   blocks'[o.in].base, Header + blocks'[o.in].capacity)
      BY <3>1, <2>4, Zenon DEF BlocksApart, Overlap
    <3>3. /\ blocks'[j].used <= blocks'[j].capacity
          /\ blocks'[o.in].used <= blocks'[o.in].capacity
      BY <3>1, Zenon
    <3>4. /\ blocks'[j].base \in Nat /\ blocks'[j].used \in Nat /\ blocks'[j].capacity \in Nat
          /\ blocks'[o.in].base \in Nat /\ blocks'[o.in].used \in Nat
          /\ blocks'[o.in].capacity \in Nat
      BY <3>1 DEF Block
    <3>5. Placed(given[k], blocks'[j])
      BY <1>5, Zenon DEF j
    <3> QED
      BY <3>2, <3>3, <3>4, <3>5, <2>2, InBlocksApart, Zenon
  <2> QED
    BY <2>3, <2>4
<1>8. NoOverlap'
  <2> SUFFICES ASSUME NEW k \in 1..Len(given'), NEW l \in 1..Len(given'), k # l
               PROVE  ~Overlap(given'[k].at, given'[k].size, given'[l].at, given'[l].size)
    BY DEF NoOverlap, Overlap
  <2>1. /\ k \in 1..Len(given) \/ k = Len(given) + 1
        /\ l \in 1..Len(given) \/ l = Len(given) + 1
    BY <1>1, <1>2
  <2>2. CASE k \in 1..Len(given) /\ l \in 1..Len(given)
    BY <2>2, <1>2 DEF ArenaInv, NoOverlap
  <2>3. CASE k \in 1..Len(given) /\ l = Len(given) + 1
    BY <2>3, <1>2, <1>7
  <2>4. CASE k = Len(given) + 1 /\ l \in 1..Len(given)
    BY <2>4, <1>2, <1>7 DEF Overlap
  <2> QED
    BY <2>1, <2>2, <2>3, <2>4
<1> QED
  BY <1>2, <1>6, <1>8

-----------------------------------------------------------------------------

\* Carving an object out of a block that has room.
LEMMA CarveStep ==
    ASSUME ArenaInv, NEW size \in Nat \ {0}, NEW align \in Nat \ {0},
           NEW i, NEW q, AllocInBlock(size, align, i, q),
           UNCHANGED <<scopes, alive, source, home, earlier, passes>>, alive
    PROVE  ArenaInv'
<1>1. /\ given \in Seq(Object) /\ blocks \in Seq(Block) /\ Len(blocks) \in Nat
  BY DEF ArenaInv, TypeOK, Block
<1>2. i \in 1..Len(blocks) /\ blocks[i] \in Block /\ blocks[i].used <= blocks[i].capacity
  BY <1>1, ElementOfSeq DEF AllocInBlock, Found, ArenaInv, TypeOK
<1>3. /\ blocks[i].base \in Nat /\ blocks[i].capacity \in Nat /\ blocks[i].used \in Nat
      /\ Header \in Nat /\ Data(blocks[i]) \in Nat
  BY <1>2, Layout DEF Block, Data
<1>4. /\ q \in Nat /\ q % align = 0 /\ Data(blocks[i]) + blocks[i].used <= q
      /\ q + size <= Data(blocks[i]) + blocks[i].capacity
  BY <1>3 DEF AllocInBlock, Reserves, IsPlace, Aligned, Ends
<1> DEFINE c == Reserved(blocks[i], q, size)
<1>5. /\ c \in Block /\ c.base = blocks[i].base /\ c.capacity = blocks[i].capacity
      /\ c.used = (q - Data(blocks[i])) + size
  <2>1. (q - Data(blocks[i])) + size \in Nat
    BY <1>3, <1>4
  <2>2. c = [blocks[i] EXCEPT !.used = (q - Data(blocks[i])) + size]
    BY DEF Reserved
  <2> HIDE DEF c
  <2> QED
    BY <1>2, <2>1, <2>2 DEF Block
<1>6. blocks[i].used <= c.used /\ c.used <= c.capacity
  BY <1>3, <1>4, <1>5
<1> HIDE DEF c
<1>7. blocks' = [blocks EXCEPT ![i] = c] /\ current' = i
  BY DEF AllocInBlock, c
<1>8. /\ blocks' \in Seq(Block) /\ Len(blocks') = Len(blocks)
      /\ \A j \in 1..Len(blocks) : blocks'[j] = IF j = i THEN c ELSE blocks[j]
  BY <1>1, <1>2, <1>5, <1>7, ExceptSeq
<1>9. \A j \in 1..Len(blocks) : /\ blocks'[j].base = blocks[j].base
                                /\ blocks'[j].capacity = blocks[j].capacity
                                /\ blocks'[j].used <= blocks'[j].capacity
  BY <1>5, <1>6, <1>8 DEF ArenaInv, TypeOK
<1>10. \A j \in 1..Len(blocks) : blocks[j].used <= blocks'[j].used
  <2> SUFFICES ASSUME NEW j \in 1..Len(blocks) PROVE blocks[j].used <= blocks'[j].used
    OBVIOUS
  <2>1. blocks[j] \in Block
    BY <1>1, ElementOfSeq
  <2>2. blocks[j].used \in Nat
    BY <2>1 DEF Block
  <2>3. CASE j = i
    BY <2>3, <1>2, <1>6, <1>8
  <2>4. CASE j # i
    BY <2>2, <2>4, <1>8
  <2> QED
    BY <2>3, <2>4
<1>11. BlocksApart'
  BY <1>8, <1>9 DEF BlocksApart, ArenaInv, Overlap
<1> DEFINE o == [size |-> size, align |-> align, at |-> q, in |-> i]
<1>12. /\ o \in Object /\ given' = Append(given, o) /\ o.in = i /\ o.at = q
       /\ o.size = size /\ o.align = align
  BY <1>1, <1>2, <1>4 DEF AllocInBlock, Hands, Object
<1>13. Placed(o, blocks'[i])
  <2>1. blocks'[i] = c
    BY <1>2, <1>8
  <2>2. Data(c) = Data(blocks[i])
    BY <1>5 DEF Data
  <2> HIDE DEF o
  <2>3. /\ Data(c) <= q /\ q + size <= Data(c) + c.used
    BY <2>2, <1>3, <1>4, <1>5
  <2> QED
    BY <2>1, <2>3, <1>12, <1>4 DEF Placed
<1> HIDE DEF o
<1>14. given' \in Seq(Object) /\ ObjectsPlaced' /\ NoOverlap'
  BY <1>1, <1>2, <1>4, <1>8, <1>9, <1>10, <1>11, <1>12, <1>13, ObjectAdded
<1>15. TypeOK' /\ NativeInRange'
  <2>1. taken' = taken /\ nextCapacity' = nextCapacity
    BY DEF AllocInBlock
  <2>2. current' \in 0..Len(blocks')
    BY <1>1, <1>2, <1>7, <1>8
  <2>3. \A j \in 1..Len(blocks') : blocks'[j].used <= blocks'[j].capacity
    BY <1>8, <1>9
  <2> QED
    BY <2>1, <2>2, <2>3, <1>8, <1>14 DEF ArenaInv, TypeOK, NativeInRange, Block
<1>16. Books'
  <2>1. \A j \in 1..Len(blocks) : NativeBlock(source, blocks'[j]) = NativeBlock(source, blocks[j])
    BY <1>9 DEF NativeBlock
  <2> QED
    BY <2>1, <1>8 DEF ArenaInv, Books, AllocInBlock, NativeHome, NativeBlock
<1> QED
  BY <1>11, <1>14, <1>15, <1>16 DEF ArenaInv

\* Taking a new block and carving the object out of it.
LEMMA NewBlockStep ==
    ASSUME ArenaInv, NEW size \in Nat \ {0}, NEW align \in Nat \ {0},
           Storage(size, align) \in Nat,
           Allowed(size, align) => Header + Storage(size, align) <= Limit,
           NEW base \in Nat, NEW q, AllocNewBlock(size, align, base, q),
           UNCHANGED <<scopes, alive, source, home, earlier, passes>>, alive
    PROVE  ArenaInv'
<1> DEFINE b == [base |-> base, capacity |-> Storage(size, align), used |-> 0]
           c == Reserved(b, q, size)
           n == Len(blocks)
<1>1. /\ given \in Seq(Object) /\ blocks \in Seq(Block) /\ n \in Nat
      /\ Header \in Nat /\ Limit \in Nat
  BY Layout DEF ArenaInv, TypeOK, Block
<1>2. /\ b \in Block /\ b.base = base /\ b.capacity = Storage(size, align) /\ b.used = 0
  BY DEF Block
<1>3. /\ blocks' = Append(blocks, c) /\ current' = n + 1 /\ nextCapacity' = Grown
      /\ taken' = taken \cup {[from |-> source, base |-> base,
                                size |-> Header + b.capacity]}
      /\ \A t \in taken : ~Overlap(base, Header + b.capacity, t.base, t.size)
      /\ Header + b.capacity <= Limit
  BY DEF AllocNewBlock, Obtain
<1>4. Reserves(q, b, size, align)
  BY DEF AllocNewBlock
<1> HIDE DEF b
<1>5. /\ q \in Nat /\ q % align = 0 /\ Data(b) <= q /\ Data(b) \in Nat
      /\ q + size <= Data(b) + b.capacity
  BY <1>1, <1>2, <1>4 DEF Reserves, IsPlace, Aligned, Ends, Data
<1>6. /\ c \in Block /\ c.base = base /\ c.capacity = b.capacity
      /\ c.used = (q - Data(b)) + size
  BY <1>2, <1>5 DEF Reserved, Block
<1>7. c.used <= c.capacity /\ b.capacity \in Nat
  BY <1>2, <1>5, <1>6
<1> HIDE DEF c
<1>8. /\ blocks' \in Seq(Block) /\ Len(blocks') = n + 1 /\ blocks'[n + 1] = c
      /\ \A j \in 1..n : blocks'[j] = blocks[j]
  BY <1>1, <1>3, <1>6, AppendProperties
<1>9. \A j \in 1..n : blocks[j] \in Block
  BY <1>1, ElementOfSeq
<1>10. \A j \in 1..Len(blocks') : blocks'[j].used <= blocks'[j].capacity
  <2> SUFFICES ASSUME NEW j \in 1..Len(blocks')
               PROVE  blocks'[j].used <= blocks'[j].capacity
    OBVIOUS
  <2>1. j \in 1..n \/ j = n + 1
    BY <1>1, <1>8
  <2> QED
    BY <2>1, <1>7, <1>8 DEF ArenaInv, TypeOK
<1>11. \A j \in 1..n :
          /\ ~Overlap(base, Header + b.capacity, blocks[j].base, Header + blocks[j].capacity)
          /\ ~Overlap(blocks[j].base, Header + blocks[j].capacity, base, Header + b.capacity)
  <2> SUFFICES ASSUME NEW j \in 1..n
               PROVE  ~Overlap(base, Header + b.capacity,
                               blocks[j].base, Header + blocks[j].capacity)
    BY DEF Overlap
  <2>1. NativeBlock(source, blocks[j]) \in taken
    BY DEF ArenaInv, Books
  <2> QED
    BY <2>1, <1>3 DEF NativeBlock
<1>12. BlocksApart'
  <2> SUFFICES ASSUME NEW j \in 1..Len(blocks'), NEW k \in 1..Len(blocks'), j # k
               PROVE  ~Overlap(blocks'[j].base, Header + blocks'[j].capacity,
                               blocks'[k].base, Header + blocks'[k].capacity)
    BY DEF BlocksApart, Overlap
  <2>1. (j \in 1..n \/ j = n + 1) /\ (k \in 1..n \/ k = n + 1)
    BY <1>1, <1>8
  <2>2. CASE j \in 1..n /\ k \in 1..n
    BY <2>2, <1>8 DEF ArenaInv, BlocksApart
  <2>3. CASE j = n + 1 /\ k \in 1..n
    BY <2>3, <1>6, <1>8, <1>11
  <2>4. CASE j \in 1..n /\ k = n + 1
    BY <2>4, <1>6, <1>8, <1>11
  <2> QED
    BY <2>1, <2>2, <2>3, <2>4
<1> DEFINE o == [size |-> size, align |-> align, at |-> q, in |-> n + 1]
<1>13. /\ o \in Object /\ given' = Append(given, o) /\ o.in = n + 1 /\ o.at = q
       /\ o.size = size /\ o.align = align
  BY <1>1, <1>5 DEF AllocNewBlock, Hands, Object
<1> HIDE DEF o
<1>14. Placed(o, blocks'[n + 1])
  <2>1. Data(c) = Data(b)
    BY <1>2, <1>6 DEF Data
  <2>2. Data(c) <= q /\ q + size <= Data(c) + c.used
    BY <2>1, <1>5, <1>6
  <2> QED
    BY <2>2, <1>5, <1>8, <1>13 DEF Placed
<1>15. \A j \in 1..n : /\ blocks'[j].base = blocks[j].base
                       /\ blocks'[j].capacity = blocks[j].capacity
                       /\ blocks[j].used <= blocks'[j].used
  <2> SUFFICES ASSUME NEW j \in 1..n PROVE blocks[j].used <= blocks[j].used
    BY <1>8
  <2>1. blocks[j].used \in Nat
    BY <1>9 DEF Block
  <2> QED
    BY <2>1
<1>16. given' \in Seq(Object) /\ ObjectsPlaced' /\ NoOverlap'
  <2>1. /\ o.in \in 1..Len(blocks') /\ n <= Len(blocks') /\ ~(o.in <= n)
    BY <1>1, <1>8, <1>13
  <2>2. Placed(o, blocks'[o.in])
    BY <1>13, <1>14
  <2> QED
    BY <2>1, <2>2, <1>8, <1>10, <1>12, <1>13, <1>15, ObjectAdded
<1>17. taken' \subseteq Native /\ NativeInRange'
  <2> DEFINE t == [from |-> source, base |-> base, size |-> Header + b.capacity]
  <2>1. t \in Native /\ t.size <= Limit
    <3>1. source \in Allocators \cup {"malloc"}
      BY Zenon DEF ArenaInv, TypeOK
    <3>2. Header + b.capacity \in Nat
      BY <1>7, SizesAdd, Zenon
    <3> QED
      BY <3>1, <3>2, <1>3, Zenon DEF Native
  <2> HIDE DEF t
  <2>2. taken' = taken \cup {t}
    BY <1>3 DEF t
  <2> QED
    BY <2>1, <2>2 DEF ArenaInv, TypeOK, NativeInRange
<1>18. nextCapacity' \in InitialCapacity..GrowthLimit
  BY <1>3, Layout DEF Grown, Smaller, ArenaInv, TypeOK
<1>19. TypeOK'
  <2>1. current' \in 0..Len(blocks')
    BY <1>1, <1>3, <1>8
  <2> QED
    BY <2>1, <1>8, <1>10, <1>16, <1>17, <1>18 DEF ArenaInv, TypeOK, Block
<1>20. Books'
  <2>1. NativeBlock(source, c) = [from |-> source, base |-> base, size |-> Header + b.capacity]
    BY <1>6 DEF NativeBlock
  <2>2. {NativeBlock(source, blocks'[j]) : j \in 1..(n + 1)} =
          {NativeBlock(source, blocks[j]) : j \in 1..n} \cup {NativeBlock(source, c)}
    <3>1. 1..(n + 1) = (1..n) \cup {n + 1}
      BY <1>1
    <3> QED
      BY <3>1, <1>8
  <2>3. taken' = {NativeBlock(source, blocks'[j]) : j \in 1..(n + 1)} \cup {NativeHome(source)}
    BY <2>1, <2>2, <1>3 DEF ArenaInv, Books
  <2> QED
    BY <2>3, <1>8 DEF Books, NativeHome, NativeBlock
<1> QED
  BY <1>12, <1>16, <1>17, <1>19, <1>20 DEF ArenaInv

\* A request, served from a block or by a new one.
LEMMA AllocStep ==
    ASSUME ArenaInv, NEW bytes \in Sizes, NEW align \in Alignments, Alloc(bytes, align)
    PROVE  ArenaInv'
<1>1. /\ alive /\ InRange(bytes, align)
      /\ UNCHANGED <<scopes, alive, source, home, earlier, passes>>
  BY DEF Alloc
<1>2. /\ AtLeastOne(bytes) \in Nat \ {0} /\ align \in Nat \ {0}
      /\ Storage(AtLeastOne(bytes), align) \in Nat
      /\ Allowed(AtLeastOne(bytes), align) =>
           Header + Storage(AtLeastOne(bytes), align) <= Limit
  BY <1>1, RequestNumbers DEF ArenaInv, TypeOK
<1>3. CASE \E i, q : AllocInBlock(AtLeastOne(bytes), align, i, q)
  <2>1. PICK i, q : AllocInBlock(AtLeastOne(bytes), align, i, q)
    BY <1>3
  <2> QED
    BY <2>1, <1>1, <1>2, CarveStep
<1>4. CASE \E base \in Nat : \E q : AllocNewBlock(AtLeastOne(bytes), align, base, q)
  <2>1. PICK base \in Nat : \E q : AllocNewBlock(AtLeastOne(bytes), align, base, q)
    BY <1>4
  <2>2. PICK q : AllocNewBlock(AtLeastOne(bytes), align, base, q)
    BY <2>1
  <2> QED
    BY <2>2, <1>1, <1>2, NewBlockStep
<1>5. Bases \subseteq Nat
  BY Layout
<1> QED
  BY <1>3, <1>4, <1>5 DEF Alloc

\* A new arena holds its State and nothing else.
LEMMA CreateStep == ArenaInv /\ Create => ArenaInv'
<1> SUFFICES ASSUME ArenaInv, Create PROVE ArenaInv'
  OBVIOUS
<1>1. PICK base \in Bases : Obtain(Installed, base, Home) /\ home' = base
  BY DEF Create
<1>2. /\ base \in Nat /\ Home \in Nat /\ Home <= Limit /\ InitialCapacity \in Nat
      /\ InitialCapacity <= GrowthLimit /\ GrowthLimit \in Nat /\ MaxPasses \in Nat
  BY Layout
<1>3. Installed \in Allocators \cup {"malloc"}
  <2>1. CASE scopes = <<>>
    BY <2>1 DEF Installed
  <2>2. CASE scopes # <<>>
    <3>1. scopes \in Seq(Allocators) /\ Len(scopes) \in 1..Len(scopes)
      BY <2>2, EmptySeq DEF ArenaInv, TypeOK
    <3> QED
      BY <2>2, <3>1, ElementOfSeq DEF Installed
  <2> QED
    BY <2>1, <2>2
<1>4. /\ <<>> \in Seq(Block) /\ <<>> \in Seq(Object)
      /\ 1..Len(<<>>) = {} /\ Len(<<>>) = 0
  OBVIOUS
<1>5. /\ blocks' = <<>> /\ given' = <<>> /\ earlier' = <<>> /\ current' = 0
      /\ alive' = TRUE /\ source' = Installed /\ home' = base /\ scopes' = scopes
      /\ nextCapacity' = InitialCapacity /\ passes' = passes + 1 /\ passes < MaxPasses
  BY <1>1 DEF Create
<1>6. taken = {} /\ taken' = {[from |-> Installed, base |-> base, size |-> Home]}
  BY <1>1 DEF Create, Obtain, ArenaInv, Books
<1>7. taken' \subseteq Native /\ NativeInRange'
  BY <1>2, <1>3, <1>6 DEF Native, NativeInRange
<1>8. Books'
  BY <1>4, <1>5, <1>6 DEF Books, NativeHome
<1>9. BlocksApart' /\ ObjectsPlaced' /\ NoOverlap'
  BY <1>4, <1>5 DEF BlocksApart, ObjectsPlaced, NoOverlap
<1>10. passes' \in 0..MaxPasses /\ nextCapacity' \in InitialCapacity..GrowthLimit
  BY <1>2, <1>5 DEF ArenaInv, TypeOK
<1>11. /\ blocks' \in Seq(Block) /\ given' \in Seq(Object) /\ earlier' \in Seq(Object)
       /\ current' \in 0..Len(blocks') /\ 1..Len(blocks') = {}
  BY <1>4, <1>5
<1>12. TypeOK'
  BY <1>2, <1>3, <1>5, <1>7, <1>10, <1>11 DEF ArenaInv, TypeOK, Block
<1> QED
  BY <1>7, <1>8, <1>9, <1>12 DEF ArenaInv

\* A reset forgets the objects and keeps the blocks where they are.
LEMMA ResetStep == ArenaInv /\ Reset => ArenaInv'
<1> SUFFICES ASSUME ArenaInv, Reset PROVE ArenaInv'
  OBVIOUS
<1> DEFINE n == Len(blocks)
<1>1. blocks \in Seq(Block) /\ n \in Nat /\ \A i \in 1..n : blocks[i] \in Block
  <2>1. blocks \in Seq(Block)
    BY DEF ArenaInv, TypeOK, Block
  <2> QED
    BY <2>1, ElementOfSeq
<1>2. blocks' = [i \in 1..n |-> [blocks[i] EXCEPT !.used = 0]]
  BY DEF Reset
<1>3. blocks' \in [1..n -> Block]
  BY <1>1, <1>2 DEF Block
<1>4. blocks' \in Seq(Block) /\ Len(blocks') = n
  BY <1>1, <1>3, SeqDef
<1>5. \A i \in 1..n : /\ blocks'[i].base = blocks[i].base
                      /\ blocks'[i].capacity = blocks[i].capacity
                      /\ blocks'[i].used <= blocks'[i].capacity
  <2> SUFFICES ASSUME NEW i \in 1..n
               PROVE  /\ blocks'[i].base = blocks[i].base
                      /\ blocks'[i].capacity = blocks[i].capacity
                      /\ blocks'[i].used <= blocks'[i].capacity
    OBVIOUS
  <2>1. blocks'[i] = [blocks[i] EXCEPT !.used = 0] /\ blocks[i] \in Block
    BY <1>1, <1>2
  <2> QED
    BY <2>1 DEF Block
<1>6. BlocksApart'
  BY <1>4, <1>5 DEF BlocksApart, ArenaInv, Overlap
<1>7. given' = <<>> /\ 1..Len(<<>>) = {} /\ <<>> \in Seq(Object)
  BY DEF Reset
<1>8. ObjectsPlaced' /\ NoOverlap'
  BY <1>7 DEF ObjectsPlaced, NoOverlap
<1>9. current' \in 0..Len(blocks')
  <2>1. CASE blocks = <<>>
    BY <2>1, <1>1, <1>4 DEF Reset, Rewound
  <2>2. CASE blocks # <<>>
    <3>1. n \in Nat \ {0}
      BY <2>2, <1>1, EmptySeq
    <3> QED
      BY <3>1, <2>2, <1>4 DEF Reset, Rewound
  <2> QED
    BY <2>1, <2>2
<1>10. passes' \in 0..MaxPasses
  BY Layout, SMTT(30) DEF Reset, ArenaInv, TypeOK
<1>11. TypeOK'
  <2>1. UNCHANGED <<scopes, alive, source, home, nextCapacity, taken>> /\ earlier' = given
    BY DEF Reset
  <2>2. \A i \in 1..Len(blocks') : blocks'[i].used <= blocks'[i].capacity
    BY <1>4, <1>5
  <2> QED
    BY <2>1, <2>2, <1>4, <1>7, <1>9, <1>10 DEF ArenaInv, TypeOK, Block
<1>12. Books' /\ NativeInRange'
  <2>1. \A i \in 1..n : NativeBlock(source, blocks'[i]) = NativeBlock(source, blocks[i])
    BY <1>5 DEF NativeBlock
  <2>2. UNCHANGED <<alive, source, home, taken>> /\ alive
    BY DEF Reset
  <2> QED
    BY <2>1, <2>2, <1>4 DEF ArenaInv, Books, NativeHome, NativeBlock, NativeInRange
<1> QED
  BY <1>6, <1>8, <1>11, <1>12 DEF ArenaInv

\* Everything goes back.
LEMMA DestroyStep == ArenaInv /\ Destroy => ArenaInv'
<1> SUFFICES ASSUME ArenaInv, Destroy PROVE ArenaInv'
  OBVIOUS
<1>1. /\ alive' = FALSE /\ blocks' = <<>> /\ given' = <<>> /\ earlier' = <<>> /\ current' = 0
      /\ UNCHANGED <<scopes, source, home, nextCapacity, passes>>
  BY DEF Destroy
<1>2. taken' = {}
  BY DEF Destroy, Receiver, ArenaInv, Books
<1>3. /\ <<>> \in Seq(Block) /\ <<>> \in Seq(Object)
      /\ 1..Len(<<>>) = {} /\ Len(<<>>) = 0
  OBVIOUS
<1>4. /\ blocks' \in Seq(Block) /\ given' \in Seq(Object) /\ earlier' \in Seq(Object)
      /\ current' \in 0..Len(blocks') /\ 1..Len(blocks') = {}
  BY <1>1, <1>3
<1>5. TypeOK'
  BY <1>1, <1>2, <1>4 DEF ArenaInv, TypeOK, Block
<1>6. Books' /\ NativeInRange'
  BY <1>1, <1>2 DEF Books, NativeInRange
<1>7. BlocksApart' /\ ObjectsPlaced' /\ NoOverlap'
  BY <1>1, <1>3 DEF BlocksApart, ObjectsPlaced, NoOverlap
<1> QED
  BY <1>5, <1>6, <1>7 DEF ArenaInv

\* Allocator scopes come and go and the arena does not notice.
LEMMA ScopeStep ==
    ArenaInv /\ ((\E a \in Allocators : Enter(a)) \/ Leave) => ArenaInv'
<1> SUFFICES ASSUME ArenaInv, (\E a \in Allocators : Enter(a)) \/ Leave PROVE ArenaInv'
  OBVIOUS
<1>1. UNCHANGED <<arena, taken, given, earlier, passes>>
  BY DEF Enter, Leave
<1>2. scopes' \in Seq(Allocators)
  <2>1. scopes \in Seq(Allocators)
    BY DEF ArenaInv, TypeOK
  <2>2. CASE \E a \in Allocators : Enter(a)
    BY <2>1, <2>2, AppendProperties DEF Enter
  <2>3. CASE Leave
    <3>1. Len(scopes) \in Nat /\ \A i \in 1..(Len(scopes) - 1) : scopes[i] \in Allocators
      BY <2>1, ElementOfSeq
    <3>2. SubSeq(scopes, 1, Len(scopes) - 1) \in Seq(Allocators)
      BY <3>1, SubSeqProperties
    <3> QED
      BY <2>3, <3>2 DEF Leave
  <2> QED
    BY <2>2, <2>3
<1>3. TypeOK'
  BY <1>1, <1>2 DEF ArenaInv, TypeOK, arena
<1>4. Books' /\ BlocksApart' /\ ObjectsPlaced' /\ NoOverlap' /\ NativeInRange'
  BY <1>1 DEF ArenaInv, arena, Books, NativeBlock, NativeHome, BlocksApart, ObjectsPlaced,
     Placed, Data, NoOverlap, Overlap, NativeInRange
<1> QED
  BY <1>3, <1>4 DEF ArenaInv

-----------------------------------------------------------------------------

\* ArenaInv holds in every state.
THEOREM ArenaInvariant == Spec => []ArenaInv
<1>1. ArenaInv /\ [Next]_vars => ArenaInv'
  <2> SUFFICES ASSUME ArenaInv, [Next]_vars PROVE ArenaInv'
    OBVIOUS
  <2>1. CASE \E bytes \in Sizes, align \in Alignments : Alloc(bytes, align)
    BY <2>1, AllocStep
  <2>2. CASE Create
    BY <2>2, CreateStep
  <2>3. CASE Reset
    BY <2>3, ResetStep
  <2>4. CASE Destroy
    BY <2>4, DestroyStep
  <2>5. CASE (\E a \in Allocators : Enter(a)) \/ Leave
    BY <2>5, ScopeStep
  <2>6. CASE UNCHANGED vars
    BY <2>6 DEF ArenaInv, TypeOK, vars, arena, Books, NativeBlock, NativeHome, BlocksApart,
       ObjectsPlaced, Placed, Data, NoOverlap, Overlap, NativeInRange
  <2> QED
    BY <2>1, <2>2, <2>3, <2>4, <2>5, <2>6 DEF Next
<1> QED
  BY InitArena, <1>1, PTL DEF Spec

\* The variables keep their types, the search stays within the list, no block is
\* used beyond its capacity, and growth stays within its limit.
THEOREM TypeCorrect == Spec => []TypeOK
<1>1. ArenaInv => TypeOK
  BY DEF ArenaInv
<1> QED
  BY <1>1, ArenaInvariant, PTL

\* No two objects given since the last reset share a byte.
THEOREM ObjectsNeverOverlap == Spec => []NoOverlap
<1>1. ArenaInv => NoOverlap
  BY DEF ArenaInv
<1> QED
  BY <1>1, ArenaInvariant, PTL

\* No native request is too large for a pointer difference.
THEOREM RequestsStayInRange == Spec => []NativeInRange
<1>1. ArenaInv => NativeInRange
  BY DEF ArenaInv
<1> QED
  BY <1>1, ArenaInvariant, PTL

\* When there is no arena, all memory has gone back to where it came from.
THEOREM MemoryGoesBack == Spec => []NothingLeft
<1>1. ArenaInv => NothingLeft
  BY DEF ArenaInv, Books, NothingLeft
<1> QED
  BY <1>1, ArenaInvariant, PTL

\* Every object is aligned and lies in memory that the arena holds.
THEOREM ObjectsLieInHeldMemory == Spec => []InHeldMemory
<1>1. ArenaInv => InHeldMemory
  <2> SUFFICES ASSUME ArenaInv, NEW k \in 1..Len(given)
               PROVE  /\ given[k].at % given[k].align = 0
                      /\ \E t \in taken : /\ t.base + Header <= given[k].at
                                         /\ given[k].at + given[k].size <= t.base + t.size
    BY DEF InHeldMemory
  <2> DEFINE i == given[k].in
             t == NativeBlock(source, blocks[i])
  <2>1. given[k] \in Object /\ i \in 1..Len(blocks) /\ Placed(given[k], blocks[i])
    BY ElementOfSeq DEF ArenaInv, TypeOK, ObjectsPlaced
  <2>2. blocks[i] \in Block /\ blocks[i].used <= blocks[i].capacity
    BY <2>1, ElementOfSeq DEF ArenaInv, TypeOK, Block
  <2>3. t \in taken
    <3>1. alive
      BY <2>1 DEF ArenaInv, Books
    <3> QED
      BY <3>1, <2>1 DEF ArenaInv, Books
  <2>4. t.base = blocks[i].base /\ t.size = Header + blocks[i].capacity
    BY DEF NativeBlock
  <2>5. /\ given[k].at \in Nat /\ given[k].size \in Nat /\ blocks[i].base \in Nat
        /\ blocks[i].used \in Nat /\ blocks[i].capacity \in Nat
    BY <2>1, <2>2 DEF Object, Block
  <2>6. given[k].at + given[k].size <= blocks[i].base + (Header + blocks[i].capacity)
    BY <2>1, <2>2, <2>5, PlacedInBlock
  <2>7. given[k].at % given[k].align = 0 /\ blocks[i].base + Header <= given[k].at
    BY <2>1 DEF Placed, Data
  <2> QED
    BY <2>3, <2>4, <2>6, <2>7
<1> QED
  BY <1>1, ArenaInvariant, PTL

\* Every object is aligned, in held memory and apart from the others, and no
\* request was too large: what an allocation promises, at all times.
THEOREM ObjectsAreSound == Spec => []ObjectsSound
<1>1. NoOverlap /\ InHeldMemory /\ NativeInRange => ObjectsSound
  BY DEF ObjectsSound
<1> QED
  BY <1>1, ObjectsNeverOverlap, ObjectsLieInHeldMemory, RequestsStayInRange, PTL

-----------------------------------------------------------------------------
(* The same requests after a reset.                                        *)

\* The i-th block when u bytes of it are in use.
UsedTo(list, i, u) == [base |-> list[i].base, capacity |-> list[i].capacity, used |-> u]

\* So much of block i is in use once the first n of the objects are given: up
\* to the end of the last of them in it.
InUse(list, objects, n, i, u) ==
    \/ u = 0 /\ \A l \in 1..n : objects[l].in # i
    \/ \E l \in 1..n :
          /\ objects[l].in = i /\ \A m \in (l + 1)..n : objects[m].in # i
          /\ u = (objects[l].at - Data(list[i])) + objects[l].size

\* The block the search starts at then.
SearchFrom(objects, n) == IF n = 0 THEN 1 ELSE objects[n].in

\* The k-th object lies where the search puts it: in the first block with room,
\* at the first address that fits.
PlacedBySearch(list, objects, k) ==
    LET o == objects[k] IN
    /\ o.in \in 1..Len(list) /\ SearchFrom(objects, k - 1) <= o.in
    /\ \A u \in Nat : InUse(list, objects, k - 1, o.in, u) =>
          Reserves(o.at, UsedTo(list, o.in, u), o.size, o.align)
    /\ \A j \in 1..(o.in - 1), u \in Nat :
          SearchFrom(objects, k - 1) <= j /\ InUse(list, objects, k - 1, j, u)
            => ~Fits(UsedTo(list, j, u), o.size, o.align)

\* Both rounds were placed by the search, and the search stands where the
\* objects of this round have left it.
AgainInv ==
    /\ \A k \in 1..Len(given) : PlacedBySearch(blocks, given, k)
    /\ \A k \in 1..Len(earlier) : PlacedBySearch(blocks, earlier, k)
    /\ \A i \in 1..Len(blocks) : InUse(blocks, given, Len(given), i, blocks[i].used)
    /\ IF given = <<>> THEN current = Rewound ELSE current = given[Len(given)].in
    /\ SameAgain

\* A non-empty set of numbers has a least one.
LEMMA LeastOf ==
    ASSUME NEW S \in SUBSET Nat, S # {}
    PROVE  \E x \in S : \A y \in S : x <= y
<1>1. PICK x \in S : \A y \in S : ~(<<y, x>> \in OpToRel(<, Nat))
  BY NatLessThanWellFounded, WFMin, Zenon
<1>2. \A y \in S : x <= y
  <2> SUFFICES ASSUME NEW y \in S PROVE x <= y
    OBVIOUS
  <2>1. x \in Nat /\ y \in Nat
    OBVIOUS
  <2>2. y < x => <<y, x>> \in OpToRel(<, Nat)
    BY <2>1 DEF OpToRel
  <2>3. ~(y < x)
    BY <1>1, <2>2, Zenon
  <2> QED
    BY <2>1, <2>3
<1> QED
  BY <1>2

\* A window as long as the alignment has one aligned address in it.
LEMMA AlignedUnique ==
    ASSUME NEW a \in Nat \ {0}, NEW s \in Nat, NEW p \in Nat, NEW q \in Nat,
           p \in s..(s + a - 1), q \in s..(s + a - 1), p % a = 0, q % a = 0
    PROVE  p = q
<1>1. ASSUME NEW x \in Nat, x % a = 0 PROVE \E d \in Nat : x = a * d
  <2>1. PICK d \in Int : d = x \div a
    OBVIOUS
  <2>2. x = a * d
    BY <1>1, <2>1
  <2>3. d >= 0
    BY <2>2
  <2> QED
    BY <2>2, <2>3
<1>2. PICK d \in Nat : p = a * d
  BY <1>1
<1>3. PICK e \in Nat : q = a * e
  BY <1>1
<1>4. ASSUME NEW x \in Nat, NEW y \in Nat, x < y PROVE a * x + a <= a * y
  <2>1. x + 1 <= y
    BY <1>4
  <2>2. a * (x + 1) <= a * y
    BY <2>1
  <2> QED
    BY <2>2
<1>5. ~(d < e)
  <2> SUFFICES ASSUME d < e PROVE FALSE
    OBVIOUS
  <2>1. p + a <= q
    BY <1>2, <1>3, <1>4
  <2> QED
    BY <2>1
<1>6. ~(e < d)
  <2> SUFFICES ASSUME e < d PROVE FALSE
    OBVIOUS
  <2>1. q + a <= p
    BY <1>2, <1>3, <1>4
  <2> QED
    BY <2>1
<1> QED
  BY <1>2, <1>3, <1>5, <1>6

\* Where the use of a block ends is one number.
LEMMA InUseUnique ==
    ASSUME NEW list, NEW objects, NEW n \in Nat, NEW i, NEW u, NEW v,
           InUse(list, objects, n, i, u), InUse(list, objects, n, i, v)
    PROVE  u = v
<1>1. ASSUME NEW l \in 1..n, NEW k \in 1..n, objects[l].in = i, objects[k].in = i,
             \A m \in (l + 1)..n : objects[m].in # i, \A m \in (k + 1)..n : objects[m].in # i
      PROVE  l = k
  <2>1. ~(l < k) /\ ~(k < l)
    BY <1>1
  <2> QED
    BY <2>1
<1> QED
  BY <1>1 DEF InUse

\* It depends on where the block is, and on the objects so far.
LEMMA InUseSame ==
    ASSUME NEW list, NEW list2, NEW objects, NEW objects2, NEW n \in Nat, NEW i, NEW u,
           list[i].base = list2[i].base, \A l \in 1..n : objects[l] = objects2[l],
           InUse(list, objects, n, i, u)
    PROVE  InUse(list2, objects2, n, i, u)
  BY DEF InUse, Data

\* A placement stays one when blocks are added and objects are given.
LEMMA PlacedSame ==
    ASSUME NEW list, NEW list2, Len(list) \in Nat, Len(list2) \in Nat, Len(list) <= Len(list2),
           \A j \in 1..Len(list) : /\ list2[j].base = list[j].base
                                   /\ list2[j].capacity = list[j].capacity,
           NEW objects, NEW objects2, NEW k \in Nat \ {0},
           \A l \in 1..k : objects2[l] = objects[l],
           PlacedBySearch(list, objects, k)
    PROVE  PlacedBySearch(list2, objects2, k)
<1> DEFINE o == objects[k]
<1>1. objects2[k] = o
  OBVIOUS
<1>2. /\ o.in \in 1..Len(list) /\ SearchFrom(objects, k - 1) <= o.in
      /\ \A u \in Nat : InUse(list, objects, k - 1, o.in, u) =>
            Reserves(o.at, UsedTo(list, o.in, u), o.size, o.align)
      /\ \A j \in 1..(o.in - 1), u \in Nat :
            SearchFrom(objects, k - 1) <= j /\ InUse(list, objects, k - 1, j, u)
              => ~Fits(UsedTo(list, j, u), o.size, o.align)
  BY DEF PlacedBySearch
<1> HIDE DEF o
<1>3. SearchFrom(objects2, k - 1) = SearchFrom(objects, k - 1)
  BY DEF SearchFrom
<1>4. ASSUME NEW j \in 1..Len(list), NEW u \in Nat
      PROVE  /\ UsedTo(list2, j, u) = UsedTo(list, j, u)
             /\ InUse(list2, objects2, k - 1, j, u) => InUse(list, objects, k - 1, j, u)
  <2>1. k - 1 \in Nat /\ \A l \in 1..(k - 1) : objects2[l] = objects[l]
    OBVIOUS
  <2> QED
    BY <2>1, InUseSame DEF UsedTo
<1>5. 1..(o.in - 1) \subseteq 1..Len(list)
  BY <1>2
<1>6. /\ o.in \in 1..Len(list2) /\ SearchFrom(objects2, k - 1) <= o.in
  BY <1>2, <1>3
<1>7. ASSUME NEW u \in Nat, InUse(list2, objects2, k - 1, o.in, u)
      PROVE  Reserves(o.at, UsedTo(list2, o.in, u), o.size, o.align)
  BY <1>2, <1>4, <1>7
<1>8. ASSUME NEW j \in 1..(o.in - 1), NEW u \in Nat,
             SearchFrom(objects2, k - 1) <= j, InUse(list2, objects2, k - 1, j, u)
      PROVE  ~Fits(UsedTo(list2, j, u), o.size, o.align)
  BY <1>2, <1>3, <1>4, <1>5, <1>8
<1> QED
  BY <1>1, <1>6, <1>7, <1>8 DEF PlacedBySearch

\* Two placements of the same request after the same objects are the same: the
\* search is deterministic.
LEMMA SearchDetermined ==
    ASSUME NEW list \in Seq(Block), NEW a \in Seq(Object), NEW b \in Seq(Object),
           NEW k \in Nat \ {0}, k <= Len(a), k <= Len(b),
           \A l \in 1..(k - 1) : a[l] = b[l],
           a[k].size = b[k].size, a[k].align = b[k].align,
           PlacedBySearch(list, a, k), PlacedBySearch(list, b, k),
           \A j \in 1..Len(list) : \E u \in Nat : InUse(list, a, k - 1, j, u)
    PROVE  a[k] = b[k]
<1> DEFINE o == a[k]
           r == b[k]
<1>1. o \in Object /\ r \in Object /\ Header \in Nat
  <2>1. k \in 1..Len(a) /\ k \in 1..Len(b)
    BY LenProperties
  <2> QED
    BY <2>1, ElementOfSeq, Layout
<1>2. PICK f \in [1..Len(list) -> Nat] : \A j \in 1..Len(list) :
         InUse(list, a, k - 1, j, f[j]) /\ InUse(list, b, k - 1, j, f[j])
  <2> DEFINE g == [j \in 1..Len(list) |-> CHOOSE u \in Nat : InUse(list, a, k - 1, j, u)]
  <2>1. \A j \in 1..Len(list) : g[j] \in Nat /\ InUse(list, a, k - 1, j, g[j])
    OBVIOUS
  <2>2. \A j \in 1..Len(list) : InUse(list, b, k - 1, j, g[j])
    BY <2>1, InUseSame
  <2>3. g \in [1..Len(list) -> Nat]
    BY <2>1
  <2> QED
    BY <2>1, <2>2, <2>3
<1>3. SearchFrom(a, k - 1) = SearchFrom(b, k - 1)
  BY DEF SearchFrom
<1> DEFINE from == SearchFrom(a, k - 1)
<1>4. /\ o.in \in 1..Len(list) /\ from <= o.in
      /\ Reserves(o.at, UsedTo(list, o.in, f[o.in]), o.size, o.align)
      /\ \A j \in 1..(o.in - 1) : from <= j => ~Fits(UsedTo(list, j, f[j]), o.size, o.align)
  <2>1. o.in \in 1..Len(list) /\ 1..(o.in - 1) \subseteq 1..Len(list)
    BY LenProperties DEF PlacedBySearch
  <2> QED
    BY <1>2, <2>1 DEF PlacedBySearch
<1>5. /\ r.in \in 1..Len(list) /\ from <= r.in
      /\ Reserves(r.at, UsedTo(list, r.in, f[r.in]), o.size, o.align)
      /\ \A j \in 1..(r.in - 1) : from <= j => ~Fits(UsedTo(list, j, f[j]), o.size, o.align)
  <2>1. r.in \in 1..Len(list) /\ 1..(r.in - 1) \subseteq 1..Len(list)
    BY LenProperties DEF PlacedBySearch
  <2> QED
    BY <1>2, <1>3, <2>1 DEF PlacedBySearch
<1> HIDE DEF o, r, from
<1>6. \A j, q : Reserves(q, UsedTo(list, j, f[j]), o.size, o.align)
                  => Fits(UsedTo(list, j, f[j]), o.size, o.align)
  BY DEF Reserves, IsPlace, Fits
<1>7. o.in = r.in
  <2>1. /\ Fits(UsedTo(list, o.in, f[o.in]), o.size, o.align)
        /\ Fits(UsedTo(list, r.in, f[r.in]), o.size, o.align)
    BY <1>4, <1>5, <1>6, Zenon
  <2>2. o.in \notin 1..(r.in - 1) /\ r.in \notin 1..(o.in - 1)
    BY <1>4, <1>5, <2>1, Zenon
  <2>3. o.in \in 1..Len(list) /\ r.in \in 1..Len(list)
    BY <1>4, <1>5
  <2> QED
    BY <2>2, <2>3, SMTT(30)
<1>8. o.at = r.at
  <2> DEFINE block == UsedTo(list, o.in, f[o.in])
             s == Data(block) + block.used
  <2>1. list[o.in] \in Block /\ f[o.in] \in Nat
    BY <1>4, ElementOfSeq
  <2>2. s \in Nat
    <3>1. list[o.in].base \in Nat /\ block.base = list[o.in].base /\ block.used = f[o.in]
      BY <2>1 DEF UsedTo, Block
    <3> QED
      BY <1>1, <2>1, <3>1, SMTT(30) DEF Data
  <2>3. /\ o.at \in s..(s + o.align - 1) /\ o.at % o.align = 0
        /\ r.at \in s..(s + o.align - 1) /\ r.at % o.align = 0
    BY <1>4, <1>5, <1>7 DEF Reserves, IsPlace, Aligned
  <2> HIDE DEF s
  <2>4. o.at \in Nat /\ r.at \in Nat /\ o.align \in Nat
    BY <1>1 DEF Object
  <2>5. o.align # 0
    BY <2>2, <2>3, <2>4
  <2> QED
    BY <2>2, <2>3, <2>4, <2>5, AlignedUnique
<1>9. o.size = r.size /\ o.align = r.align
  BY DEF o, r
<1>10. /\ o = [size |-> o.size, align |-> o.align, at |-> o.at, in |-> o.in]
       /\ r = [size |-> r.size, align |-> r.align, at |-> r.at, in |-> r.in]
  BY <1>1 DEF Object
<1>11. o = r
  BY <1>10, <1>7, <1>8, <1>9, Zenon
<1> QED
  BY <1>11 DEF o, r


\* What is in use of a block that the next object is not in stays in use.
LEMMA InUseKept ==
    ASSUME NEW list, NEW objects, NEW n \in Nat, NEW i, NEW u,
           InUse(list, objects, n, i, u), objects[n + 1].in # i
    PROVE  InUse(list, objects, n + 1, i, u)
<1>1. 1..(n + 1) = (1..n) \cup {n + 1}
  OBVIOUS
<1>2. CASE u = 0 /\ \A l \in 1..n : objects[l].in # i
  BY <1>1, <1>2, Zenon DEF InUse
<1>3. ASSUME NEW l \in 1..n, objects[l].in = i, \A m \in (l + 1)..n : objects[m].in # i,
             u = (objects[l].at - Data(list[i])) + objects[l].size
      PROVE  InUse(list, objects, n + 1, i, u)
  <2>1. l \in 1..(n + 1) /\ (l + 1)..(n + 1) = ((l + 1)..n) \cup {n + 1}
    OBVIOUS
  <2>2. \A m \in (l + 1)..(n + 1) : objects[m].in # i
    BY <2>1, <1>3, Zenon
  <2> QED
    BY <2>1, <2>2, <1>3, Zenon DEF InUse
<1> QED
  BY <1>2, <1>3, Zenon DEF InUse

\* The end of the next object is how far its block is in use.
LEMMA InUseNext ==
    ASSUME NEW list, NEW objects, NEW n \in Nat, NEW i, NEW u, objects[n + 1].in = i,
           u = (objects[n + 1].at - Data(list[i])) + objects[n + 1].size
    PROVE  InUse(list, objects, n + 1, i, u)
<1>1. n + 1 \in 1..(n + 1) /\ (n + 1 + 1)..(n + 1) = {}
  OBVIOUS
<1> QED
  BY <1>1, Zenon DEF InUse

\* An object that was searched for, in a block there was or in a new one, keeps
\* the two rounds alike.
LEMMA AllocatedAgain ==
    ASSUME ArenaInv, AgainInv, ArenaInv', NEW o \in Object,
           given' = Append(given, o), earlier' = earlier, current' = o.in,
           o.in \in 1..Len(blocks'), current <= o.in,
           \/ o.in \in 1..Len(blocks) /\ Len(blocks') = Len(blocks)
           \/ o.in = Len(blocks) + 1 /\ Len(blocks') = Len(blocks) + 1,
           \A j \in 1..Len(blocks) : /\ blocks'[j].base = blocks[j].base
                                     /\ blocks'[j].capacity = blocks[j].capacity
                                     /\ j # o.in => blocks'[j].used = blocks[j].used,
           Reserves(o.at, UsedTo(blocks', o.in,
                                 IF o.in <= Len(blocks) THEN blocks[o.in].used ELSE 0),
                    o.size, o.align),
           \A j \in 1..Len(blocks) : j >= current /\ j < o.in => ~Fits(blocks[j], o.size, o.align),
           blocks'[o.in].used = (o.at - Data(blocks'[o.in])) + o.size
    PROVE  AgainInv'
<1> DEFINE N == Len(given)
           n == Len(blocks)
           m == Len(blocks')
           new == given'
           list == blocks'
           used == [j \in 1..m |-> IF j <= n THEN blocks[j].used ELSE 0]
<1>1. /\ given \in Seq(Object) /\ blocks \in Seq(Block) /\ earlier \in Seq(Object)
      /\ new \in Seq(Object) /\ list \in Seq(Block)
      /\ N \in Nat /\ n \in Nat /\ m \in Nat /\ Len(earlier) \in Nat /\ current \in Int
  <2>1. /\ given \in Seq(Object) /\ blocks \in Seq(Block) /\ earlier \in Seq(Object)
        /\ new \in Seq(Object) /\ list \in Seq(Block) /\ current \in 0..n
    BY Zenon DEF ArenaInv, TypeOK, Block
  <2> QED
    BY <2>1, LenProperties
<1>2. n <= m /\ 1..n \subseteq 1..m /\ \A j \in 1..m : j \in 1..n \/ (j = n + 1 /\ ~(j <= n) /\ o.in = n + 1)
  BY <1>1, SMTT(30)
<1>3. /\ Len(new) = N + 1 /\ new[N + 1] = o
      /\ \A k \in 1..N : new[k] = given[k]
  BY <1>1, AppendProperties
<1>4. \A j \in 1..n : blocks[j] \in Block
  BY <1>1, ElementOfSeq
<1>5. /\ \A k \in 1..N : PlacedBySearch(blocks, given, k)
      /\ \A k \in 1..Len(earlier) : PlacedBySearch(blocks, earlier, k)
      /\ \A i \in 1..n : InUse(blocks, given, N, i, blocks[i].used)
      /\ IF given = <<>> THEN current = Rewound ELSE current = given[N].in
      /\ SameAgain
  BY DEF AgainInv
<1>17. \A j \in 1..n : /\ list[j].base = blocks[j].base
                       /\ list[j].capacity = blocks[j].capacity
                       /\ j # o.in => list[j].used = blocks[j].used
  OBVIOUS
<1>18. list[o.in].used = (o.at - Data(list[o.in])) + o.size
  OBVIOUS
<1>19. /\ SameAgain <=>
           \A k \in 1..N :
             k <= Len(earlier)
               /\ (\A l \in 1..k : given[l].size = earlier[l].size /\ given[l].align = earlier[l].align)
             => given[k] = earlier[k]
       /\ SameAgain' <=>
           \A k \in 1..Len(new) :
             k <= Len(earlier)
               /\ (\A l \in 1..k : new[l].size = earlier[l].size /\ new[l].align = earlier[l].align)
             => new[k] = earlier[k]
  BY DEF SameAgain
<1> HIDE DEF N, n, m, new, list, used
<1>6. /\ Len(blocks) = n /\ Len(list) = m /\ Len(given) = N
      /\ list = blocks' /\ new = given' /\ Len(blocks') = m
  BY DEF n, m, N, list, new
<1>7. \A k \in 1..N : PlacedBySearch(list, new, k)
  <2> SUFFICES ASSUME NEW k \in 1..N PROVE PlacedBySearch(list, new, k)
    OBVIOUS
  <2>1. k \in Nat \ {0} /\ \A l \in 1..k : l \in 1..N
    BY <1>1
  <2>2. \A l \in 1..k : new[l] = given[l]
    BY <2>1, <1>3
  <2>3. PlacedBySearch(blocks, given, k)
    BY <1>5
  <2> QED
    BY <2>1, <2>2, <2>3, <1>1, <1>2, <1>6, <1>17, PlacedSame, ZenonT(60)
<1>8. \A k \in 1..Len(earlier) : PlacedBySearch(list, earlier, k)
  <2> SUFFICES ASSUME NEW k \in 1..Len(earlier) PROVE PlacedBySearch(list, earlier, k)
    OBVIOUS
  <2>1. k \in Nat \ {0}
    BY <1>1
  <2>2. PlacedBySearch(blocks, earlier, k)
    BY <1>5
  <2> QED
    BY <2>1, <2>2, <1>1, <1>2, <1>6, <1>17, PlacedSame
<1>9. \A j \in 1..m : used[j] \in Nat /\ InUse(list, new, N, j, used[j])
  <2> SUFFICES ASSUME NEW j \in 1..m PROVE used[j] \in Nat /\ InUse(list, new, N, j, used[j])
    OBVIOUS
  <2>1. CASE j \in 1..n
    <3>0. blocks[j] \in Block
      BY <2>1, <1>4
    <3>1. used[j] = blocks[j].used /\ blocks[j].used \in Nat
      <4>1. j \in 1..m /\ j <= n
        BY <2>1, <1>1, <1>2
      <4> QED
        BY <4>1, <3>0 DEF used, Block
    <3>2. blocks[j].base = list[j].base /\ \A l \in 1..N : given[l] = new[l]
      BY <2>1, <1>3, <1>17
    <3>3. InUse(blocks, given, N, j, blocks[j].used)
      BY <2>1, <1>5
    <3>4. InUse(list, new, N, j, blocks[j].used)
      BY <3>2, <3>3, <1>1, InUseSame, SMTT(30)
    <3> QED
      BY <3>1, <3>4
  <2>2. CASE j = n + 1 /\ ~(j <= n)
    <3>1. used[j] = 0
      BY <2>2 DEF used
    <3>2. \A l \in 1..N : given[l].in \in 1..n
      BY <1>6 DEF ArenaInv, ObjectsPlaced
    <3>3. j \notin 1..n
      BY <2>2, <1>1
    <3>4. \A l \in 1..N : new[l].in # j
      BY <3>2, <3>3, <1>3
    <3> QED
      BY <3>1, <3>4 DEF InUse
  <2> QED
    BY <2>1, <2>2, <1>2
<1>10. \A j \in 1..n : UsedTo(list, j, used[j]) = blocks[j]
  <2> SUFFICES ASSUME NEW j \in 1..n PROVE UsedTo(list, j, used[j]) = blocks[j]
    OBVIOUS
  <2>1. used[j] = blocks[j].used
    BY <1>1, <1>2 DEF used
  <2>2. list[j].base = blocks[j].base /\ list[j].capacity = blocks[j].capacity
    BY <1>17
  <2>3. blocks[j] = [base |-> blocks[j].base, capacity |-> blocks[j].capacity,
                     used |-> blocks[j].used]
    BY <1>4 DEF Block
  <2> QED
    BY <2>1, <2>2, <2>3, Zenon DEF UsedTo
<1>11. SearchFrom(new, N) <= o.in /\ \A j \in 1..n : SearchFrom(new, N) <= j => j >= current
  <2>1. CASE N = 0
    <3>1. SearchFrom(new, N) = 1
      BY <2>1 DEF SearchFrom
    <3>2. current <= 1
      BY <2>1, <1>1, <1>5, <1>6, EmptySeq DEF Rewound
    <3> QED
      BY <3>1, <3>2, <1>1
  <2>2. CASE N # 0
    <3>1. N \in 1..N
      BY <2>2, <1>1
    <3>2. given # <<>>
      BY <2>2, <1>1, <1>6, EmptySeq
    <3>3. SearchFrom(new, N) = current
      BY <2>2, <3>1, <3>2, <1>3, <1>5 DEF SearchFrom
    <3> QED
      BY <3>3, <1>1
  <2> QED
    BY <2>1, <2>2
<1>12. PlacedBySearch(list, new, N + 1)
  <2>1. (N + 1) - 1 = N /\ o.in \in 1..m /\ o.in \in 1..Len(list)
    BY <1>1, <1>6
  <2>2. ASSUME NEW u \in Nat, InUse(list, new, N, o.in, u)
        PROVE  Reserves(o.at, UsedTo(list, o.in, u), o.size, o.align)
    <3>1. u = used[o.in]
      BY <2>1, <2>2, <1>1, <1>9, InUseUnique
    <3>2. used[o.in] = IF o.in <= n THEN blocks[o.in].used ELSE 0
      BY <2>1 DEF used
    <3> QED
      BY <3>1, <3>2, <1>6
  <2>3. ASSUME NEW j \in 1..(o.in - 1), NEW u \in Nat,
               SearchFrom(new, N) <= j, InUse(list, new, N, j, u)
        PROVE  ~Fits(UsedTo(list, j, u), o.size, o.align)
    <3>1. j \in 1..n /\ j \in 1..m /\ j < o.in
      BY <2>1, <1>1, <1>6
    <3>2. u = used[j]
      BY <3>1, <2>3, <1>1, <1>9, InUseUnique
    <3>3. j >= current
      BY <3>1, <2>3, <1>11
    <3>4. ~Fits(blocks[j], o.size, o.align)
      BY <3>1, <3>3, <1>6
    <3>5. UsedTo(list, j, u) = blocks[j]
      BY <3>1, <3>2, <1>10
    <3> QED
      BY <3>4, <3>5, Zenon
  <2> QED
    BY <2>1, <2>2, <2>3, <1>3, <1>11, Zenon DEF PlacedBySearch
<1>13. \A j \in 1..m : InUse(list, new, N + 1, j, list[j].used)
  <2> SUFFICES ASSUME NEW j \in 1..m PROVE InUse(list, new, N + 1, j, list[j].used)
    OBVIOUS
  <2>1. CASE j = o.in
    BY <2>1, <1>1, <1>3, <1>18, InUseNext
  <2>2. CASE j # o.in
    <3>1. j \in 1..n
      BY <2>2, <1>2
    <3>2. used[j] = list[j].used
      BY <3>1, <2>2, <1>1, <1>2, <1>17 DEF used
    <3> QED
      BY <3>2, <2>2, <1>1, <1>3, <1>9, InUseKept
  <2> QED
    BY <2>1, <2>2
<1>14. SameAgain'
  <2> SUFFICES ASSUME NEW k \in 1..(N + 1), k <= Len(earlier),
                      \A l \in 1..k : new[l].size = earlier[l].size /\ new[l].align = earlier[l].align
               PROVE  new[k] = earlier[k]
    BY <1>3, <1>19
  <2>1. ASSUME NEW l \in 1..N, l <= k PROVE new[l] = earlier[l]
    <3>1. l <= Len(earlier) /\ 1..l \subseteq 1..k /\ 1..l \subseteq 1..N
      BY <2>1, <1>1
    <3>2. \A i \in 1..l : given[i].size = earlier[i].size /\ given[i].align = earlier[i].align
      BY <3>1, <1>3
    <3>3. given[l] = earlier[l]
      BY <3>1, <3>2, <1>5, <1>19
    <3> QED
      BY <3>3, <1>3
  <2>2. CASE k \in 1..N
    BY <2>1, <2>2, <1>1
  <2>3. CASE k = N + 1
    <3>1. k \in Nat \ {0} /\ k - 1 = N /\ k <= Len(new) /\ k \in 1..k /\ 1..N \subseteq 1..k
      BY <2>3, <1>1, <1>3
    <3>2. \A l \in 1..(k - 1) : new[l] = earlier[l]
      <4> SUFFICES ASSUME NEW l \in 1..N PROVE new[l] = earlier[l]
        BY <3>1
      <4>1. l <= k
        BY <2>3, <1>1
      <4> QED
        BY <4>1, <2>1
    <3>3. new[k].size = earlier[k].size /\ new[k].align = earlier[k].align
      BY <3>1
    <3>4. PlacedBySearch(list, new, k) /\ PlacedBySearch(list, earlier, k)
      <4>1. k \in 1..Len(earlier)
        BY <3>1, <1>1
      <4> QED
        BY <4>1, <2>3, <1>8, <1>12
    <3>5. \A j \in 1..Len(list) : \E u \in Nat : InUse(list, new, k - 1, j, u)
      BY <3>1, <1>6, <1>9
    <3> QED
      BY <3>1, <3>2, <3>3, <3>4, <3>5, <1>1, SearchDetermined, ZenonT(60)
  <2> QED
    BY <2>2, <2>3, <1>1, SMTT(30)
<1>15. \A k \in 1..(N + 1) : PlacedBySearch(list, new, k)
  <2>1. \A k \in 1..(N + 1) : k \in 1..N \/ k = N + 1
    BY <1>1
  <2> QED
    BY <2>1, <1>7, <1>12
<1>16. new # <<>> /\ new[N + 1].in = o.in
  BY <1>1, <1>3, EmptySeq
<1> QED
  BY <1>3, <1>6, <1>8, <1>13, <1>14, <1>15, <1>16 DEF AgainInv


\* An object carved out of the first block with room.
LEMMA CarveAgain ==
    ASSUME ArenaInv, AgainInv, ArenaInv', NEW size \in Nat \ {0}, NEW align \in Nat \ {0},
           NEW i, NEW q, AllocInBlock(size, align, i, q), earlier' = earlier
    PROVE  AgainInv'
<1>1. /\ given \in Seq(Object) /\ blocks \in Seq(Block) /\ Len(blocks) \in Nat
  BY DEF ArenaInv, TypeOK, Block
<1>2. /\ i \in 1..Len(blocks) /\ current <= i
      /\ \A j \in 1..Len(blocks) : j >= current /\ j < i => ~Fits(blocks[j], size, align)
  <2>1. current \in Int
    BY <1>1 DEF ArenaInv, TypeOK
  <2> QED
    BY <1>1, <2>1 DEF AllocInBlock, Found
<1>3. blocks[i] \in Block /\ Header \in Nat
  BY <1>1, <1>2, ElementOfSeq, Layout
<1>4. /\ blocks[i].base \in Nat /\ blocks[i].capacity \in Nat /\ blocks[i].used \in Nat
      /\ Data(blocks[i]) \in Nat
  BY <1>3 DEF Block, Data
<1>5. /\ q \in Nat /\ Data(blocks[i]) <= q /\ Reserves(q, blocks[i], size, align)
  BY <1>3, <1>4 DEF AllocInBlock, Reserves, IsPlace
<1> DEFINE c == Reserved(blocks[i], q, size)
           o == [size |-> size, align |-> align, at |-> q, in |-> i]
<1>6. /\ c \in Block /\ c.base = blocks[i].base /\ c.capacity = blocks[i].capacity
      /\ c.used = (q - Data(blocks[i])) + size
  <2>1. (q - Data(blocks[i])) + size \in Nat
    BY <1>4, <1>5
  <2>2. c = [blocks[i] EXCEPT !.used = (q - Data(blocks[i])) + size]
    BY DEF Reserved
  <2> HIDE DEF c
  <2> QED
    BY <1>3, <2>1, <2>2 DEF Block
<1>7. blocks' = [blocks EXCEPT ![i] = c] /\ current' = i
  BY DEF AllocInBlock
<1>8. /\ o \in Object /\ given' = Append(given, o) /\ o.in = i /\ o.at = q
      /\ o.size = size /\ o.align = align
  BY <1>1, <1>2, <1>5 DEF AllocInBlock, Hands, Object
<1> HIDE DEF c, o
<1>9. /\ Len(blocks') = Len(blocks)
      /\ \A j \in 1..Len(blocks) : blocks'[j] = IF j = i THEN c ELSE blocks[j]
  BY <1>1, <1>2, <1>6, <1>7, ExceptSeq
<1>10. \A j \in 1..Len(blocks) : /\ blocks'[j].base = blocks[j].base
                                 /\ blocks'[j].capacity = blocks[j].capacity
                                 /\ j # i => blocks'[j].used = blocks[j].used
  BY <1>6, <1>9
<1>11. blocks'[i].used = (q - Data(blocks'[i])) + size
  <2>1. blocks'[i] = c /\ Data(c) = Data(blocks[i])
    BY <1>2, <1>6, <1>9 DEF Data
  <2> QED
    BY <2>1, <1>6
<1>12. UsedTo(blocks', i, IF i <= Len(blocks) THEN blocks[i].used ELSE 0) = blocks[i]
  <2>1. i <= Len(blocks)
    BY <1>1, <1>2
  <2>2. blocks'[i].base = blocks[i].base /\ blocks'[i].capacity = blocks[i].capacity
    BY <1>2, <1>10
  <2>3. blocks[i] = [base |-> blocks[i].base, capacity |-> blocks[i].capacity,
                     used |-> blocks[i].used]
    BY <1>3 DEF Block
  <2> QED
    BY <2>1, <2>2, <2>3, Zenon DEF UsedTo
<1>13. i \in 1..Len(blocks')
  BY <1>2, <1>9
<1> QED
  BY <1>2, <1>5, <1>7, <1>8, <1>9, <1>10, <1>11, <1>12, <1>13, AllocatedAgain

\* No block with room was found: there is none from the current one on.
LEMMA NoneFits ==
    ASSUME ArenaInv, NEW size, NEW align, ~Searched(size, align)
    PROVE  \A j \in 1..Len(blocks) : j >= current => ~Fits(blocks[j], size, align)
<1> DEFINE S == {j \in 1..Len(blocks) : j >= current /\ Fits(blocks[j], size, align)}
<1> SUFFICES ASSUME S # {} PROVE FALSE
  OBVIOUS
<1>1. S \in SUBSET Nat
  OBVIOUS
<1>2. PICK i \in S : \A j \in S : i <= j
  BY <1>1, LeastOf
<1>3. \A j \in 1..Len(blocks) : j >= current /\ j < i => ~Fits(blocks[j], size, align)
  <2> SUFFICES ASSUME NEW j \in 1..Len(blocks), j >= current, j < i,
                      Fits(blocks[j], size, align)
               PROVE  FALSE
    OBVIOUS
  <2>1. j \in S
    OBVIOUS
  <2> HIDE DEF S
  <2>2. i <= j /\ i \in Nat /\ j \in Nat
    BY <2>1, <1>1, <1>2
  <2> QED
    BY <2>2
<1>4. Found(i, size, align)
  BY <1>2, <1>3, Zenon DEF Found
<1>5. i \in 1..Len(blocks)
  OBVIOUS
<1> QED
  BY <1>4, <1>5, Zenon DEF Searched

\* An object at the start of a new block, when no other has room.
LEMMA NewBlockAgain ==
    ASSUME ArenaInv, AgainInv, ArenaInv', NEW size \in Nat \ {0}, NEW align \in Nat \ {0},
           Storage(size, align) \in Nat,
           NEW base \in Nat, NEW q, AllocNewBlock(size, align, base, q), earlier' = earlier
    PROVE  AgainInv'
<1> DEFINE n == Len(blocks)
           b == [base |-> base, capacity |-> Storage(size, align), used |-> 0]
           c == Reserved(b, q, size)
           o == [size |-> size, align |-> align, at |-> q, in |-> n + 1]
<1>1. given \in Seq(Object) /\ blocks \in Seq(Block) /\ n \in Nat /\ Header \in Nat
  BY Layout DEF ArenaInv, TypeOK, Block
<1>2. b \in Block /\ b.base = base /\ b.capacity = Storage(size, align) /\ b.used = 0
  BY DEF Block
<1>3. /\ blocks' = Append(blocks, c) /\ current' = n + 1 /\ Reserves(q, b, size, align)
      /\ given' = Append(given, o) /\ ~Searched(size, align)
  BY DEF AllocNewBlock, Hands
<1> HIDE DEF b
<1>4. q \in Nat /\ Data(b) <= q /\ Data(b) \in Nat
  BY <1>1, <1>2, <1>3 DEF Reserves, IsPlace, Data
<1>5. /\ c \in Block /\ c.base = b.base /\ c.capacity = b.capacity
      /\ c.used = (q - Data(b)) + size
  BY <1>2, <1>4 DEF Reserved, Block
<1>6. /\ o \in Object /\ o.in = n + 1 /\ o.at = q /\ o.size = size /\ o.align = align
  BY <1>1, <1>4 DEF Object
<1> HIDE DEF c, o
<1>7. /\ Len(blocks') = n + 1 /\ blocks'[n + 1] = c
      /\ \A j \in 1..n : blocks'[j] = blocks[j]
  BY <1>1, <1>3, <1>5, AppendProperties
<1>8. \A j \in 1..n : j >= current => ~Fits(blocks[j], size, align)
  BY <1>3, NoneFits
<1>9. current <= n + 1 /\ n + 1 \in 1..Len(blocks') /\ ~(n + 1 <= n)
  <2>1. current \in 0..n
    BY Zenon DEF ArenaInv, TypeOK
  <2> QED
    BY <2>1, <1>1, <1>7
<1>10. UsedTo(blocks', n + 1, IF n + 1 <= n THEN blocks[n + 1].used ELSE 0) = b
  <2>1. b = [base |-> b.base, capacity |-> b.capacity, used |-> b.used]
    BY <1>2 DEF Block
  <2> QED
    BY <2>1, <1>2, <1>5, <1>7, <1>9, Zenon DEF UsedTo
<1>11. blocks'[n + 1].used = (q - Data(blocks'[n + 1])) + size
  <2>1. Data(c) = Data(b)
    BY <1>5 DEF Data
  <2> QED
    BY <2>1, <1>5, <1>7
<1>12. \A j \in 1..n : /\ blocks'[j].base = blocks[j].base
                       /\ blocks'[j].capacity = blocks[j].capacity
                       /\ j # n + 1 => blocks'[j].used = blocks[j].used
  BY <1>7
<1> QED
  BY <1>3, <1>6, <1>7, <1>8, <1>9, <1>10, <1>11, <1>12, AllocatedAgain

\* A request keeps the two rounds alike.
LEMMA AllocAgain ==
    ASSUME ArenaInv, AgainInv, ArenaInv', NEW bytes \in Sizes, NEW align \in Alignments,
           Alloc(bytes, align)
    PROVE  AgainInv'
<1>1. InRange(bytes, align) /\ earlier' = earlier
  BY DEF Alloc
<1>2. /\ AtLeastOne(bytes) \in Nat \ {0} /\ align \in Nat \ {0}
      /\ Storage(AtLeastOne(bytes), align) \in Nat
  BY <1>1, RequestNumbers DEF ArenaInv, TypeOK
<1>3. CASE \E i, q : AllocInBlock(AtLeastOne(bytes), align, i, q)
  <2>1. PICK i, q : AllocInBlock(AtLeastOne(bytes), align, i, q)
    BY <1>3
  <2> QED
    BY <2>1, <1>1, <1>2, CarveAgain
<1>4. CASE \E base \in Nat : \E q : AllocNewBlock(AtLeastOne(bytes), align, base, q)
  <2>1. PICK base \in Nat : \E q : AllocNewBlock(AtLeastOne(bytes), align, base, q)
    BY <1>4
  <2>2. PICK q : AllocNewBlock(AtLeastOne(bytes), align, base, q)
    BY <2>1
  <2> QED
    BY <2>2, <1>1, <1>2, NewBlockAgain
<1>5. Bases \subseteq Nat
  BY Layout
<1> QED
  BY <1>3, <1>4, <1>5 DEF Alloc

\* An arena without blocks has nothing to compare.
LEMMA EmptyAgain ==
    blocks = <<>> /\ given = <<>> /\ earlier = <<>> /\ current = 0 => AgainInv
<1>1. Len(<<>>) = 0 /\ 1..0 = {}
  OBVIOUS
<1> QED
  BY <1>1 DEF AgainInv, Rewound, SameAgain

\* A reset makes this round the one to compare with, and starts over.
LEMMA ResetAgain == ArenaInv /\ AgainInv /\ Reset => AgainInv'
<1> SUFFICES ASSUME ArenaInv, AgainInv, Reset PROVE AgainInv'
  OBVIOUS
<1> DEFINE n == Len(blocks)
<1>1. /\ blocks \in Seq(Block) /\ n \in Nat /\ (\A i \in 1..n : blocks[i] \in Block)
      /\ given \in Seq(Object) /\ Len(given) \in Nat
  <2>1. blocks \in Seq(Block) /\ given \in Seq(Object)
    BY DEF ArenaInv, TypeOK, Block
  <2> QED
    BY <2>1, ElementOfSeq
<1>2. /\ blocks' = [i \in 1..n |-> [blocks[i] EXCEPT !.used = 0]] /\ current' = Rewound
      /\ given' = <<>> /\ earlier' = given
  BY DEF Reset
<1>3. blocks' \in [1..n -> Block]
  BY <1>1, <1>2 DEF Block
<1>4. blocks' \in Seq(Block) /\ Len(blocks') = n
  BY <1>1, <1>3, SeqDef
<1>5. \A i \in 1..n : /\ blocks'[i].base = blocks[i].base
                      /\ blocks'[i].capacity = blocks[i].capacity
                      /\ blocks'[i].used = 0
  <2> SUFFICES ASSUME NEW i \in 1..n
               PROVE  /\ blocks'[i].base = blocks[i].base
                      /\ blocks'[i].capacity = blocks[i].capacity
                      /\ blocks'[i].used = 0
    OBVIOUS
  <2>1. blocks'[i] = [blocks[i] EXCEPT !.used = 0] /\ blocks[i] \in Block
    BY <1>1, <1>2
  <2> QED
    BY <2>1 DEF Block
<1> HIDE DEF n
<1>6. \A k \in 1..Len(given) : PlacedBySearch(blocks', given, k)
  <2> SUFFICES ASSUME NEW k \in 1..Len(given) PROVE PlacedBySearch(blocks', given, k)
    OBVIOUS
  <2>1. k \in Nat \ {0} /\ Len(blocks) = n /\ n <= n
    BY <1>1 DEF n
  <2>2. PlacedBySearch(blocks, given, k)
    BY DEF AgainInv
  <2> QED
    BY <2>1, <2>2, <1>1, <1>4, <1>5, PlacedSame
<1>7. Len(<<>>) = 0 /\ 1..0 = {}
  OBVIOUS
<1>8. \A i \in 1..n : InUse(blocks', <<>>, 0, i, blocks'[i].used)
  BY <1>5, <1>7 DEF InUse
<1>9. Rewound' = Rewound
  <2>1. blocks = <<>> <=> n = 0
    BY <1>1, EmptySeq DEF n
  <2>2. blocks' = <<>> <=> n = 0
    BY <1>4, EmptySeq
  <2> QED
    BY <2>1, <2>2 DEF Rewound
<1>10. SameAgain'
  BY <1>2, <1>7 DEF SameAgain
<1> QED
  BY <1>2, <1>4, <1>6, <1>7, <1>8, <1>9, <1>10 DEF AgainInv

\* The same requests as before a reset get the same addresses, whatever was asked
\* for in between and wherever the native blocks lie.
THEOREM SameAddressesAgain == Spec => []SameAgain
<1>1. Init => AgainInv
  BY EmptyAgain DEF Init
<1>2. ArenaInv /\ AgainInv /\ ArenaInv' /\ [Next]_vars => AgainInv'
  <2> SUFFICES ASSUME ArenaInv, AgainInv, ArenaInv', [Next]_vars PROVE AgainInv'
    OBVIOUS
  <2>1. CASE \E bytes \in Sizes, align \in Alignments : Alloc(bytes, align)
    BY <2>1, AllocAgain
  <2>2. CASE Create \/ Destroy
    <3>1. blocks' = <<>> /\ given' = <<>> /\ earlier' = <<>> /\ current' = 0
      BY <2>2 DEF Create, Destroy
    <3>2. (blocks = <<>> /\ given = <<>> /\ earlier = <<>> /\ current = 0 => AgainInv)'
      BY EmptyAgain, PTL
    <3> QED
      BY <3>1, <3>2
  <2>3. CASE Reset
    BY <2>3, ResetAgain
  <2>4. CASE UNCHANGED <<blocks, given, earlier, current>>
    BY <2>4 DEF AgainInv, Rewound, SameAgain
  <2> QED
    BY <2>1, <2>2, <2>3, <2>4 DEF Next, vars, arena, Enter, Leave
<1>3. AgainInv => SameAgain
  BY DEF AgainInv
<1> QED
  BY ArenaInvariant, <1>1, <1>2, <1>3, PTL DEF Spec

=============================================================================
