---------------------------- MODULE GeneralArena ----------------------------
(***************************************************************************)
(* The arena behind GeneralArena of stdlib/arena.gloin:                    *)
(* src/arena_runtime.cpp. Objects are carved out of native blocks, found   *)
(* by a search that starts at the block used last; a reset keeps the       *)
(* blocks and starts over; a destruction returns them to the allocator     *)
(* that was in force when the arena was created.                           *)
(*                                                                         *)
(* Addresses are numbers. A native allocator gives any range of them that  *)
(* is free, with no alignment to rely on, or nothing.                      *)
(***************************************************************************)
EXTENDS Integers, Sequences

CONSTANTS
    Allocators,     \* scopes may install them; "malloc" is there without one
    Bases,          \* addresses that native blocks may have
    Header,         \* sizeof(Block)
    Home,           \* sizeof(State)
    InitialCapacity, GrowthLimit,
    Limit,          \* PTRDIFF_MAX
    Sizes, Alignments, \* what callers ask for, sensible or not
    MaxObjects,     \* bound: objects between two resets
    MaxPasses,      \* bound: resets and creations
    MaxScopes       \* bound: depth of allocator scopes

ASSUME Layout ==
    /\ Bases \subseteq Nat /\ Sizes \subseteq Nat /\ Alignments \subseteq Nat
    /\ Header \in Nat \ {0} /\ Home \in Nat \ {0}
    /\ Header <= Limit /\ Home <= Limit
    /\ InitialCapacity \in Nat \ {0} /\ GrowthLimit \in Nat
    /\ InitialCapacity <= GrowthLimit
    /\ Limit \in Nat /\ GrowthLimit < Limit
    /\ MaxObjects \in Nat /\ MaxPasses \in Nat /\ MaxScopes \in Nat

VARIABLES
    scopes,         \* AllocatorScopes of the thread, innermost last
    alive,          \* is there an arena?
    source, home,   \* its allocator, and the address of its State
    blocks,         \* the list: base, capacity, used
    current,        \* the block used last, 0 for none
    nextCapacity,
    \* what the outside sees
    taken,          \* native memory that is out: from, base, size
    given,          \* objects since the last reset: size, align, at, in
    earlier,        \* the objects before that reset
    passes

arena == <<alive, source, home, blocks, current, nextCapacity>>
vars == <<scopes, arena, taken, given, earlier, passes>>

Native == [from : Allocators \cup {"malloc"}, base : Nat, size : Nat]
Object == [size : Nat, align : Nat, at : Nat, in : Nat]

TypeOK ==
    /\ scopes \in Seq(Allocators)
    /\ alive \in BOOLEAN /\ source \in Allocators \cup {"malloc"} /\ home \in Nat
    /\ blocks \in Seq([base : Nat, capacity : Nat, used : Nat])
    /\ current \in 0..Len(blocks)
    /\ \A i \in 1..Len(blocks) : blocks[i].used <= blocks[i].capacity
    /\ nextCapacity \in InitialCapacity..GrowthLimit
    /\ taken \subseteq Native
    /\ given \in Seq(Object) /\ earlier \in Seq(Object)
    /\ passes \in 0..MaxPasses

Init ==
    /\ scopes = <<>>
    /\ alive = FALSE /\ source = "malloc" /\ home = 0
    /\ blocks = <<>> /\ current = 0 /\ nextCapacity = InitialCapacity
    /\ taken = {} /\ given = <<>> /\ earlier = <<>> /\ passes = 0

-----------------------------------------------------------------------------
(* Allocators.                                                             *)

Installed == IF scopes = <<>> THEN "malloc" ELSE scopes[Len(scopes)]

Enter(a) ==
    /\ Len(scopes) < MaxScopes /\ scopes' = Append(scopes, a)
    /\ UNCHANGED <<arena, taken, given, earlier, passes>>

Leave ==
    /\ scopes # <<>> /\ scopes' = SubSeq(scopes, 1, Len(scopes) - 1)
    /\ UNCHANGED <<arena, taken, given, earlier, passes>>

Overlap(p, n, q, k) == p < q + k /\ q < p + n

\* Native memory of this size at this address, free so far.
Obtain(from, base, size) ==
    /\ \A t \in taken : ~Overlap(base, size, t.base, t.size)
    /\ taken' = taken \cup {[from |-> from, base |-> base, size |-> size]}

NativeBlock(from, b) ==
    [from |-> from, base |-> b.base, size |-> Header + b.capacity]

NativeHome(from) == [from |-> from, base |-> home, size |-> Home]

-----------------------------------------------------------------------------
(* The arena.                                                              *)

Create ==
    /\ ~alive /\ passes < MaxPasses /\ passes' = passes + 1
    /\ \E base \in Bases :
         /\ Obtain(Installed, base, Home) /\ home' = base
    /\ alive' = TRUE /\ source' = Installed
    /\ blocks' = <<>> /\ current' = 0 /\ nextCapacity' = InitialCapacity
    /\ given' = <<>> /\ earlier' = <<>>
    /\ UNCHANGED scopes

Data(b) == b.base + Header

Aligned(q, b, align) == q % align = 0

\* std::align: the first aligned address that is not in use.
IsPlace(q, b, align) ==
    /\ q \in (Data(b) + b.used)..(Data(b) + b.used + align - 1)
    /\ Aligned(q, b, align)

Ends(q, b, size) == q + size <= Data(b) + b.capacity

\* reserve has found room at q.
Reserves(q, b, size, align) == IsPlace(q, b, align) /\ Ends(q, b, size)

Fits(b, size, align) ==
    \E q \in (Data(b) + b.used)..(Data(b) + b.used + align - 1) : Reserves(q, b, size, align)

Reserved(b, q, size) == [b EXCEPT !.used = (q - Data(b)) + size]

\* size_t: differences are taken modulo 2^64.
Minus(a, b) == IF a >= b THEN a - b ELSE a - b + 2 * (Limit + 1)

AtLeastOne(n) == IF n = 0 THEN 1 ELSE n
Larger(a, b) == IF a > b THEN a ELSE b
Smaller(a, b) == IF a < b THEN a ELSE b

\* An alignment is a power of two.
IsPower(a) == \E k \in 0..a : 2^k = a

\* The checks before anything changes.
InRange(bytes, align) ==
    /\ IsPower(align) /\ align <= Limit /\ bytes <= Limit
    /\ AtLeastOne(bytes) <= Minus(Limit, align - 1)
    /\ AtLeastOne(bytes) + (align - 1) <= Minus(Limit, Header)

\* The first block with room, of those from the current one on.
Found(i, size, align) ==
    /\ i \in 1..Len(blocks) /\ i >= current
    /\ Fits(blocks[i], size, align)
    /\ \A j \in 1..Len(blocks) : j >= current /\ j < i => ~Fits(blocks[j], size, align)

Searched(size, align) == \E i \in 1..Len(blocks) : Found(i, size, align)

Hands(size, align, at, in) ==
    given' = Append(given, [size |-> size, align |-> align, at |-> at, in |-> in])

AllocInBlock(size, align, i, q) ==
    /\ Found(i, size, align) /\ Reserves(q, blocks[i], size, align)
    /\ blocks' = [blocks EXCEPT ![i] = Reserved(@, q, size)]
    /\ current' = i
    /\ Hands(size, align, q, i)
    /\ UNCHANGED <<taken, nextCapacity>>

Storage(size, align) == Larger(nextCapacity, size) + align - 1

\* Mutant: the block is checked without its padding.
Allowed_Unpadded(size, align) == Larger(nextCapacity, size) <= Minus(Limit, Header)

\* The same for the block, which may be larger than the object.
Allowed(size, align) ==
    Larger(nextCapacity, size) <= Minus(Minus(Limit, Header), align - 1)

Grown == Smaller(nextCapacity * 2, GrowthLimit)

AllocNewBlock(size, align, base, q) ==
    LET block == [base |-> base, capacity |-> Storage(size, align), used |-> 0] IN
    /\ ~Searched(size, align)
    /\ Allowed(size, align)
    /\ Obtain(source, base, Header + block.capacity)
    /\ Reserves(q, block, size, align)
    /\ blocks' = Append(blocks, Reserved(block, q, size))
    /\ current' = Len(blocks) + 1
    /\ nextCapacity' = Grown
    /\ Hands(size, align, q, Len(blocks) + 1)

\* A null pointer changes nothing: it is no step.
Alloc(bytes, align) ==
    /\ alive /\ Len(given) < MaxObjects
    /\ InRange(bytes, align)
    /\ \/ \E i \in 1..Len(blocks) :
            \E q \in (Data(blocks[i]) + blocks[i].used)..(Data(blocks[i]) + blocks[i].used + align - 1) :
              AllocInBlock(AtLeastOne(bytes), align, i, q)
       \/ \E base \in Bases : \E q \in (base + Header)..(base + Header + align - 1) :
              AllocNewBlock(AtLeastOne(bytes), align, base, q)
    /\ UNCHANGED <<scopes, alive, source, home, earlier, passes>>

\* Mutant: the search goes on where it was.
Rewound_Not == current

Rewound == IF blocks = <<>> THEN 0 ELSE 1

Reset ==
    /\ alive /\ passes < MaxPasses /\ passes' = passes + 1
    /\ blocks' = [i \in 1..Len(blocks) |-> [blocks[i] EXCEPT !.used = 0]]
    /\ current' = Rewound
    /\ given' = <<>> /\ earlier' = given
    /\ UNCHANGED <<scopes, alive, source, home, nextCapacity, taken>>

\* Mutant: memory goes to the allocator of the moment.
Receiver_Installed == Installed

Receiver == source

Destroy ==
    /\ alive /\ alive' = FALSE
    /\ taken' = taken \ ({NativeBlock(Receiver, blocks[i]) : i \in 1..Len(blocks)}
                           \cup {NativeHome(Receiver)})
    /\ blocks' = <<>> /\ current' = 0 /\ given' = <<>> /\ earlier' = <<>>
    /\ UNCHANGED <<scopes, source, home, nextCapacity, passes>>

Next ==
    \/ \E a \in Allocators : Enter(a)
    \/ Leave \/ Create \/ Reset \/ Destroy
    \/ \E bytes \in Sizes, align \in Alignments : Alloc(bytes, align)

Spec == Init /\ [][Next]_vars

-----------------------------------------------------------------------------
(* Properties.                                                             *)

\* No two objects given since the last reset share a byte, also when the search
\* goes back to blocks that were passed over, or padding moves an object.
NoOverlap ==
    \A k, l \in 1..Len(given) :
        k # l => ~Overlap(given[k].at, given[k].size, given[l].at, given[l].size)

\* Every object lies in memory the arena holds, where its type may lie, at an
\* address that is fit for it whatever the native allocator's alignment.
InHeldMemory ==
    \A k \in 1..Len(given) :
        /\ given[k].at % given[k].align = 0
        /\ \E t \in taken :
             /\ t.base + Header <= given[k].at
             /\ given[k].at + given[k].size <= t.base + t.size

\* All native memory goes back, each piece to the allocator it came from, and
\* no arena means no memory, whatever scopes came and went meanwhile.
NothingLeft == alive \/ taken = {}

\* No native request exceeds what a pointer difference can express, for any
\* size and alignment that a caller makes up.
NativeInRange == \A t \in taken : t.size <= Limit

\* Every object is a range of its own in memory that was rightly asked for.
ObjectsSound == NoOverlap /\ InHeldMemory /\ NativeInRange

\* The same requests as before the reset get the same addresses, so that a loop
\* which resets its arena never needs more memory than its first round.
SameAgain ==
    \A k \in 1..Len(given) :
        k <= Len(earlier)
          /\ (\A l \in 1..k : given[l].size = earlier[l].size /\ given[l].align = earlier[l].align)
        => given[k] = earlier[k]

=============================================================================
