------------------------------- MODULE HashMap -------------------------------
(***************************************************************************)
(* HashMap of stdlib/hashmap.gloin: open addressing with linear probing.   *)
(* A table that is full is rebuilt in a larger one; a removal closes the   *)
(* gap it leaves by moving later entries back. Both loops are taken step   *)
(* by step. One thread uses a map, through any number of aliases.          *)
(*                                                                         *)
(* The hash of a key is whatever the initial state says it is.             *)
(***************************************************************************)
EXTENDS Integers, FiniteSets

CONSTANTS
    Keys, Values,
    Hashes,     \* what hashes may be
    Smallest,   \* buckets of the first table (8 in the code)
    Largest     \* bound: buckets beyond which a capacity overflows

ASSUME Tables ==
    /\ Hashes \subseteq Nat
    /\ Smallest \in Nat /\ Smallest >= 4 /\ Smallest % 4 = 0
    /\ Largest \in Nat /\ Smallest <= Largest

VARIABLES
    hash,
    slots, buckets, length,  \* State; a slot without an entry has flag 0
    at,         \* what goes on: "idle", "copy", "put" or "close"
    pending,    \* the entry to be inserted, or being removed
    fresh, size, index,      \* locals of rehash
    hole, next, \* locals of remove
    answer

table == <<slots, buckets, length>>
rehash == <<fresh, size, index>>
vars == <<hash, table, at, pending, rehash, hole, next, answer>>

Empty == [flag |-> 0]
NoEntry == [entry |-> FALSE]
Entry(k, v) == [flag |-> 1, key |-> k, value |-> v]
Slot == {Empty} \cup {Entry(k, v) : k \in Keys, v \in Values}
Wanted(k, v, why) == [entry |-> TRUE, key |-> k, value |-> v, why |-> why]

TypeOK ==
    /\ hash \in [Keys -> Hashes]
    /\ buckets \in 0..Largest /\ slots \in [0..(buckets - 1) -> Slot]
    /\ length \in 0..buckets
    /\ at \in {"idle", "copy", "put", "close"}
    /\ size \in 0..Largest /\ fresh \in [0..(size - 1) -> Slot]
    /\ index \in 0..buckets
    /\ at = "close" => hole \in DOMAIN slots /\ next \in DOMAIN slots

NoTable == [i \in 0..(0 - 1) |-> Empty]

Init ==
    /\ hash \in [Keys -> Hashes]
    /\ slots = NoTable /\ buckets = 0 /\ length = 0
    /\ at = "idle" /\ pending = NoEntry
    /\ fresh = NoTable /\ size = 0 /\ index = 0
    /\ hole = 0 /\ next = 0 /\ answer = <<"none">>

-----------------------------------------------------------------------------
(* Tables.                                                                 *)

\* __hashmap_mask: the number of buckets is a power of two.
Home(k, n) == hash[k] % n

Occupied(t, i) == t[i] # Empty

\* The d-th bucket that a probe from the key's home looks at.
Along(k, d, n) == (Home(k, n) + d) % n

Successor(i, n) == IF i + 1 = n THEN 0 ELSE i + 1

Cap(n) == n - n \div 4

\* The first bucket of a probe that is empty or has the key, -1 for none.
Stops(t, k, n) == {d \in 0..(n - 1) : t[Along(k, d, n)] = Empty \/ t[Along(k, d, n)].key = k}

Probe(t, k, n) ==
    IF Stops(t, k, n) = {} THEN -1
    ELSE Along(k, CHOOSE d \in Stops(t, k, n) : \A e \in Stops(t, k, n) : d <= e, n)

\* find: an entry's bucket, or the bucket for a new entry as -index - 1.
Find(k) ==
    LET i == Probe(slots, k, buckets)
    IN  IF i = -1 THEN -1 ELSE IF Occupied(slots, i) THEN i ELSE -i - 1

-----------------------------------------------------------------------------
(* Insertion and growth.                                                   *)

Return(a) == at' = "idle" /\ answer' = a /\ pending' = NoEntry

\* reserve doubles from the smallest table until the capacity is enough.
Sizes(capacity) == {n \in Smallest..Largest : /\ \E e \in 0..Largest : n = Smallest * 2^e
                                              /\ capacity <= Cap(n)}

Enough(capacity) == CHOOSE n \in Sizes(capacity) : \A m \in Sizes(capacity) : n <= m

\* rehash has its memory and cleared the flags.
StartRehash(capacity) ==
    /\ Sizes(capacity) # {}
    /\ size' = Enough(capacity) /\ fresh' = [i \in 0..(size' - 1) |-> Empty]
    /\ index' = 0 /\ at' = "copy" /\ UNCHANGED answer

\* The capacity overflows, or one of the two allocations fails.
Fail == Return(<<"error">>) /\ UNCHANGED rehash

Put(k, v, i) ==
    /\ slots' = [slots EXCEPT ![i] = Entry(k, v)]
    /\ length' = length + 1
    /\ Return(<<"inserted", TRUE>>)

Insert(k, v) ==
    /\ at = "idle"
    /\ \/ /\ Find(k) >= 0
          /\ slots' = [slots EXCEPT ![Find(k)].value = v]
          /\ Return(<<"inserted", FALSE>>)
          /\ UNCHANGED <<length, rehash>>
       \/ /\ Find(k) < 0 /\ length # Cap(buckets)
          /\ Put(k, v, -Find(k) - 1)
          /\ UNCHANGED rehash
       \/ /\ Find(k) < 0 /\ length = Cap(buckets)
          /\ \/ StartRehash(length + 1) /\ pending' = Wanted(k, v, "insert")
             \/ Fail
          /\ UNCHANGED <<slots, length>>
    /\ UNCHANGED <<hash, buckets, hole, next>>

Reserve(capacity) ==
    /\ at = "idle" /\ capacity > Cap(buckets)
    /\ (StartRehash(capacity) /\ UNCHANGED pending) \/ Fail
    /\ UNCHANGED <<hash, table, hole, next>>

\* Mutant: the entry stays where it was.
Target_Same(k) == index

Target(k) == Probe(fresh, k, size)

Copy ==
    /\ at = "copy" /\ index < buckets
    /\ fresh' = IF Occupied(slots, index)
                THEN [fresh EXCEPT ![Target(slots[index].key)] = slots[index]]
                ELSE fresh
    /\ index' = index + 1
    /\ UNCHANGED <<hash, table, at, pending, size, hole, next, answer>>

\* The new table takes the place of the old one.
Switch ==
    /\ at = "copy" /\ index = buckets
    /\ slots' = fresh /\ buckets' = size
    /\ fresh' = NoTable /\ size' = 0 /\ index' = 0
    /\ IF pending = NoEntry THEN Return(<<"reserved">>)
       ELSE at' = "put" /\ UNCHANGED <<answer, pending>>
    /\ UNCHANGED <<hash, length, hole, next>>

\* The bucket is looked for again in the new table.
PutAfterGrowth ==
    /\ at = "put"
    /\ Put(pending.key, pending.value, -Find(pending.key) - 1)
    /\ UNCHANGED <<hash, buckets, rehash, hole, next>>

-----------------------------------------------------------------------------
(* Removal.                                                                *)

Remove(k) ==
    /\ at = "idle"
    /\ IF Find(k) < 0
       THEN Return(<<"removed", FALSE>>) /\ UNCHANGED <<hole, next>>
       ELSE /\ hole' = Find(k) /\ next' = Successor(Find(k), buckets)
            /\ at' = "close" /\ pending' = Wanted(k, slots[Find(k)].value, "remove")
            /\ UNCHANGED answer
    /\ UNCHANGED <<hash, table, rehash>>

\* Mutant: the wraparound is forgotten.
Crosses_Linear(home) == hole < next /\ home <= hole

\* Does the probe from home to next pass the hole?
Crosses(home) ==
    \/ hole < next /\ (home <= hole \/ home > next)
    \/ hole > next /\ home <= hole /\ home > next

Close ==
    /\ at = "close" /\ Occupied(slots, next)
    /\ IF Crosses(Home(slots[next].key, buckets))
       THEN slots' = [slots EXCEPT ![hole] = slots[next]] /\ hole' = next
       ELSE UNCHANGED <<slots, hole>>
    /\ next' = Successor(next, buckets)
    /\ UNCHANGED <<hash, buckets, length, at, pending, rehash, answer>>

Closed ==
    /\ at = "close" /\ ~Occupied(slots, next)
    /\ slots' = [slots EXCEPT ![hole] = Empty]
    /\ length' = length - 1
    /\ Return(<<"removed", TRUE>>)
    /\ UNCHANGED <<hash, buckets, rehash, hole, next>>

-----------------------------------------------------------------------------

Get(k) ==
    /\ at = "idle"
    /\ answer' = IF Find(k) < 0 THEN <<"absent">> ELSE <<"value", slots[Find(k)].value>>
    /\ UNCHANGED <<hash, table, at, pending, rehash, hole, next>>

Clear ==
    /\ at = "idle"
    /\ slots' = [i \in DOMAIN slots |-> Empty] /\ length' = 0
    /\ answer' = <<"cleared">>
    /\ UNCHANGED <<hash, buckets, at, pending, rehash, hole, next>>

Loop == Copy \/ Switch \/ PutAfterGrowth \/ Close \/ Closed

Next ==
    \/ Loop \/ Clear
    \/ \E k \in Keys : Remove(k) \/ Get(k) \/ \E v \in Values : Insert(k, v)
    \/ \E capacity \in 1..Largest : Reserve(capacity)

Spec == Init /\ [][Next]_vars

-----------------------------------------------------------------------------
(* Properties.                                                             *)

Full(t) == {i \in DOMAIN t : t[i] # Empty}

\* Between calls every entry is where a probe for its key finds it, none is kept
\* twice, and the count of entries, which decides about growth, is right.
Reachable ==
    at = "idle" =>
        /\ \A i \in Full(slots) : Find(slots[i].key) = i
        /\ length = Cardinality(Full(slots))

\* There is always an empty bucket for a probe or a gap to end at.
RoomLeft == buckets > 0 => length <= Cap(buckets) /\ Full(slots) # DOMAIN slots

\* The table between calls, whatever the sequence of calls and failed growths.
TableInv == TypeOK /\ Reachable /\ RoomLeft

\* The map while a call is under way: the entry in the hole is on its way out
\* or has been moved, and the removed one counts until the call returns.
Live == {slots[i] : i \in Full(slots) \ (IF at = "close" THEN {hole} ELSE {})}
          \cup (IF at = "close" THEN {Entry(pending.key, pending.value)} ELSE {})

Map == INSTANCE FiniteMap WITH
    contents <- [k \in {e.key : e \in Live} |-> (CHOOSE e \in Live : e.key = k).value],
    answer <- answer

\* Every call does and returns what it does to a finite map, also a failed one:
\* no sequence of insertions, removals and growths loses or revives an entry.
IsFiniteMap == Map!Spec

=============================================================================
