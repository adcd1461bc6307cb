---------------------------- MODULE HashMapProofs ----------------------------
(***************************************************************************)
(* Proofs about HashMap, for any keys, values and hashes, and any sizes of *)
(* tables.                                                                 *)
(*                                                                         *)
(* MapInv is the inductive invariant. A table is sound when no bucket on   *)
(* the way from an entry's home to the entry is empty (Chained) and no key *)
(* is there twice (Unique). While a gap is closed, the entry in the hole   *)
(* does not count, and the entries that could have been reached only       *)
(* through the hole are ahead of the search (GapInv). While a table is     *)
(* rebuilt, the new one is sound for the entries copied so far (CopyInv).  *)
(* Distances along a probe (Dist) take the place of remainders.            *)
(***************************************************************************)
EXTENDS HashMap, FiniteSetTheorems, TLAPS

-----------------------------------------------------------------------------
(* The inductive invariant.                                                *)

\* How far a probe that starts at bucket h goes before it looks at bucket i.
Dist(h, i, n) == IF h <= i THEN i - h ELSE i - h + n

\* How far the probe for the key in bucket i goes before it looks at bucket j.
From(t, n, i, j) == Dist(Home(t[i].key, n), j, n)

\* No two of these buckets have the same key.
Unique(t, S) == \A i, j \in S : t[i].key = t[j].key => i = j

\* A probe for the key of one of these buckets meets no empty bucket before it.
Chained(t, n, S) ==
    \A i \in S, j \in DOMAIN t : From(t, n, i, j) < From(t, n, i, i) => t[j] # Empty

\* The buckets whose entries count: all but the hole.
Kept == Full(slots) \ (IF at = "close" THEN {hole} ELSE {})

\* The entries in them.
KeptEntries == {slots[i] : i \in Kept}

Absent(k, t, S) == \A i \in S : t[i].key # k

\* The entry a call was made for, while the call is under way.
PendingInv ==
    /\ at = "idle" => pending = NoEntry
    /\ at = "copy" => \/ pending = NoEntry
                      \/ \E k \in Keys, v \in Values : pending = Wanted(k, v, "insert")
    /\ at = "put" => \E k \in Keys, v \in Values : pending = Wanted(k, v, "insert")
    /\ at = "close" => \E k \in Keys, v \in Values : pending = Wanted(k, v, "remove")
    /\ pending # NoEntry => Absent(pending.key, slots, Kept)

\* The count of entries, and the room that is left or that was looked for.
CountInv ==
    /\ buckets = 0 \/ buckets >= Smallest
    /\ length = Cardinality(Full(slots)) /\ length <= Cap(buckets)
    /\ at = "copy" => /\ size >= Smallest
                      /\ length + (IF pending = NoEntry THEN 0 ELSE 1) <= Cap(size)
    /\ at = "put" => length + 1 <= Cap(buckets)

\* While a gap is closed, all buckets from the hole up to next are occupied, and
\* only entries from next on may have been reached through the hole.
GapInv ==
    at = "close" =>
        /\ hole # next /\ slots[hole] # Empty
        /\ \A j \in DOMAIN slots :
              Dist(hole, j, buckets) < Dist(hole, next, buckets) => slots[j] # Empty
        /\ \A i \in Kept : From(slots, buckets, i, hole) < From(slots, buckets, i, i)
              => Dist(hole, next, buckets) <= Dist(hole, i, buckets)

\* The entries of a table.
EntriesOf(t) == {t[i] : i \in Full(t)}

\* The entries copied so far.
Copied == {i \in Full(slots) : i < index}

\* The new table is sound, and has the entries of the buckets before index.
CopyInv ==
    at = "copy" =>
        /\ Unique(fresh, Full(fresh)) /\ Chained(fresh, size, Full(fresh))
        /\ EntriesOf(fresh) = {slots[i] : i \in Copied}
        /\ Cardinality(Full(fresh)) = Cardinality(Copied)

MapInv ==
    /\ TypeOK /\ PendingInv /\ CountInv
    /\ Unique(slots, Kept) /\ Chained(slots, buckets, Kept)
    /\ GapInv /\ CopyInv

-----------------------------------------------------------------------------
(* Numbers.                                                                *)

\* A non-empty set of numbers has a least one.
LEMMA LeastOf ==
    ASSUME NEW S \in SUBSET Nat, S # {}
    PROVE  \E x \in S : \A y \in S : x <= y
<1>1. PICK x \in S : \A y \in S : ~(<<y, x>> \in OpToRel(<, Nat))
  BY NatLessThanWellFounded, WFMin, Zenon
<1>2. \A y \in S : x <= y
  <2> SUFFICES ASSUME NEW y \in S PROVE x <= y
    OBVIOUS
  <2>1. x \in Nat /\ y \in Nat
    OBVIOUS
  <2>2. y < x => <<y, x>> \in OpToRel(<, Nat)
    BY <2>1 DEF OpToRel
  <2>3. ~(y < x)
    BY <1>1, <2>2, Zenon
  <2> QED
    BY <2>1, <2>3
<1> QED
  BY <1>2

\* What is below twice the modulus is reduced by a subtraction, or by nothing.
LEMMA Remainder ==
    ASSUME NEW n \in Nat \ {0}, NEW x \in Nat, x < n + n
    PROVE  x % n = IF x < n THEN x ELSE x - n
<1>1. PICK q \in Int : q = x \div n
  OBVIOUS
<1>2. PICK r \in Int : r = x % n
  OBVIOUS
<1>3. x = n * q + r /\ 0 <= r /\ r < n
  BY <1>1, <1>2
<1>4. ~(q >= 2)
  BY <1>3
<1>5. ~(q <= -1)
  BY <1>3
<1>6. q = 0 \/ q = 1
  BY <1>4, <1>5
<1>7. q = 0 => n * q = 0
  OBVIOUS
<1>8. q = 1 => n * q = n
  OBVIOUS
<1> QED
  BY <1>2, <1>3, <1>6, <1>7, <1>8

\* Homes are buckets.
LEMMA HomeIsBucket ==
    ASSUME NEW n \in Nat \ {0}, NEW k \in Keys, hash \in [Keys -> Hashes]
    PROVE  Home(k, n) \in 0..(n - 1)
<1>1. hash[k] \in Nat
  BY Tables
<1> QED
  BY <1>1 DEF Home

\* The d-th bucket of a probe is at distance d, and every bucket is there once.
LEMMA AlongDist ==
    ASSUME NEW n \in Nat \ {0}, NEW k, Home(k, n) \in 0..(n - 1)
    PROVE  /\ \A d \in 0..(n - 1) : Along(k, d, n) \in 0..(n - 1)
                                    /\ Dist(Home(k, n), Along(k, d, n), n) = d
           /\ \A i \in 0..(n - 1) : Dist(Home(k, n), i, n) \in 0..(n - 1)
                                    /\ Along(k, Dist(Home(k, n), i, n), n) = i
<1> DEFINE h == Home(k, n)
<1>1. \A d \in 0..(n - 1) : Along(k, d, n) = IF h + d < n THEN h + d ELSE h + d - n
  <2> SUFFICES ASSUME NEW d \in 0..(n - 1)
               PROVE  Along(k, d, n) = IF h + d < n THEN h + d ELSE h + d - n
    OBVIOUS
  <2>1. h + d \in Nat /\ h + d < n + n
    OBVIOUS
  <2>2. Along(k, d, n) = (h + d) % n
    BY DEF Along
  <2> QED
    BY <2>1, <2>2, Remainder
<1> HIDE DEF h
<1>2. h \in 0..(n - 1)
  BY DEF h
<1>3. ASSUME NEW d \in 0..(n - 1)
      PROVE  Along(k, d, n) \in 0..(n - 1) /\ Dist(h, Along(k, d, n), n) = d
  <2>1. Along(k, d, n) = IF h + d < n THEN h + d ELSE h + d - n
    BY <1>1
  <2> QED
    BY <1>2, <2>1 DEF Dist
<1>4. ASSUME NEW i \in 0..(n - 1)
      PROVE  Dist(h, i, n) \in 0..(n - 1) /\ Along(k, Dist(h, i, n), n) = i
  <2>1. Dist(h, i, n) \in 0..(n - 1)
    BY <1>2 DEF Dist
  <2>2. Along(k, Dist(h, i, n), n) = IF h + Dist(h, i, n) < n THEN h + Dist(h, i, n)
                                     ELSE h + Dist(h, i, n) - n
    BY <1>1, <2>1
  <2> QED
    BY <1>2, <2>1, <2>2 DEF Dist
<1> QED
  BY <1>3, <1>4 DEF h

\* Distances are numbers, and different for different buckets.
LEMMA Distances ==
    ASSUME NEW n \in Nat \ {0}, NEW h \in 0..(n - 1), NEW i \in 0..(n - 1)
    PROVE  /\ Dist(h, i, n) \in 0..(n - 1)
           /\ (Dist(h, i, n) = 0) <=> (i = h)
           /\ \A j \in 0..(n - 1) : Dist(h, i, n) = Dist(h, j, n) => i = j
  BY DEF Dist

\* The wraparound test of remove compares distances.
LEMMA CrossesIs ==
    ASSUME NEW n \in Nat \ {0}, NEW h \in 0..(n - 1),
           hole \in 0..(n - 1), next \in 0..(n - 1), hole # next
    PROVE  Crosses(h) <=> Dist(h, hole, n) < Dist(h, next, n)
  BY DEF Crosses, Dist

\* The bucket after next is one further from the hole, unless it is the hole.
LEMMA NextDist ==
    ASSUME NEW n \in Nat \ {0}, NEW g \in 0..(n - 1), NEW x \in 0..(n - 1)
    PROVE  /\ Successor(x, n) \in 0..(n - 1)
           /\ \/ Successor(x, n) = g /\ Dist(g, x, n) = n - 1
              \/ Dist(g, Successor(x, n), n) = Dist(g, x, n) + 1
           /\ n > 1 => Successor(x, n) # x /\ Dist(x, Successor(x, n), n) = 1
  BY DEF Successor, Dist

\* A table of this many buckets has room for this many entries, and more.
LEMMA CapBelow ==
    ASSUME NEW n \in Nat, n >= 4 PROVE Cap(n) \in Nat /\ Cap(n) < n
  BY DEF Cap

-----------------------------------------------------------------------------
(* Tables.                                                                 *)

\* An entry is not an empty bucket.
LEMMA EntryFacts ==
    ASSUME NEW k, NEW v
    PROVE  Entry(k, v).key = k /\ Entry(k, v).value = v /\ Entry(k, v) # Empty
<1>1. Entry(k, v).flag = 1 /\ Empty.flag = 0
  BY DEF Entry, Empty
<1>2. Entry(k, v).key = k /\ Entry(k, v).value = v
  BY DEF Entry
<1> QED
  BY <1>1, <1>2

\* An occupied bucket has an entry.
LEMMA FullBucket ==
    ASSUME NEW n, NEW t \in [0..(n - 1) -> Slot], NEW i \in Full(t)
    PROVE  /\ i \in 0..(n - 1) /\ t[i] # Empty /\ t[i].key \in Keys /\ t[i].value \in Values
           /\ t[i] = Entry(t[i].key, t[i].value) /\ t[i] \in Slot
<1>1. i \in 0..(n - 1) /\ t[i] # Empty /\ t[i] \in Slot
  BY DEF Full
<1>2. PICK k \in Keys, v \in Values : t[i] = Entry(k, v)
  BY <1>1 DEF Slot
<1> QED
  BY <1>1, <1>2, EntryFacts

\* The occupied buckets can be counted; a table is full when all are.
LEMMA FullCount ==
    ASSUME NEW n \in Nat, NEW t \in [0..(n - 1) -> Slot]
    PROVE  /\ DOMAIN t = 0..(n - 1) /\ Full(t) \subseteq 0..(n - 1)
           /\ IsFiniteSet(Full(t)) /\ Cardinality(Full(t)) \in Nat
           /\ Full(t) = 0..(n - 1) => Cardinality(Full(t)) = n
<1>1. DOMAIN t = 0..(n - 1) /\ Full(t) \subseteq 0..(n - 1)
  BY DEF Full
<1>2. IsFiniteSet(0..(n - 1)) /\ Cardinality(0..(n - 1)) = n
  BY FS_Interval
<1>3. IsFiniteSet(Full(t))
  BY <1>1, <1>2, FS_Subset
<1> QED
  BY <1>1, <1>2, <1>3, FS_CardinalityType

\* A probe ends at the nearest bucket that stops it.
LEMMA ProbeIs ==
    ASSUME NEW n \in Nat \ {0}, NEW t, NEW k, Home(k, n) \in 0..(n - 1),
           NEW i \in 0..(n - 1), t[i] = Empty \/ t[i].key = k,
           \A j \in 0..(n - 1) : Dist(Home(k, n), j, n) < Dist(Home(k, n), i, n)
                                   => ~(t[j] = Empty \/ t[j].key = k)
    PROVE  Probe(t, k, n) = i
<1> DEFINE h == Home(k, n)
           S == Stops(t, k, n)
           c == Dist(h, i, n)
<1>1. c \in 0..(n - 1) /\ Along(k, c, n) = i
  BY AlongDist
<1>2. c \in S
  BY <1>1, Zenon DEF Stops
<1>3. \A e \in S : e \in 0..(n - 1) /\ c <= e
  <2> SUFFICES ASSUME NEW e \in S PROVE e \in 0..(n - 1) /\ c <= e
    OBVIOUS
  <2>1. e \in 0..(n - 1) /\ (t[Along(k, e, n)] = Empty \/ t[Along(k, e, n)].key = k)
    BY Zenon DEF Stops
  <2>2. Along(k, e, n) \in 0..(n - 1) /\ Dist(h, Along(k, e, n), n) = e
    BY <2>1, AlongDist
  <2>3. ~(e < c)
    BY <2>1, <2>2, Zenon
  <2> HIDE DEF c
  <2> QED
    BY <2>1, <2>3, <1>1
<1> HIDE DEF c, S, h
<1>4. (CHOOSE d \in S : \A e \in S : d <= e) = c
  <2> DEFINE m == CHOOSE d \in S : \A e \in S : d <= e
  <2>1. m \in S /\ \A e \in S : m <= e
    BY <1>2, <1>3, Zenon
  <2> HIDE DEF m
  <2>2. m <= c /\ c <= m /\ m \in Int /\ c \in Int
    BY <2>1, <1>1, <1>2, <1>3
  <2>3. m = c
    BY <2>2
  <2> QED
    BY <2>3 DEF m
<1>5. S # {}
  BY <1>2
<1> QED
  BY <1>1, <1>4, <1>5, Zenon DEF Probe, S

\* If any bucket stops a probe, one is nearest.
LEMMA ProbeStops ==
    ASSUME NEW n \in Nat \ {0}, NEW t, NEW k, Home(k, n) \in 0..(n - 1),
           NEW j \in 0..(n - 1), t[j] = Empty \/ t[j].key = k
    PROVE  /\ Probe(t, k, n) \in 0..(n - 1)
           /\ t[Probe(t, k, n)] = Empty \/ t[Probe(t, k, n)].key = k
           /\ \A i \in 0..(n - 1) : Dist(Home(k, n), i, n) < Dist(Home(k, n), Probe(t, k, n), n)
                                   => ~(t[i] = Empty \/ t[i].key = k)
<1> DEFINE h == Home(k, n)
           S == {Dist(h, i, n) : i \in {l \in 0..(n - 1) : t[l] = Empty \/ t[l].key = k}}
<1>1. S \in SUBSET Nat /\ S # {}
  <2>1. \A l \in 0..(n - 1) : Dist(h, l, n) \in 0..(n - 1)
    BY AlongDist
  <2>2. S \subseteq 0..(n - 1)
    BY <2>1, Zenon
  <2>3. Dist(h, j, n) \in S
    BY Zenon
  <2> HIDE DEF S
  <2> QED
    BY <2>2, <2>3
<1>2. PICK c \in S : \A e \in S : c <= e
  <2> HIDE DEF S
  <2> QED
    BY <1>1, LeastOf, Zenon
<1>3. PICK i \in 0..(n - 1) : (t[i] = Empty \/ t[i].key = k) /\ c = Dist(h, i, n)
  BY <1>2, Zenon
<1>4. \A l \in 0..(n - 1) : Dist(h, l, n) < Dist(h, i, n) => ~(t[l] = Empty \/ t[l].key = k)
  <2> SUFFICES ASSUME NEW l \in 0..(n - 1), Dist(h, l, n) < Dist(h, i, n),
                      t[l] = Empty \/ t[l].key = k
               PROVE  FALSE
    OBVIOUS
  <2>1. Dist(h, l, n) \in S /\ c \in S
    BY <1>2, Zenon
  <2> HIDE DEF S
  <2>2. c <= Dist(h, l, n) /\ Dist(h, l, n) \in Nat /\ c \in Nat
    BY <2>1, <1>1, <1>2
  <2> HIDE DEF h
  <2> QED
    BY <2>2, <1>3
<1>5. Probe(t, k, n) = i
  BY <1>3, <1>4, ProbeIs
<1> QED
  BY <1>3, <1>4, <1>5, Zenon

\* In a sound table a probe finds the entry there is.
LEMMA FindsEntry ==
    ASSUME NEW n \in Nat \ {0}, NEW t \in [0..(n - 1) -> Slot], hash \in [Keys -> Hashes],
           Unique(t, Full(t)), Chained(t, n, Full(t)), NEW i \in Full(t)
    PROVE  Probe(t, t[i].key, n) = i
<1> DEFINE k == t[i].key
<1>1. i \in 0..(n - 1) /\ k \in Keys /\ t[i] # Empty
  BY FullBucket
<1>2. Home(k, n) \in 0..(n - 1)
  BY <1>1, HomeIsBucket
<1>3. \A j \in 0..(n - 1) : Dist(Home(k, n), j, n) < Dist(Home(k, n), i, n)
                              => t[j] # Empty /\ t[j].key # k
  <2> SUFFICES ASSUME NEW j \in 0..(n - 1), Dist(Home(k, n), j, n) < Dist(Home(k, n), i, n)
               PROVE  t[j] # Empty /\ t[j].key # k
    OBVIOUS
  <2>1. t[j] # Empty
    BY Zenon DEF Chained, From
  <2>2. j # i
    BY <1>1, <1>2, Distances
  <2>3. j \in Full(t)
    BY <2>1 DEF Full
  <2> QED
    BY <2>1, <2>2, <2>3, Zenon DEF Unique
<1> HIDE DEF k
<1>4. Probe(t, k, n) = i
  <2>1. t[i] = Empty \/ t[i].key = k
    BY DEF k
  <2>2. \A j \in 0..(n - 1) : Dist(Home(k, n), j, n) < Dist(Home(k, n), i, n)
                              => ~(t[j] = Empty \/ t[j].key = k)
    BY <1>3, Zenon
  <2> QED
    BY <1>1, <1>2, <2>1, <2>2, ProbeIs
<1> QED
  BY <1>4 DEF k

\* For a key that is absent, a probe finds an empty bucket, all before it occupied.
LEMMA FindsRoom ==
    ASSUME NEW n \in Nat \ {0}, NEW t \in [0..(n - 1) -> Slot], hash \in [Keys -> Hashes],
           NEW k \in Keys, Absent(k, t, Full(t)), Cardinality(Full(t)) < n
    PROVE  /\ Probe(t, k, n) \in 0..(n - 1) /\ t[Probe(t, k, n)] = Empty
           /\ \A j \in 0..(n - 1) : Dist(Home(k, n), j, n) < Dist(Home(k, n), Probe(t, k, n), n)
                                      => t[j] # Empty
<1>1. Home(k, n) \in 0..(n - 1)
  BY HomeIsBucket
<1>2. Full(t) # 0..(n - 1) /\ Full(t) \subseteq 0..(n - 1) /\ DOMAIN t = 0..(n - 1)
  BY FullCount
<1>3. PICK j \in 0..(n - 1) : t[j] = Empty
  BY <1>2, Zenon DEF Full
<1> DEFINE p == Probe(t, k, n)
<1>4. /\ p \in 0..(n - 1) /\ (t[p] = Empty \/ t[p].key = k)
      /\ \A i \in 0..(n - 1) : Dist(Home(k, n), i, n) < Dist(Home(k, n), p, n)
                                   => ~(t[i] = Empty \/ t[i].key = k)
  BY <1>1, <1>3, ProbeStops
<1> HIDE DEF p
<1>5. t[p] = Empty
  <2>1. t[p] # Empty => p \in Full(t)
    BY <1>2, <1>4, Zenon DEF Full
  <2> QED
    BY <2>1, <1>4, Zenon DEF Absent
<1> QED
  BY <1>4, <1>5, Zenon DEF p

\* The table with an entry put where the probe for its key has found room.
With(t, k, v, n) == [t EXCEPT ![Probe(t, k, n)] = Entry(k, v)]

\* It is sound if the table was, and has that one entry more.
LEMMA PutSound ==
    ASSUME NEW n \in Nat \ {0}, NEW t \in [0..(n - 1) -> Slot], hash \in [Keys -> Hashes],
           NEW k \in Keys, NEW v \in Values, Absent(k, t, Full(t)), Cardinality(Full(t)) < n,
           Unique(t, Full(t)), Chained(t, n, Full(t))
    PROVE  /\ With(t, k, v, n) \in [0..(n - 1) -> Slot]
           /\ Unique(With(t, k, v, n), Full(With(t, k, v, n)))
           /\ Chained(With(t, k, v, n), n, Full(With(t, k, v, n)))
           /\ Cardinality(Full(With(t, k, v, n))) = Cardinality(Full(t)) + 1
           /\ EntriesOf(With(t, k, v, n)) = EntriesOf(t) \cup {Entry(k, v)}
<1> DEFINE u == With(t, k, v, n)
           p == Probe(t, k, n)
           e == Entry(k, v)
<1>1. /\ p \in 0..(n - 1) /\ t[p] = Empty
      /\ \A j \in 0..(n - 1) : Dist(Home(k, n), j, n) < Dist(Home(k, n), p, n) => t[j] # Empty
  BY FindsRoom
<1>2. e.key = k /\ e # Empty /\ e \in Slot
  BY EntryFacts DEF Slot
<1>3. u = [t EXCEPT ![p] = e]
  BY DEF With
<1> HIDE DEF p, e, u
<1>4. u \in [0..(n - 1) -> Slot] /\ \A i \in 0..(n - 1) : u[i] = IF i = p THEN e ELSE t[i]
  BY <1>1, <1>2, <1>3
<1>5. Full(u) = Full(t) \cup {p} /\ p \notin Full(t) /\ Full(t) \subseteq 0..(n - 1)
  <2>1. DOMAIN u = 0..(n - 1) /\ DOMAIN t = 0..(n - 1)
    BY <1>4
  <2> QED
    BY <2>1, <1>1, <1>2, <1>4 DEF Full
<1>6. \A i \in Full(t) : i # p /\ u[i] = t[i] /\ t[i].key # k
  BY <1>4, <1>5 DEF Absent
<1>7. u[p] = e
  BY <1>1, <1>4
<1>8. Unique(u, Full(u))
  <2> SUFFICES ASSUME NEW i \in Full(u), NEW j \in Full(u), u[i].key = u[j].key
               PROVE  i = j
    BY DEF Unique
  <2>1. CASE i \in Full(t) /\ j \in Full(t)
    BY <2>1, <1>6 DEF Unique
  <2>2. CASE i = p \/ j = p
    BY <2>2, <1>2, <1>5, <1>6, <1>7
  <2> QED
    BY <2>1, <2>2, <1>5
<1>9. Chained(u, n, Full(u))
  <2> SUFFICES ASSUME NEW i \in Full(u), NEW j \in 0..(n - 1), From(u, n, i, j) < From(u, n, i, i)
               PROVE  u[j] # Empty
    BY <1>4 DEF Chained
  <2>1. SUFFICES ASSUME j # p PROVE t[j] # Empty
    BY <1>2, <1>4
  <2>2. CASE i \in Full(t)
    <3>1. From(t, n, i, j) < From(t, n, i, i)
      BY <2>2, <1>6, Zenon DEF From
    <3> QED
      BY <2>2, <3>1, Zenon DEF Chained
  <2>3. CASE i = p
    <3>1. Dist(Home(k, n), j, n) < Dist(Home(k, n), p, n)
      BY <2>3, <1>2, <1>7, Zenon DEF From
    <3> QED
      BY <3>1, <1>1, Zenon
  <2> QED
    BY <2>2, <2>3, <1>5
<1>10. Cardinality(Full(u)) = Cardinality(Full(t)) + 1
  BY <1>5, FullCount, FS_AddElement
<1>11. EntriesOf(u) = EntriesOf(t) \cup {e}
  <2>1. \A i \in Full(u) : u[i] = e \/ \E j \in Full(t) : u[i] = t[j]
    BY <1>5, <1>6, <1>7, Zenon
  <2>2. \A j \in Full(t) : j \in Full(u) /\ u[j] = t[j]
    BY <1>5, <1>6, Zenon
  <2>3. p \in Full(u) /\ u[p] = e
    BY <1>5, <1>7, Zenon
  <2>4. EntriesOf(u) \subseteq EntriesOf(t) \cup {e}
    BY <2>1, Zenon DEF EntriesOf
  <2>5. EntriesOf(t) \subseteq EntriesOf(u)
    BY <2>2, Zenon DEF EntriesOf
  <2>6. e \in EntriesOf(u)
    BY <2>3, Zenon DEF EntriesOf
  <2> QED
    BY <2>4, <2>5, <2>6, Zenon
<1> QED
  BY <1>4, <1>8, <1>9, <1>10, <1>11 DEF e, u

\* find, between calls: the bucket of the entry, or room for it.
LEMMA FindIs ==
    ASSUME TypeOK, Unique(slots, Full(slots)), Chained(slots, buckets, Full(slots)),
           Cardinality(Full(slots)) = length, length <= Cap(buckets),
           buckets = 0 \/ buckets >= Smallest, NEW k \in Keys
    PROVE  /\ \A i \in Full(slots) : slots[i].key = k => Find(k) = i
           /\ Absent(k, slots, Full(slots)) <=> Find(k) < 0
           /\ Find(k) >= 0 => Find(k) \in Full(slots) /\ slots[Find(k)].key = k
           /\ Find(k) < 0 /\ buckets # 0 => -Find(k) - 1 = Probe(slots, k, buckets)
           /\ length < buckets \/ buckets = 0
<1>1. /\ buckets \in Nat /\ slots \in [0..(buckets - 1) -> Slot] /\ hash \in [Keys -> Hashes]
      /\ length \in Nat /\ Smallest \in Nat /\ Smallest >= 4
  BY Tables DEF TypeOK
<1>2. CASE buckets = 0
  <2>1. Full(slots) = {}
    <3>1. Full(slots) \subseteq 0..(buckets - 1)
      BY <1>1, FullCount
    <3> QED
      BY <3>1, <1>2
  <2>2. Stops(slots, k, buckets) = {}
    BY <1>2 DEF Stops
  <2>3. Find(k) = -1
    BY <2>2 DEF Find, Probe
  <2> QED
    BY <2>1, <2>3, <1>2 DEF Absent
<1>3. CASE buckets # 0
  <2>0. buckets \in Nat \ {0} /\ length < buckets
    <3>1. buckets \in Nat /\ buckets >= 4
      BY <1>1, <1>3
    <3> QED
      BY <3>1, <1>1, CapBelow
  <2>1. ASSUME NEW i \in Full(slots), slots[i].key = k PROVE Find(k) = i /\ i >= 0
    <3>1. Probe(slots, k, buckets) = i
      BY <1>1, <2>0, <2>1, FindsEntry
    <3>2. i \in 0..(buckets - 1) /\ slots[i] # Empty
      BY <1>1, FullBucket
    <3>3. i # -1 /\ i >= 0
      BY <3>2
    <3> QED
      BY <3>1, <3>2, <3>3, Zenon DEF Find, Occupied
  <2>2. ASSUME Absent(k, slots, Full(slots))
        PROVE  Find(k) < 0 /\ -Find(k) - 1 = Probe(slots, k, buckets)
    <3> DEFINE p == Probe(slots, k, buckets)
    <3>1. p \in 0..(buckets - 1) /\ slots[p] = Empty
      BY <1>1, <2>0, <2>2, FindsRoom
    <3> HIDE DEF p
    <3>2. p # -1
      BY <3>1
    <3>3. Find(k) = -p - 1
      BY <3>1, <3>2, Zenon DEF Find, Occupied, p
    <3>4. Find(k) < 0 /\ -Find(k) - 1 = p
      BY <3>1, <3>3
    <3> QED
      BY <3>4 DEF p
  <2>3. Absent(k, slots, Full(slots)) \/ \E i \in Full(slots) : slots[i].key = k
    BY DEF Absent
  <2> QED
    <3>1. CASE Absent(k, slots, Full(slots))
      <4>1. Find(k) < 0 /\ -Find(k) - 1 = Probe(slots, k, buckets)
        BY <3>1, <2>2
      <4>2. Find(k) \in Int
        <5>1. Probe(slots, k, buckets) \in 0..(buckets - 1)
          BY <1>1, <2>0, <3>1, FindsRoom
        <5> QED
          BY <5>1, <1>1 DEF Find
      <4>3. ~(Find(k) >= 0)
        BY <4>1, <4>2
      <4>4. \A i \in Full(slots) : slots[i].key # k
        BY <3>1 DEF Absent
      <4> QED
        BY <3>1, <4>1, <4>3, <4>4, <2>0, Zenon
    <3>2. CASE \E i \in Full(slots) : slots[i].key = k
      <4>1. PICK i \in Full(slots) : slots[i].key = k
        BY <3>2
      <4>2. Find(k) = i /\ i \in 0..(buckets - 1)
        BY <1>1, <4>1, <2>1, FullBucket
      <4>3. ~(Find(k) < 0) /\ ~Absent(k, slots, Full(slots))
        BY <4>1, <4>2 DEF Absent
      <4> QED
        BY <2>0, <2>1, <4>1, <4>2, <4>3, Zenon
    <3> QED
      BY <2>3, <3>1, <3>2
<1> QED
  BY <1>2, <1>3

-----------------------------------------------------------------------------
(* The invariant holds initially and after every step.                     *)

\* What a call waits to insert or remove is something.
LEMMA WantedFacts ==
    ASSUME NEW k, NEW v, NEW why
    PROVE  Wanted(k, v, why) # NoEntry /\ Wanted(k, v, why).key = k /\ Wanted(k, v, why).value = v
<1>1. Wanted(k, v, why).entry = TRUE /\ NoEntry.entry = FALSE
  BY DEF Wanted, NoEntry
<1>2. Wanted(k, v, why).key = k /\ Wanted(k, v, why).value = v
  BY DEF Wanted
<1> QED
  BY <1>1, <1>2

\* The numbers and tables of a state.
LEMMA Typed ==
    ASSUME MapInv
    PROVE  /\ buckets \in Nat /\ slots \in [0..(buckets - 1) -> Slot] /\ DOMAIN slots = 0..(buckets - 1)
           /\ size \in Nat /\ fresh \in [0..(size - 1) -> Slot] /\ index \in Nat /\ index <= buckets
           /\ length \in Nat /\ hash \in [Keys -> Hashes] /\ Largest \in Nat
           /\ Smallest \in Nat /\ Smallest >= 4
           /\ length = Cardinality(Full(slots)) /\ length <= Cap(buckets)
           /\ buckets = 0 \/ (buckets \in Nat \ {0} /\ buckets >= 4)
<1>1. /\ buckets \in Nat /\ slots \in [0..(buckets - 1) -> Slot]
      /\ size \in Nat /\ fresh \in [0..(size - 1) -> Slot] /\ index \in Nat /\ index <= buckets
      /\ length \in Nat /\ hash \in [Keys -> Hashes] /\ Largest \in Nat
      /\ Smallest \in Nat /\ Smallest >= 4
  BY Tables DEF MapInv, TypeOK
<1>2. /\ length = Cardinality(Full(slots)) /\ length <= Cap(buckets)
      /\ buckets = 0 \/ buckets >= Smallest
  BY DEF MapInv, CountInv
<1> QED
  BY <1>1, <1>2

\* Between calls all entries count.
LEMMA AllKept ==
    ASSUME MapInv, at # "close"
    PROVE  /\ Kept = Full(slots)
           /\ Unique(slots, Full(slots)) /\ Chained(slots, buckets, Full(slots))
<1>1. Kept = Full(slots)
  BY DEF Kept
<1> QED
  BY <1>1, Zenon DEF MapInv

\* Between calls a sound and rightly counted table is all there is.
Settled ==
    /\ TypeOK /\ at = "idle" /\ pending = NoEntry
    /\ buckets = 0 \/ buckets >= Smallest
    /\ length = Cardinality(Full(slots)) /\ length <= Cap(buckets)
    /\ Unique(slots, Full(slots)) /\ Chained(slots, buckets, Full(slots))

\* That is the whole invariant between calls.
LEMMA BetweenCalls == Settled => MapInv
<1>1. at = "idle" => Kept = Full(slots) /\ GapInv /\ CopyInv
  BY DEF Kept, GapInv, CopyInv
<1>2. at = "idle" /\ pending = NoEntry => PendingInv
  BY DEF PendingInv
<1>3. /\ at = "idle"
      /\ buckets = 0 \/ buckets >= Smallest
      /\ length = Cardinality(Full(slots)) /\ length <= Cap(buckets)
      => CountInv
  BY DEF CountInv
<1> QED
  BY <1>1, <1>2, <1>3, Zenon DEF MapInv, Settled

\* The same table between calls is still sound.
LEMMA Untouched ==
    ASSUME MapInv, at # "close", at' = "idle", pending' = NoEntry, UNCHANGED <<hash, table>>,
           index' \in 0..buckets', size' \in 0..Largest, fresh' \in [0..(size' - 1) -> Slot]
    PROVE  MapInv'
<1>1. Unique(slots, Full(slots)) /\ Chained(slots, buckets, Full(slots))
  BY AllKept
<1>2. slots' = slots /\ buckets' = buckets /\ length' = length /\ hash' = hash
  BY DEF table
<1>3. TypeOK'
  BY <1>2 DEF MapInv, TypeOK
<1>4. Unique(slots, Full(slots))' /\ Chained(slots, buckets, Full(slots))'
  BY <1>1, <1>2 DEF Unique, Chained, From, Home, Full
<1>5. /\ buckets' = 0 \/ buckets' >= Smallest
      /\ length' = Cardinality(Full(slots)') /\ length' <= Cap(buckets')
  BY <1>2 DEF MapInv, CountInv, Full
<1>6. Settled'
  BY <1>3, <1>4, <1>5 DEF Settled
<1> QED
  BY <1>6, BetweenCalls, PTL

\* There is no table yet.
LEMMA InitMap == Init => MapInv
<1> SUFFICES ASSUME Init PROVE MapInv
  OBVIOUS
<1>1. Full(NoTable) = {}
  BY DEF Full, NoTable
<1>2. NoTable \in [0..(0 - 1) -> Slot]
  BY DEF NoTable
<1>3. TypeOK
  BY <1>2, Tables DEF Init, TypeOK
<1>4. length = Cardinality(Full(slots)) /\ length <= Cap(buckets)
  BY <1>1, FS_EmptySet DEF Init, Cap
<1>5. Unique(slots, Full(slots)) /\ Chained(slots, buckets, Full(slots))
  BY <1>1 DEF Init, Unique, Chained
<1> QED
  BY <1>3, <1>4, <1>5, BetweenCalls DEF Init, Settled

\* A new entry in the bucket that find gave.
LEMMA PutStep ==
    ASSUME MapInv, at \in {"idle", "put"}, NEW k \in Keys, NEW v \in Values,
           Absent(k, slots, Full(slots)), length + 1 <= Cap(buckets),
           Put(k, v, -Find(k) - 1), UNCHANGED <<hash, buckets, rehash>>
    PROVE  /\ MapInv'
           /\ EntriesOf(slots') = EntriesOf(slots) \cup {Entry(k, v)}
<1>1. Unique(slots, Full(slots)) /\ Chained(slots, buckets, Full(slots))
  BY AllKept
<1>2. /\ buckets \in Nat \ {0} /\ slots \in [0..(buckets - 1) -> Slot] /\ hash \in [Keys -> Hashes]
      /\ length \in Nat /\ length = Cardinality(Full(slots)) /\ length < buckets
      /\ Find(k) < 0 /\ -Find(k) - 1 = Probe(slots, k, buckets)
  <2>1. buckets # 0
    BY Typed, SMTT(30) DEF Cap
  <2>2. TypeOK /\ length = Cardinality(Full(slots)) /\ length <= Cap(buckets)
        /\ (buckets = 0 \/ buckets >= Smallest)
    BY DEF MapInv, CountInv
  <2>3. length < buckets /\ Find(k) < 0 /\ -Find(k) - 1 = Probe(slots, k, buckets)
    BY <2>1, <2>2, <1>1, FindIs
  <2> QED
    BY <2>1, <2>3, Typed
<1>3. /\ slots' = [slots EXCEPT ![Probe(slots, k, buckets)] = Entry(k, v)]
      /\ length' = length + 1 /\ at' = "idle" /\ pending' = NoEntry
  BY <1>2 DEF Put, Return
<1>4. /\ slots' \in [0..(buckets - 1) -> Slot]
      /\ Unique(slots', Full(slots')) /\ Chained(slots', buckets, Full(slots'))
      /\ Cardinality(Full(slots')) = length + 1
      /\ EntriesOf(slots') = EntriesOf(slots) \cup {Entry(k, v)}
  <2>1. slots' = With(slots, k, v, buckets) /\ Cardinality(Full(slots)) < buckets
    BY <1>2, <1>3 DEF With
  <2> QED
    BY <2>1, <1>1, <1>2, PutSound
<1>5. UNCHANGED <<hash, buckets, fresh, size, index>>
  BY DEF rehash
<1>6. length + 1 \in 0..buckets
  BY <1>2
<1>7. TypeOK'
  BY <1>3, <1>4, <1>5, <1>6 DEF MapInv, TypeOK
<1>8. Unique(slots, Full(slots))' /\ Chained(slots, buckets, Full(slots))'
  BY <1>4, <1>5 DEF Unique, Chained, From, Home, Full
<1>9. /\ buckets' = 0 \/ buckets' >= Smallest
      /\ length' = Cardinality(Full(slots)') /\ length' <= Cap(buckets')
  BY <1>3, <1>4, <1>5 DEF MapInv, CountInv, Full
<1>10. MapInv'
  <2>1. Settled'
    BY <1>3, <1>7, <1>8, <1>9 DEF Settled
  <2> QED
    BY <2>1, BetweenCalls, PTL
<1> QED
  BY <1>4, <1>10

\* A new value in the bucket of an entry.
LEMMA UpdateStep ==
    ASSUME MapInv, at = "idle", NEW k \in Keys, NEW v \in Values, Find(k) >= 0,
           slots' = [slots EXCEPT ![Find(k)].value = v], at' = "idle", pending' = NoEntry,
           UNCHANGED <<hash, length, buckets, rehash>>
    PROVE  /\ MapInv'
           /\ Find(k) \in Full(slots) /\ slots[Find(k)].key = k
           /\ Full(slots') = Full(slots)
           /\ \A i \in Full(slots) : slots'[i] = IF i = Find(k) THEN Entry(k, v) ELSE slots[i]
<1>1. Unique(slots, Full(slots)) /\ Chained(slots, buckets, Full(slots))
  BY AllKept
<1> DEFINE f == Find(k)
<1>2. f \in Full(slots) /\ slots[f].key = k
  BY <1>1, FindIs DEF MapInv, CountInv
<1> HIDE DEF f
<1>3. buckets \in Nat /\ slots \in [0..(buckets - 1) -> Slot]
  BY Typed
<1>4. f \in 0..(buckets - 1) /\ slots[f] = Entry(k, slots[f].value) /\ Entry(k, v) \in Slot
  <2>1. f \in 0..(buckets - 1) /\ slots[f] = Entry(slots[f].key, slots[f].value)
    BY <1>2, <1>3, FullBucket
  <2>2. Entry(k, v) \in Slot
    BY DEF Slot
  <2> QED
    BY <2>1, <2>2, <1>2
<1>5. [slots[f] EXCEPT !.value = v] = Entry(k, v)
  BY <1>4 DEF Entry
<1>6. slots' = [slots EXCEPT ![f] = Entry(k, v)]
  <2>1. slots' = [slots EXCEPT ![f] = [slots[f] EXCEPT !.value = v]]
    BY DEF f
  <2> QED
    BY <2>1, <1>5
<1>7. /\ slots' \in [0..(buckets - 1) -> Slot]
      /\ \A i \in 0..(buckets - 1) : slots'[i] = IF i = f THEN Entry(k, v) ELSE slots[i]
  BY <1>3, <1>4, <1>6
<1>8. Full(slots') = Full(slots)
  <2>1. \A i \in 0..(buckets - 1) : slots'[i] # Empty <=> slots[i] # Empty
    BY <1>4, <1>7, EntryFacts
  <2>2. DOMAIN slots' = 0..(buckets - 1) /\ DOMAIN slots = 0..(buckets - 1)
    BY <1>3, <1>7
  <2> QED
    BY <2>1, <2>2 DEF Full
<1>9. \A i \in Full(slots) : slots'[i].key = slots[i].key
  <2>1. \A i \in Full(slots) : i \in 0..(buckets - 1)
    BY <1>3, FullBucket
  <2> QED
    BY <2>1, <1>2, <1>7, EntryFacts
<1>10. Unique(slots', Full(slots'))
  BY <1>1, <1>8, <1>9 DEF Unique
<1>11. Chained(slots', buckets, Full(slots'))
  <2> SUFFICES ASSUME NEW i \in Full(slots), NEW j \in 0..(buckets - 1),
                      From(slots', buckets, i, j) < From(slots', buckets, i, i)
               PROVE  slots'[j] # Empty
    BY <1>7, <1>8 DEF Chained
  <2>1. From(slots, buckets, i, j) < From(slots, buckets, i, i)
    BY <1>9, Zenon DEF From
  <2>2. slots[j] # Empty
    BY <2>1, <1>1, <1>3 DEF Chained
  <2> QED
    BY <2>2, <1>7, EntryFacts
<1>12. UNCHANGED <<hash, length, buckets, fresh, size, index>>
  BY DEF rehash
<1>13. Settled'
  <2>1. TypeOK'
    BY <1>7, <1>12 DEF MapInv, TypeOK
  <2>2. Unique(slots, Full(slots))' /\ Chained(slots, buckets, Full(slots))'
    BY <1>10, <1>11, <1>12 DEF Unique, Chained, From, Home, Full
  <2>3. /\ buckets' = 0 \/ buckets' >= Smallest
        /\ length' = Cardinality(Full(slots)') /\ length' <= Cap(buckets')
    BY <1>8, <1>12 DEF MapInv, CountInv, Full
  <2> QED
    BY <2>1, <2>2, <2>3 DEF Settled
<1>14. MapInv'
  BY <1>13, BetweenCalls, PTL
<1>15. \A i \in Full(slots) : i \in 0..(buckets - 1)
  BY <1>3, FullBucket
<1> QED
  BY <1>2, <1>7, <1>8, <1>14, <1>15 DEF f

\* The size that reserve arrives at has the capacity that was asked for.
LEMMA EnoughIs ==
    ASSUME NEW capacity, Sizes(capacity) # {}
    PROVE  /\ Enough(capacity) \in Smallest..Largest /\ capacity <= Cap(Enough(capacity))
<1>1. Sizes(capacity) \in SUBSET Nat
  BY Tables DEF Sizes
<1>2. PICK n \in Sizes(capacity) : \A m \in Sizes(capacity) : n <= m
  BY <1>1, LeastOf
<1>3. Enough(capacity) \in Sizes(capacity)
  BY <1>2, Zenon DEF Enough
<1> QED
  BY <1>3, Zenon DEF Sizes

\* The rebuilding of a table starts.
LEMMA GrowStep ==
    ASSUME MapInv, at = "idle", NEW capacity \in Nat, StartRehash(capacity),
           UNCHANGED <<hash, table>>,
           \/ pending' = NoEntry /\ length <= capacity
           \/ \E k \in Keys, v \in Values : /\ pending' = Wanted(k, v, "insert")
                                            /\ Absent(k, slots, Full(slots))
                                            /\ length + 1 <= capacity
    PROVE  MapInv'
<1>1. /\ at' = "copy" /\ index' = 0 /\ size' = Enough(capacity)
      /\ fresh' = [i \in 0..(size' - 1) |-> Empty] /\ Sizes(capacity) # {}
      /\ slots' = slots /\ buckets' = buckets /\ length' = length /\ hash' = hash
  BY DEF StartRehash, table
<1>2. size' \in Smallest..Largest /\ capacity <= Cap(size')
  BY <1>1, EnoughIs
<1>3. /\ buckets \in Nat /\ length \in Nat /\ slots \in [0..(buckets - 1) -> Slot]
      /\ Smallest \in Nat /\ Smallest >= 4
  BY Typed
<1>4. size' \in Nat /\ size' >= 4 /\ size' \in 0..Largest /\ size' >= Smallest
  BY <1>2, <1>3, Tables
<1>5. fresh' \in [0..(size' - 1) -> Slot] /\ Full(fresh') = {}
  BY <1>1 DEF Slot, Full
<1>6. TypeOK'
  BY <1>1, <1>3, <1>4, <1>5 DEF MapInv, TypeOK
<1>7. Kept' = Kept /\ Kept = Full(slots) /\ Full(slots)' = Full(slots)
  BY <1>1 DEF Kept, Full
<1>8. PendingInv'
  <2>1. CASE pending' = NoEntry
    BY <2>1, <1>1 DEF PendingInv
  <2>2. CASE \E k \in Keys, v \in Values : /\ pending' = Wanted(k, v, "insert")
                                           /\ Absent(k, slots, Full(slots))
    <3>1. PICK k \in Keys, v \in Values : /\ pending' = Wanted(k, v, "insert")
                                          /\ Absent(k, slots, Full(slots))
      BY <2>2
    <3>2. pending'.key = k
      BY <3>1, WantedFacts
    <3>3. Absent(pending.key, slots, Kept)'
      BY <3>1, <3>2, <1>1, <1>7 DEF Absent
    <3> QED
      BY <3>1, <3>3, <1>1 DEF PendingInv
  <2> QED
    BY <2>1, <2>2
<1>9. length + (IF pending' = NoEntry THEN 0 ELSE 1) <= Cap(size')
  <2>1. Cap(size') \in Nat
    BY <1>4, CapBelow
  <2>2. length + (IF pending' = NoEntry THEN 0 ELSE 1) <= capacity
    BY <1>3, WantedFacts
  <2> QED
    BY <2>1, <2>2, <1>2, <1>3
<1>10. CountInv'
  <2>1. /\ buckets = 0 \/ buckets >= Smallest
        /\ length = Cardinality(Full(slots)) /\ length <= Cap(buckets)
    BY DEF MapInv, CountInv
  <2> QED
    BY <2>1, <1>1, <1>4, <1>7, <1>9 DEF CountInv
<1>11. Unique(slots, Kept)' /\ Chained(slots, buckets, Kept)'
  BY <1>1, <1>7 DEF MapInv, Unique, Chained, From, Home
<1>12. GapInv'
  BY <1>1 DEF GapInv
<1>13. CopyInv'
  <2>1. Copied' = {}
    BY <1>1, <1>3 DEF Copied, Full
  <2>2. EntriesOf(fresh)' = {} /\ {slots'[i] : i \in Copied'} = {}
    BY <2>1, <1>5 DEF EntriesOf, Full
  <2>3. Unique(fresh, Full(fresh))' /\ Chained(fresh, size, Full(fresh))'
    BY <1>5 DEF Unique, Chained, Full
  <2>4. Cardinality(Full(fresh))' = Cardinality(Copied)'
    BY <2>1, <1>5 DEF Full
  <2> QED
    BY <2>1, <2>2, <2>3, <2>4 DEF CopyInv
<1> QED
  BY <1>6, <1>8, <1>10, <1>11, <1>12, <1>13 DEF MapInv

\* One bucket is copied.
LEMMA CopyStep == MapInv /\ Copy => MapInv'
<1> SUFFICES ASSUME MapInv, Copy PROVE MapInv'
  OBVIOUS
<1>1. /\ at = "copy" /\ at' = "copy" /\ index < buckets /\ index' = index + 1
      /\ UNCHANGED <<hash, slots, buckets, length, pending, size, hole, next>>
      /\ fresh' = IF Occupied(slots, index)
                  THEN [fresh EXCEPT ![Target(slots[index].key)] = slots[index]]
                  ELSE fresh
  BY DEF Copy, table
<1>2. /\ buckets \in Nat /\ slots \in [0..(buckets - 1) -> Slot] /\ hash \in [Keys -> Hashes]
      /\ size \in Nat /\ fresh \in [0..(size - 1) -> Slot] /\ index \in 0..(buckets - 1)
      /\ length \in Nat /\ Smallest \in Nat /\ Smallest >= 4 /\ length = Cardinality(Full(slots))
  BY <1>1, Typed
<1>3. /\ size >= Smallest
      /\ length + (IF pending = NoEntry THEN 0 ELSE 1) <= Cap(size)
  BY <1>1 DEF MapInv, CountInv
<1>4. size \in Nat \ {0} /\ Cap(size) \in Nat /\ Cap(size) < size
  BY <1>2, <1>3, CapBelow
<1>5. Unique(slots, Full(slots)) /\ Chained(slots, buckets, Full(slots))
  BY <1>1, AllKept
<1>6. /\ Unique(fresh, Full(fresh)) /\ Chained(fresh, size, Full(fresh))
      /\ EntriesOf(fresh) = {slots[i] : i \in Copied}
      /\ Cardinality(Full(fresh)) = Cardinality(Copied)
  BY <1>1 DEF MapInv, CopyInv
<1>7. /\ Full(slots)' = Full(slots) /\ Kept' = Kept
      /\ Full(slots) \subseteq 0..(buckets - 1) /\ IsFiniteSet(Full(slots))
  BY <1>1, <1>2, FullCount DEF Full, Kept
<1>8. Copied \subseteq Full(slots) /\ IsFiniteSet(Copied) /\ Cardinality(Copied) <= length
      /\ Cardinality(Copied) \in Nat
  <2>1. Copied \subseteq Full(slots)
    BY DEF Copied
  <2> QED
    BY <2>1, <1>2, <1>7, FS_Subset, FS_CardinalityType
<1>9. /\ fresh' \in [0..(size - 1) -> Slot]
      /\ Unique(fresh', Full(fresh')) /\ Chained(fresh', size, Full(fresh'))
      /\ EntriesOf(fresh') = {slots[i] : i \in Copied'}
      /\ Cardinality(Full(fresh')) = Cardinality(Copied')
  <2>1. CASE Occupied(slots, index)
    <3> DEFINE k == slots[index].key
               v == slots[index].value
    <3>1. index \in Full(slots) /\ index \notin Copied
      BY <2>1, <1>2 DEF Occupied, Full, Copied
    <3>2. k \in Keys /\ v \in Values /\ slots[index] = Entry(k, v)
      BY <3>1, <1>2, FullBucket, ZenonT(60)
    <3>3. Absent(k, fresh, Full(fresh))
      <4> SUFFICES ASSUME NEW i \in Full(fresh), fresh[i].key = k PROVE FALSE
        BY DEF Absent
      <4>1. fresh[i] \in EntriesOf(fresh)
        BY DEF EntriesOf
      <4>2. PICK j \in Copied : fresh[i] = slots[j]
        BY <4>1, <1>6, Zenon
      <4>3. j \in Full(slots)
        BY <1>8
      <4>4. j = index
        BY <4>2, <4>3, <3>1, <1>5 DEF Unique
      <4> QED
        BY <4>4, <3>1
    <3> HIDE DEF k, v
    <3>4. Cardinality(Full(fresh)) < size
      <4>1. length <= Cap(size)
        BY <1>2, <1>3, <1>4
      <4> QED
        BY <4>1, <1>2, <1>4, <1>6, <1>8
    <3>5. fresh' = With(fresh, k, v, size)
      BY <1>1, <2>1, <3>2 DEF With, Target, k
    <3>6. /\ fresh' \in [0..(size - 1) -> Slot]
          /\ Unique(fresh', Full(fresh')) /\ Chained(fresh', size, Full(fresh'))
          /\ Cardinality(Full(fresh')) = Cardinality(Full(fresh)) + 1
          /\ EntriesOf(fresh') = EntriesOf(fresh) \cup {Entry(k, v)}
      BY <3>2, <3>3, <3>4, <3>5, <1>2, <1>4, <1>6, PutSound
    <3>7. Copied' = Copied \cup {index}
      <4>1. \A i \in Full(slots) : i < index + 1 <=> (i < index \/ i = index)
        BY <1>2, <1>7
      <4> QED
        BY <4>1, <3>1, <1>1, <1>7 DEF Copied
    <3>8. Cardinality(Copied') = Cardinality(Copied) + 1
      BY <3>1, <3>7, <1>8, FS_AddElement
    <3>9. {slots[i] : i \in Copied'} = {slots[i] : i \in Copied} \cup {slots[index]}
      BY <3>7
    <3> QED
      BY <3>2, <3>6, <3>8, <3>9, <1>6
  <2>2. CASE ~Occupied(slots, index)
    <3>1. fresh' = fresh
      BY <2>2, <1>1
    <3>2. index \notin Full(slots)
      BY <2>2 DEF Occupied, Full
    <3>3. Copied' = Copied
      <4>1. \A i \in Full(slots) : i < index + 1 <=> i < index
        BY <3>2, <1>2, <1>7
      <4> QED
        BY <4>1, <1>1, <1>7 DEF Copied
    <3> QED
      BY <3>1, <3>3, <1>2, <1>6
  <2> QED
    BY <2>1, <2>2
<1>10. TypeOK'
  <2>1. index' \in 0..buckets'
    BY <1>1, <1>2
  <2> QED
    BY <2>1, <1>1, <1>9 DEF MapInv, TypeOK
<1>11. PendingInv'
  BY <1>1, <1>7 DEF MapInv, PendingInv, Absent
<1>12. CountInv'
  BY <1>1, <1>7 DEF MapInv, CountInv
<1>13. Unique(slots, Kept)' /\ Chained(slots, buckets, Kept)'
  BY <1>1, <1>7 DEF MapInv, Unique, Chained, From, Home
<1>14. GapInv'
  BY <1>1 DEF GapInv
<1>15. CopyInv'
  <2>1. Unique(fresh, Full(fresh))' /\ Chained(fresh, size, Full(fresh))'
    BY <1>1, <1>9, SMTT(30) DEF Unique, Chained, From, Home, Full
  <2>2. EntriesOf(fresh)' = {slots'[i] : i \in Copied'}
    BY <1>1, <1>9 DEF EntriesOf, Full
  <2>3. Cardinality(Full(fresh))' = Cardinality(Copied)'
    BY <1>9 DEF Full
  <2> QED
    BY <2>1, <2>2, <2>3 DEF CopyInv
<1> QED
  BY <1>10, <1>11, <1>12, <1>13, <1>14, <1>15 DEF MapInv

\* The new table takes over.
LEMMA SwitchStep == MapInv /\ Switch => MapInv' /\ EntriesOf(slots') = EntriesOf(slots)
<1> SUFFICES ASSUME MapInv, Switch PROVE MapInv' /\ EntriesOf(slots') = EntriesOf(slots)
  OBVIOUS
<1>1. /\ at = "copy" /\ index = buckets /\ slots' = fresh /\ buckets' = size
      /\ fresh' = NoTable /\ size' = 0 /\ index' = 0
      /\ UNCHANGED <<hash, length, hole, next>>
      /\ IF pending = NoEntry THEN at' = "idle" /\ pending' = NoEntry
         ELSE at' = "put" /\ pending' = pending
  BY DEF Switch, Return
<1>2. /\ buckets \in Nat /\ slots \in [0..(buckets - 1) -> Slot] /\ hash \in [Keys -> Hashes]
      /\ size \in Nat /\ fresh \in [0..(size - 1) -> Slot]
      /\ length \in Nat /\ Smallest \in Nat /\ Smallest >= 4 /\ length = Cardinality(Full(slots))
  BY Typed
<1>3. /\ size >= Smallest
      /\ length + (IF pending = NoEntry THEN 0 ELSE 1) <= Cap(size)
  BY <1>1 DEF MapInv, CountInv
<1>4. size \in Nat \ {0} /\ Cap(size) \in Nat /\ Cap(size) < size
  BY <1>2, <1>3, CapBelow
<1>5. Kept = Full(slots) /\ Full(slots) \subseteq 0..(buckets - 1)
  BY <1>1, <1>2, AllKept, FullCount
<1>6. Copied = Full(slots)
  BY <1>1, <1>2, <1>5 DEF Copied
<1>7. /\ Unique(fresh, Full(fresh)) /\ Chained(fresh, size, Full(fresh))
      /\ EntriesOf(fresh) = EntriesOf(slots)
      /\ Cardinality(Full(fresh)) = length
  <2>1. EntriesOf(fresh) = {slots[i] : i \in Full(slots)}
    BY <1>1, <1>6 DEF MapInv, CopyInv
  <2> QED
    BY <2>1, <1>1, <1>2, <1>6 DEF MapInv, CopyInv, EntriesOf
<1>8. /\ Full(slots)' = Full(fresh) /\ Kept' = Full(fresh) /\ EntriesOf(slots') = EntriesOf(slots)
  BY <1>1, <1>7 DEF Full, Kept, EntriesOf
<1>9. TypeOK'
  <2>1. length \in 0..size /\ size \in 0..Largest
    BY <1>2, <1>3, <1>4 DEF MapInv, TypeOK
  <2>2. NoTable \in [0..(0 - 1) -> Slot]
    BY DEF NoTable
  <2>3. 0 \in 0..Largest /\ 0 \in 0..size
    BY <2>1, <1>2, Tables
  <2>4. at' \in {"idle", "put"}
    BY <1>1
  <2> HIDE DEF NoTable
  <2> QED
    BY <2>1, <2>2, <2>3, <2>4, <1>1, <1>2 DEF TypeOK
<1>10. PendingInv'
  <2>1. CASE pending = NoEntry
    BY <2>1, <1>1 DEF PendingInv
  <2>2. CASE pending # NoEntry
    <3>1. PICK k \in Keys, v \in Values : pending = Wanted(k, v, "insert")
      BY <2>2, <1>1 DEF MapInv, PendingInv
    <3>2. Absent(pending.key, slots, Full(slots))
      BY <2>2, <1>5 DEF MapInv, PendingInv
    <3>3. Absent(pending.key, fresh, Full(fresh))
      <4> SUFFICES ASSUME NEW i \in Full(fresh) PROVE fresh[i].key # pending.key
        BY DEF Absent
      <4>1. fresh[i] \in EntriesOf(slots)
        BY <1>7 DEF EntriesOf
      <4>2. PICK j \in Full(slots) : fresh[i] = slots[j]
        BY <4>1 DEF EntriesOf
      <4> QED
        BY <4>2, <3>2 DEF Absent
    <3>4. Absent(pending.key, slots, Kept)'
      BY <2>2, <3>3, <1>1, <1>8 DEF Absent
    <3> QED
      BY <2>2, <3>1, <3>4, <1>1 DEF PendingInv
  <2> QED
    BY <2>1, <2>2
<1>11. CountInv'
  <2>1. length <= Cap(size) /\ (pending # NoEntry => length + 1 <= Cap(size))
    BY <1>2, <1>3, <1>4
  <2>2. at' = "put" => pending # NoEntry
    BY <1>1
  <2> QED
    BY <2>1, <2>2, <1>1, <1>3, <1>7, <1>8 DEF CountInv
<1>12. Unique(slots, Kept)' /\ Chained(slots, buckets, Kept)'
  BY <1>1, <1>7, <1>8 DEF Unique, Chained, From, Home
<1>13. GapInv' /\ CopyInv'
  BY <1>1 DEF GapInv, CopyInv
<1> QED
  BY <1>8, <1>9, <1>10, <1>11, <1>12, <1>13 DEF MapInv

\* insert: an update, a new entry, or a growth before it.
LEMMA InsertStep ==
    ASSUME MapInv, NEW k \in Keys, NEW v \in Values, Insert(k, v)
    PROVE  MapInv'
<1>1. at = "idle" /\ UNCHANGED <<hash, buckets, hole, next>>
  BY DEF Insert
<1>2. Unique(slots, Full(slots)) /\ Chained(slots, buckets, Full(slots)) /\ Kept = Full(slots)
  BY <1>1, AllKept
<1>3. Absent(k, slots, Full(slots)) <=> Find(k) < 0
  BY <1>2, FindIs DEF MapInv, CountInv
<1>4. length \in Nat /\ length <= Cap(buckets) /\ Cap(buckets) \in Nat /\ buckets \in Nat
  <2>1. 0 - 0 \div 4 \in Nat
    OBVIOUS
  <2> QED
    BY <2>1, Typed, CapBelow DEF Cap
<1>5. CASE /\ Find(k) >= 0 /\ slots' = [slots EXCEPT ![Find(k)].value = v]
           /\ Return(<<"inserted", FALSE>>) /\ UNCHANGED <<length, rehash>>
  BY <1>1, <1>5, UpdateStep DEF Return
<1>6. CASE /\ Find(k) < 0 /\ length # Cap(buckets)
           /\ Put(k, v, -Find(k) - 1) /\ UNCHANGED rehash
  <2>1. length + 1 <= Cap(buckets)
    BY <1>4, <1>6
  <2> QED
    BY <2>1, <1>1, <1>3, <1>6, PutStep
<1>7. CASE /\ Find(k) < 0 /\ StartRehash(length + 1) /\ pending' = Wanted(k, v, "insert")
           /\ UNCHANGED <<slots, length>>
  <2>1. length + 1 \in Nat /\ UNCHANGED <<hash, table>>
    BY <1>1, <1>4, <1>7 DEF table
  <2> QED
    BY <2>1, <1>1, <1>3, <1>4, <1>7, GrowStep
<1>8. CASE Fail /\ UNCHANGED <<slots, length>>
  <2>1. /\ at' = "idle" /\ pending' = NoEntry /\ UNCHANGED <<hash, table, fresh, size, index>>
    BY <1>1, <1>8 DEF Fail, Return, rehash, table
  <2>2. /\ index' \in 0..buckets' /\ size' \in 0..Largest /\ fresh' \in [0..(size' - 1) -> Slot]
    BY <2>1, <1>1 DEF MapInv, TypeOK
  <2> QED
    BY <2>1, <2>2, <1>1, Untouched
<1> QED
  BY <1>5, <1>6, <1>7, <1>8 DEF Insert

\* The entry that the table grew for.
LEMMA PutAfterGrowthStep ==
    ASSUME MapInv, PutAfterGrowth
    PROVE  /\ MapInv'
           /\ \E k \in Keys, v \in Values :
                 /\ pending = Wanted(k, v, "insert") /\ Absent(k, slots, Full(slots))
                 /\ EntriesOf(slots') = EntriesOf(slots) \cup {Entry(k, v)}
<1>1. at = "put" /\ UNCHANGED <<hash, buckets, rehash>>
  BY DEF PutAfterGrowth
<1>2. PICK k \in Keys, v \in Values : pending = Wanted(k, v, "insert")
  BY <1>1 DEF MapInv, PendingInv
<1>3. pending # NoEntry /\ pending.key = k /\ pending.value = v
  BY <1>2, WantedFacts
<1>4. Kept = Full(slots)
  BY <1>1, AllKept
<1>5. Absent(k, slots, Full(slots))
  BY <1>3, <1>4 DEF MapInv, PendingInv
<1>6. length + 1 <= Cap(buckets)
  BY <1>1 DEF MapInv, CountInv
<1>7. Put(k, v, -Find(k) - 1)
  BY <1>3 DEF PutAfterGrowth
<1>8. MapInv' /\ EntriesOf(slots') = EntriesOf(slots) \cup {Entry(k, v)}
  BY <1>1, <1>5, <1>6, <1>7, PutStep
<1> QED
  BY <1>2, <1>5, <1>8

\* A removal starts with the bucket of its entry as the hole.
LEMMA RemoveStep ==
    ASSUME MapInv, NEW k \in Keys, Remove(k)
    PROVE  MapInv'
<1>1. at = "idle" /\ UNCHANGED <<hash, table, rehash>>
  BY DEF Remove
<1>2. Unique(slots, Full(slots)) /\ Chained(slots, buckets, Full(slots)) /\ Kept = Full(slots)
  BY <1>1, AllKept
<1>3. CASE Find(k) < 0
  <2>1. /\ at' = "idle" /\ pending' = NoEntry /\ UNCHANGED <<fresh, size, index>>
    BY <1>1, <1>3 DEF Remove, Return, rehash
  <2>2. /\ index' \in 0..buckets' /\ size' \in 0..Largest /\ fresh' \in [0..(size' - 1) -> Slot]
    BY <2>1, <1>1 DEF MapInv, TypeOK, table
  <2> QED
    BY <2>1, <2>2, <1>1, Untouched
<1>4. CASE ~(Find(k) < 0)
  <2> DEFINE f == Find(k)
  <2>1. /\ hole' = f /\ next' = Successor(f, buckets) /\ at' = "close"
        /\ pending' = Wanted(k, slots[f].value, "remove")
        /\ UNCHANGED <<hash, slots, buckets, length, fresh, size, index>>
    BY <1>1, <1>4 DEF Remove, table, rehash
  <2>2. f \in Full(slots) /\ slots[f].key = k
    <3>1. PICK i \in Full(slots) : slots[i].key = k
      BY <1>2, <1>4, FindIs DEF MapInv, CountInv, Absent
    <3> QED
      BY <3>1, <1>2, FindIs DEF MapInv, CountInv
  <2> HIDE DEF f
  <2>3. /\ buckets \in Nat /\ slots \in [0..(buckets - 1) -> Slot] /\ DOMAIN slots = 0..(buckets - 1)
        /\ hash \in [Keys -> Hashes]
    BY Typed
  <2>4. /\ f \in 0..(buckets - 1) /\ slots[f] # Empty /\ slots[f].value \in Values
    BY <2>2, <2>3, FullBucket
  <2>5. buckets \in Nat \ {0} /\ buckets >= 4
    BY <2>3, <2>4, Typed
  <2>6. /\ next' \in 0..(buckets - 1) /\ next' # f /\ Dist(f, next', buckets) = 1
    BY <2>1, <2>4, <2>5, NextDist
  <2>7. Kept' = Full(slots) \ {f} /\ Full(slots)' = Full(slots)
    BY <2>1 DEF Kept, Full
  <2>8. TypeOK'
    BY <2>1, <2>3, <2>4, <2>6 DEF MapInv, TypeOK
  <2>9. PendingInv'
    <3>1. pending'.key = k
      BY <2>1, WantedFacts
    <3>2. Absent(pending.key, slots, Kept)'
      BY <3>1, <2>1, <2>2, <2>7, <1>2 DEF Absent, Unique
    <3> QED
      BY <3>2, <2>1, <2>4 DEF PendingInv
  <2>10. CountInv'
    BY <2>1, <2>7 DEF MapInv, CountInv
  <2>11. Unique(slots, Kept)' /\ Chained(slots, buckets, Kept)'
    BY <2>1, <2>7, <1>2 DEF Unique, Chained, From, Home
  <2>12. GapInv'
    <3>1. ASSUME NEW j \in 0..(buckets - 1), Dist(f, j, buckets) < Dist(f, next', buckets)
          PROVE  slots[j] # Empty
      <4>1. Dist(f, j, buckets) \in 0..(buckets - 1)
        BY <2>4, <2>5, Distances
      <4>2. Dist(f, j, buckets) = 0
        BY <4>1, <3>1, <2>6
      <4>3. j = f
        BY <4>2, <2>4, <2>5, Distances
      <4> QED
        BY <4>3, <2>4
    <3>2. ASSUME NEW i \in Full(slots) \ {f}
          PROVE  Dist(f, next', buckets) <= Dist(f, i, buckets)
      <4>1. i \in 0..(buckets - 1)
        BY <2>3, FullBucket
      <4>2. Dist(f, i, buckets) \in 0..(buckets - 1) /\ Dist(f, i, buckets) # 0
        BY <4>1, <2>4, <2>5, Distances
      <4> QED
        BY <4>2, <2>6
    <3> QED
      BY <3>1, <3>2, <2>1, <2>3, <2>4, <2>6, <2>7 DEF GapInv
  <2>13. CopyInv'
    BY <2>1 DEF CopyInv
  <2> QED
    BY <2>8, <2>9, <2>10, <2>11, <2>12, <2>13 DEF MapInv
<1> QED
  BY <1>3, <1>4

\* What is known while a gap is closed.
LEMMA GapFacts ==
    ASSUME MapInv, at = "close"
    PROVE  /\ buckets \in Nat \ {0} /\ buckets >= 4 /\ slots \in [0..(buckets - 1) -> Slot]
           /\ DOMAIN slots = 0..(buckets - 1) /\ hash \in [Keys -> Hashes]
           /\ hole \in 0..(buckets - 1) /\ next \in 0..(buckets - 1) /\ hole # next
           /\ slots[hole] # Empty /\ hole \in Full(slots) /\ Kept = Full(slots) \ {hole}
           /\ Unique(slots, Kept) /\ Chained(slots, buckets, Kept)
           /\ \A j \in 0..(buckets - 1) :
                 Dist(hole, j, buckets) < Dist(hole, next, buckets) => slots[j] # Empty
           /\ \A i \in Kept : From(slots, buckets, i, hole) < From(slots, buckets, i, i)
                 => Dist(hole, next, buckets) <= Dist(hole, i, buckets)
           /\ \A i \in Kept : /\ i \in 0..(buckets - 1) /\ slots[i].key \in Keys /\ slots[i] \in Slot
                              /\ Home(slots[i].key, buckets) \in 0..(buckets - 1)
           /\ \E j \in 0..(buckets - 1) : slots[j] = Empty
<1>1. /\ slots \in [0..(buckets - 1) -> Slot] /\ DOMAIN slots = 0..(buckets - 1)
      /\ hash \in [Keys -> Hashes] /\ hole \in 0..(buckets - 1) /\ next \in 0..(buckets - 1)
      /\ buckets \in Nat
  BY Typed DEF MapInv, TypeOK
<1>2. buckets \in Nat \ {0} /\ buckets >= 4
  BY <1>1, Typed
<1>3. /\ slots[hole] # Empty /\ hole \in Full(slots) /\ hole # next
      /\ Kept = Full(slots) \ {hole}
      /\ Unique(slots, Kept) /\ Chained(slots, buckets, Kept)
      /\ \A j \in 0..(buckets - 1) :
                 Dist(hole, j, buckets) < Dist(hole, next, buckets) => slots[j] # Empty
      /\ \A i \in Kept : From(slots, buckets, i, hole) < From(slots, buckets, i, i)
                 => Dist(hole, next, buckets) <= Dist(hole, i, buckets)
  BY <1>1 DEF MapInv, GapInv, Kept, Full
<1>4. \A i \in Kept : /\ i \in 0..(buckets - 1) /\ slots[i].key \in Keys /\ slots[i] \in Slot
                      /\ Home(slots[i].key, buckets) \in 0..(buckets - 1)
  <2> SUFFICES ASSUME NEW i \in Full(slots)
               PROVE  /\ i \in 0..(buckets - 1) /\ slots[i].key \in Keys /\ slots[i] \in Slot
                      /\ Home(slots[i].key, buckets) \in 0..(buckets - 1)
    BY <1>3
  <2>1. i \in 0..(buckets - 1) /\ slots[i].key \in Keys /\ slots[i] \in Slot
    BY <1>1, FullBucket
  <2> QED
    BY <2>1, <1>1, <1>2, HomeIsBucket
<1>5. \E j \in 0..(buckets - 1) : slots[j] = Empty
  <2>1. Full(slots) # 0..(buckets - 1)
    <3>1. Cardinality(Full(slots)) < buckets
      BY <1>2, Typed, CapBelow
    <3> QED
      BY <3>1, <1>1, FullCount
  <2> QED
    BY <2>1, <1>1 DEF Full
<1> QED
  BY <1>1, <1>2, <1>3, <1>4, <1>5

\* What lies between a bucket of a probe and its end is nearer than the end.
LEMMA NearerThan ==
    ASSUME NEW n \in Nat \ {0}, NEW h \in 0..(n - 1), NEW g \in 0..(n - 1),
           NEW x \in 0..(n - 1), NEW i \in 0..(n - 1), x # i,
           Dist(h, g, n) < Dist(h, i, n), Dist(g, x, n) <= Dist(g, i, n)
    PROVE  Dist(h, x, n) < Dist(h, i, n)
  BY DEF Dist

\* The entry in the next bucket moves into the hole when its probe passes the
\* hole; the hole is where it was.
LEMMA MoveStep ==
    ASSUME MapInv, Close, Crosses(Home(slots[next].key, buckets))
    PROVE  MapInv' /\ KeptEntries' = KeptEntries
<1> DEFINE n == buckets
           g == hole
           x == next
           y == next'
<1>1. /\ at = "close" /\ at' = "close" /\ slots[x] # Empty
      /\ slots' = [slots EXCEPT ![g] = slots[x]] /\ hole' = x /\ y = Successor(x, n)
      /\ UNCHANGED <<hash, buckets, length, pending, fresh, size, index>>
  BY DEF Close, Occupied, rehash
<1>2. /\ n \in Nat \ {0} /\ n >= 4 /\ slots \in [0..(n - 1) -> Slot] /\ DOMAIN slots = 0..(n - 1)
      /\ hash \in [Keys -> Hashes] /\ g \in 0..(n - 1) /\ x \in 0..(n - 1) /\ g # x
      /\ slots[g] # Empty /\ g \in Full(slots) /\ Kept = Full(slots) \ {g}
      /\ Unique(slots, Kept) /\ Chained(slots, n, Kept)
  BY <1>1, GapFacts
<1>3. \A i \in Kept : /\ i \in 0..(n - 1) /\ slots[i].key \in Keys /\ slots[i] \in Slot
                      /\ Home(slots[i].key, n) \in 0..(n - 1)
  BY <1>1, GapFacts
<1>4. x \in Full(slots) /\ x \in Kept
  BY <1>1, <1>2 DEF Full
<1>5. y \in 0..(n - 1) /\ y # x /\ Dist(x, y, n) = 1
  <2>1. n > 1
    BY <1>2
  <2> QED
    BY <2>1, <1>1, <1>2, NextDist
<1>6. From(slots, n, x, g) < From(slots, n, x, x)
  BY <1>2, <1>3, <1>4, CrossesIs DEF From
<1> HIDE DEF n, g, x, y
<1>7. /\ slots' \in [0..(n - 1) -> Slot] /\ slots'[g] = slots[x]
      /\ \A i \in 0..(n - 1) : i # g => slots'[i] = slots[i]
  BY <1>1, <1>2, <1>3, <1>4
<1>8. \A i \in 0..(n - 1) : slots'[i] # Empty <=> slots[i] # Empty
  BY <1>1, <1>2, <1>7
<1>9. Full(slots)' = Full(slots) /\ Full(slots) \subseteq 0..(n - 1)
  BY <1>2, <1>7, <1>8 DEF Full
<1>10. Kept' = Full(slots) \ {x}
  BY <1>1, <1>9 DEF Kept
<1>11. /\ g \in Kept' /\ g \notin Kept
       /\ \A i \in Kept' : i # g => i \in Kept /\ i # x /\ slots'[i] = slots[i]
       /\ \A i \in Kept : i # x => i \in Kept' /\ slots'[i] = slots[i]
  BY <1>2, <1>7, <1>9, <1>10
<1>12. KeptEntries' = KeptEntries
  <2>1. \A i \in Kept' : \E j \in Kept : slots'[i] = slots[j]
    BY <1>4, <1>7, <1>11
  <2>2. \A j \in Kept : \E i \in Kept' : slots'[i] = slots[j]
    BY <1>4, <1>7, <1>11
  <2>3. {slots'[i] : i \in Kept'} \subseteq {slots[j] : j \in Kept}
    BY <2>1, Zenon
  <2>4. {slots[j] : j \in Kept} \subseteq {slots'[i] : i \in Kept'}
    BY <2>2, Zenon
  <2> QED
    BY <2>3, <2>4, Zenon DEF KeptEntries
<1>13. Unique(slots', Kept')
  <2> SUFFICES ASSUME NEW i \in Kept', NEW j \in Kept', slots'[i].key = slots'[j].key
               PROVE  i = j
    BY DEF Unique
  <2>1. CASE i # g /\ j # g
    BY <2>1, <1>2, <1>11 DEF Unique
  <2>2. CASE i = g /\ j # g
    BY <2>2, <1>2, <1>4, <1>7, <1>11 DEF Unique
  <2>3. CASE i # g /\ j = g
    BY <2>3, <1>2, <1>4, <1>7, <1>11 DEF Unique
  <2> QED
    BY <2>1, <2>2, <2>3
<1>14. Chained(slots', n, Kept')
  <2> SUFFICES ASSUME NEW i \in Kept', NEW j \in 0..(n - 1),
                      From(slots', n, i, j) < From(slots', n, i, i)
               PROVE  slots[j] # Empty
    BY <1>7, <1>8 DEF Chained
  <2>1. CASE i # g
    <3>1. i \in Kept /\ From(slots, n, i, j) < From(slots, n, i, i)
      BY <2>1, <1>11, Zenon DEF From
    <3> QED
      BY <3>1, <1>2 DEF Chained
  <2>2. CASE i = g
    <3>1. From(slots, n, x, j) < From(slots, n, x, g)
      BY <2>2, <1>7, Zenon DEF From
    <3>2. /\ From(slots, n, x, j) \in Nat /\ From(slots, n, x, g) \in Nat
          /\ From(slots, n, x, x) \in Nat
      <4>1. Home(slots[x].key, n) \in 0..(n - 1)
        BY <1>3, <1>4
      <4> QED
        BY <4>1, <1>2, Distances DEF From
    <3>3. From(slots, n, x, j) < From(slots, n, x, x)
      BY <3>1, <3>2, <1>6
    <3> QED
      BY <3>3, <1>2, <1>4 DEF Chained
  <2> QED
    BY <2>1, <2>2
<1>15. TypeOK'
  BY <1>1, <1>2, <1>5, <1>7 DEF MapInv, TypeOK, n, x, y
<1>16. PendingInv'
  <2>1. \E k \in Keys, v \in Values : pending = Wanted(k, v, "remove")
    BY <1>1 DEF MapInv, PendingInv
  <2>2. Absent(pending.key, slots, Kept)
    BY <2>1, WantedFacts DEF MapInv, PendingInv
  <2>3. Absent(pending.key, slots', Kept')
    BY <2>2, <1>4, <1>7, <1>11 DEF Absent
  <2>4. pending' = pending
    BY <1>1
  <2>5. Absent(pending.key, slots, Kept)'
    BY <2>3, <2>4 DEF Absent
  <2> QED
    BY <2>1, <2>4, <2>5, <1>1 DEF PendingInv
<1>17. CountInv'
  BY <1>1, <1>9 DEF MapInv, CountInv
<1>18. Unique(slots, Kept)' /\ Chained(slots, buckets, Kept)'
  BY <1>1, <1>13, <1>14 DEF Unique, Chained, From, Home, n
<1>19. GapInv'
  <2>1. ASSUME NEW j \in 0..(n - 1), Dist(x, j, n) < Dist(x, y, n) PROVE slots'[j] # Empty
    <3>1. Dist(x, j, n) \in 0..(n - 1)
      BY <1>2, Distances
    <3>2. Dist(x, j, n) = 0
      BY <3>1, <2>1, <1>5
    <3>3. j = x
      BY <3>2, <1>2, Distances
    <3> QED
      BY <3>3, <1>1, <1>2, <1>8
  <2>2. ASSUME NEW i \in Kept' PROVE Dist(x, y, n) <= Dist(x, i, n)
    <3>1. i \in 0..(n - 1) /\ i # x
      BY <1>9, <1>10
    <3>2. Dist(x, i, n) \in 0..(n - 1) /\ Dist(x, i, n) # 0
      BY <3>1, <1>2, Distances, ZenonT(60)
    <3> QED
      BY <3>2, <1>5
  <2>3. hole' = x /\ next' = y /\ x # y /\ slots'[x] # Empty /\ buckets' = n
        /\ DOMAIN slots' = 0..(n - 1)
    BY <1>1, <1>2, <1>5, <1>7, <1>8 DEF n, x, y
  <2> QED
    BY <2>1, <2>2, <2>3 DEF GapInv
<1>20. CopyInv'
  BY <1>1 DEF CopyInv
<1> QED
  BY <1>12, <1>15, <1>16, <1>17, <1>18, <1>19, <1>20 DEF MapInv

\* The entry in the next bucket stays, as its probe does not pass the hole.
LEMMA StayStep ==
    ASSUME MapInv, Close, ~Crosses(Home(slots[next].key, buckets))
    PROVE  MapInv' /\ KeptEntries' = KeptEntries
<1> DEFINE n == buckets
           g == hole
           x == next
           y == next'
<1>1. /\ at = "close" /\ at' = "close" /\ slots[x] # Empty
      /\ slots' = slots /\ hole' = g /\ y = Successor(x, n)
      /\ UNCHANGED <<hash, buckets, length, pending, fresh, size, index>>
  BY DEF Close, Occupied, rehash
<1>2. /\ n \in Nat \ {0} /\ n >= 4 /\ slots \in [0..(n - 1) -> Slot] /\ DOMAIN slots = 0..(n - 1)
      /\ hash \in [Keys -> Hashes] /\ g \in 0..(n - 1) /\ x \in 0..(n - 1) /\ g # x
      /\ slots[g] # Empty /\ Kept = Full(slots) \ {g}
      /\ \A j \in 0..(n - 1) : Dist(g, j, n) < Dist(g, x, n) => slots[j] # Empty
      /\ \A i \in Kept : From(slots, n, i, g) < From(slots, n, i, i)
            => Dist(g, x, n) <= Dist(g, i, n)
      /\ \E j \in 0..(n - 1) : slots[j] = Empty
  BY <1>1, GapFacts
<1>3. \A i \in Kept : /\ i \in 0..(n - 1) /\ Home(slots[i].key, n) \in 0..(n - 1)
  BY <1>1, GapFacts
<1>4. x \in Kept
  BY <1>1, <1>2 DEF Full
<1>5. ~(From(slots, n, x, g) < From(slots, n, x, x))
  BY <1>2, <1>3, <1>4, CrossesIs DEF From
<1>6. /\ y \in 0..(n - 1)
      /\ \/ y = g /\ Dist(g, x, n) = n - 1
         \/ Dist(g, y, n) = Dist(g, x, n) + 1
  BY <1>1, <1>2, NextDist
<1> HIDE DEF n, g, x, y
<1>7. Dist(g, x, n) \in 0..(n - 1)
  BY <1>2, Distances
<1>8. ASSUME NEW j \in 0..(n - 1), Dist(g, j, n) <= Dist(g, x, n) PROVE slots[j] # Empty
  <2>1. Dist(g, j, n) \in 0..(n - 1)
    BY <1>2, Distances
  <2>2. CASE Dist(g, j, n) < Dist(g, x, n)
    BY <2>2, <1>2
  <2>3. CASE Dist(g, j, n) = Dist(g, x, n)
    <3>1. j = x
      BY <2>3, <1>2, Distances
    <3> QED
      BY <3>1, <1>1
  <2> QED
    BY <2>1, <2>2, <2>3, <1>7, <1>8
<1>9. Dist(g, y, n) = Dist(g, x, n) + 1
  <2>1. SUFFICES ASSUME Dist(g, x, n) = n - 1 PROVE FALSE
    BY <1>6
  <2>2. PICK j \in 0..(n - 1) : slots[j] = Empty
    BY <1>2
  <2>3. Dist(g, j, n) \in 0..(n - 1)
    BY <1>2, Distances
  <2>4. Dist(g, j, n) <= Dist(g, x, n)
    BY <2>1, <2>3, <1>2
  <2> QED
    BY <2>2, <2>4, <1>8
<1>10. g # y
  <2>1. Dist(g, y, n) # 0
    BY <1>7, <1>9
  <2> QED
    BY <2>1, <1>2, <1>6, Distances, ZenonT(60)
<1>11. Full(slots)' = Full(slots) /\ Kept' = Kept /\ KeptEntries' = KeptEntries
  BY <1>1 DEF Full, Kept, KeptEntries, g
<1>12. ASSUME NEW i \in Kept, From(slots, n, i, g) < From(slots, n, i, i)
       PROVE  Dist(g, y, n) <= Dist(g, i, n)
  <2>1. i \in 0..(n - 1) /\ Dist(g, i, n) \in 0..(n - 1) /\ Dist(g, x, n) <= Dist(g, i, n)
    BY <1>2, <1>3, <1>12, Distances
  <2>2. Dist(g, x, n) # Dist(g, i, n)
    <3>1. SUFFICES ASSUME Dist(g, i, n) = Dist(g, x, n) PROVE FALSE
      OBVIOUS
    <3>2. i = x
      BY <3>1, <2>1, <1>2, Distances
    <3> QED
      BY <3>2, <1>5, <1>12
  <2> QED
    BY <2>1, <2>2, <1>7, <1>9
<1>13. TypeOK'
  BY <1>1, <1>2, <1>6 DEF MapInv, TypeOK, n, y, g
<1>14. PendingInv' /\ CountInv'
  BY <1>1, <1>11 DEF MapInv, PendingInv, CountInv, Absent
<1>15. Unique(slots, Kept)' /\ Chained(slots, buckets, Kept)'
  BY <1>1, <1>11 DEF MapInv, Unique, Chained, From, Home
<1>16. GapInv'
  <2>1. \A i, j : From(slots, buckets, i, j)' = From(slots, n, i, j)
    BY <1>1 DEF From, Home, n
  <2>2. hole' = g /\ next' = y /\ slots' = slots /\ buckets' = n
    BY <1>1 DEF n, y
  <2>3. \A j \in 0..(n - 1) : Dist(g, j, n) < Dist(g, y, n) => slots[j] # Empty
    <3> SUFFICES ASSUME NEW j \in 0..(n - 1), Dist(g, j, n) < Dist(g, y, n)
                 PROVE  slots[j] # Empty
      OBVIOUS
    <3>1. Dist(g, j, n) \in 0..(n - 1)
      BY <1>2, Distances
    <3>2. Dist(g, j, n) <= Dist(g, x, n)
      BY <3>1, <1>7, <1>9
    <3> QED
      BY <3>2, <1>8
  <2> QED
    BY <2>1, <2>2, <2>3, <1>2, <1>10, <1>11, <1>12 DEF GapInv, From
<1>17. CopyInv'
  BY <1>1 DEF CopyInv
<1> QED
  BY <1>11, <1>13, <1>14, <1>15, <1>16, <1>17 DEF MapInv

\* The gap is closed when the next bucket is empty.
LEMMA ClosedStep ==
    ASSUME MapInv, Closed
    PROVE  /\ MapInv' /\ EntriesOf(slots') = KeptEntries
           /\ \E k \in Keys, v \in Values :
                 pending = Wanted(k, v, "remove") /\ Absent(k, slots, Kept)
<1> DEFINE n == buckets
           g == hole
           x == next
<1>1. /\ at = "close" /\ slots[x] = Empty
      /\ slots' = [slots EXCEPT ![g] = Empty] /\ length' = length - 1
      /\ at' = "idle" /\ pending' = NoEntry
      /\ UNCHANGED <<hash, buckets, fresh, size, index>>
  BY DEF Closed, Occupied, Return, rehash
<1>2. /\ n \in Nat \ {0} /\ slots \in [0..(n - 1) -> Slot] /\ DOMAIN slots = 0..(n - 1)
      /\ hash \in [Keys -> Hashes] /\ g \in 0..(n - 1) /\ x \in 0..(n - 1) /\ g # x
      /\ g \in Full(slots) /\ Kept = Full(slots) \ {g}
      /\ Unique(slots, Kept) /\ Chained(slots, n, Kept)
      /\ \A i \in Kept : From(slots, n, i, g) < From(slots, n, i, i)
            => Dist(g, x, n) <= Dist(g, i, n)
      /\ \A i \in Kept : /\ i \in 0..(n - 1) /\ Home(slots[i].key, n) \in 0..(n - 1)
  BY <1>1, GapFacts
<1>3. length = Cardinality(Full(slots)) /\ length <= Cap(n) /\ length \in Nat /\ n >= 4
  BY <1>2, Typed
<1> HIDE DEF n, g, x
<1>4. /\ slots' \in [0..(n - 1) -> Slot] /\ DOMAIN slots' = 0..(n - 1)
      /\ \A i \in 0..(n - 1) : slots'[i] = IF i = g THEN Empty ELSE slots[i]
  BY <1>1, <1>2 DEF Slot
<1>5. Full(slots') = Kept /\ \A i \in Kept : slots'[i] = slots[i]
  BY <1>2, <1>4 DEF Full
<1>6. Unique(slots', Full(slots'))
  BY <1>2, <1>5 DEF Unique
<1>7. Chained(slots', n, Full(slots'))
  <2> SUFFICES ASSUME NEW i \in Kept, NEW j \in 0..(n - 1),
                      From(slots', n, i, j) < From(slots', n, i, i)
               PROVE  slots'[j] # Empty
    BY <1>4, <1>5 DEF Chained
  <2>1. From(slots, n, i, j) < From(slots, n, i, i)
    BY <1>5, Zenon DEF From
  <2>2. slots[j] # Empty
    BY <2>1, <1>2 DEF Chained
  <2>3. j # g
    <3>1. SUFFICES ASSUME j = g PROVE FALSE
      OBVIOUS
    <3>2. Dist(g, x, n) <= Dist(g, i, n)
      BY <3>1, <2>1, <1>2
    <3>3. i # x
      BY <1>1, <1>2 DEF Full
    <3>4. From(slots, n, i, x) < From(slots, n, i, i)
      BY <3>1, <3>2, <3>3, <2>1, <1>2, NearerThan DEF From
    <3> QED
      BY <3>4, <1>1, <1>2 DEF Chained
  <2> QED
    BY <2>2, <2>3, <1>4
<1>8. Cardinality(Full(slots')) = length - 1 /\ length - 1 \in Nat
  <2>1. IsFiniteSet(Full(slots)) /\ IsFiniteSet(Kept)
    BY <1>2, FullCount, FS_Subset
  <2>2. Cardinality(Full(slots) \ {g}) = Cardinality(Full(slots)) - 1
    BY <2>1, <1>2, FS_RemoveElement
  <2>3. Cardinality(Kept) \in Nat
    BY <2>1, FS_CardinalityType
  <2> QED
    BY <2>2, <2>3, <1>2, <1>3, <1>5
<1>9. Settled'
  <2>1. length' \in 0..n /\ length' <= Cap(n)
    BY <1>1, <1>2, <1>3, <1>8, CapBelow
  <2>2. TypeOK'
    BY <2>1, <1>1, <1>4 DEF MapInv, TypeOK, n
  <2>3. Unique(slots, Full(slots))' /\ Chained(slots, buckets, Full(slots))'
    BY <1>1, <1>6, <1>7 DEF Unique, Chained, From, Home, Full, n
  <2>4. buckets' = 0 \/ buckets' >= Smallest
    BY <1>1 DEF MapInv, CountInv
  <2>5. length' = Cardinality(Full(slots)') /\ length' <= Cap(buckets')
    BY <2>1, <1>1, <1>8 DEF Full, n
  <2> QED
    BY <2>2, <2>3, <2>4, <2>5, <1>1 DEF Settled
<1>10. MapInv'
  BY <1>9, BetweenCalls, PTL
<1>11. EntriesOf(slots') = KeptEntries
  BY <1>5 DEF EntriesOf, KeptEntries
<1>12. PICK k \in Keys, v \in Values : pending = Wanted(k, v, "remove")
  BY <1>1 DEF MapInv, PendingInv
<1>13. Absent(k, slots, Kept)
  BY <1>12, WantedFacts DEF MapInv, PendingInv
<1> QED
  BY <1>10, <1>11, <1>12, <1>13

\* reserve grows the table, or fails.
LEMMA ReserveStep ==
    ASSUME MapInv, NEW capacity \in 1..Largest, Reserve(capacity)
    PROVE  MapInv'
<1>1. at = "idle" /\ capacity > Cap(buckets) /\ UNCHANGED <<hash, table, hole, next>>
  BY DEF Reserve
<1>2. pending = NoEntry
  BY <1>1 DEF MapInv, PendingInv
<1>3. CASE StartRehash(capacity) /\ UNCHANGED pending
  <2>1. capacity \in Nat /\ length <= capacity
    <3>1. length \in Nat /\ length <= Cap(buckets) /\ Cap(buckets) \in Nat
      <4>1. 0 - 0 \div 4 \in Nat
        OBVIOUS
      <4> QED
        BY <4>1, Typed, CapBelow DEF Cap
    <3> QED
      BY <3>1, <1>1, Tables
  <2> QED
    BY <2>1, <1>1, <1>2, <1>3, GrowStep
<1>4. CASE Fail
  <2>1. /\ at' = "idle" /\ pending' = NoEntry /\ UNCHANGED <<fresh, size, index>>
    BY <1>4 DEF Fail, Return, rehash
  <2>2. /\ index' \in 0..buckets' /\ size' \in 0..Largest /\ fresh' \in [0..(size' - 1) -> Slot]
    BY <2>1, <1>1 DEF MapInv, TypeOK, table
  <2> QED
    BY <2>1, <2>2, <1>1, Untouched
<1> QED
  BY <1>3, <1>4 DEF Reserve

\* clear empties every bucket.
LEMMA ClearStep == MapInv /\ Clear => MapInv' /\ Full(slots') = {}
<1> SUFFICES ASSUME MapInv, Clear PROVE MapInv' /\ Full(slots') = {}
  OBVIOUS
<1>1. /\ at = "idle" /\ at' = "idle" /\ pending' = pending
      /\ slots' = [i \in DOMAIN slots |-> Empty] /\ length' = 0
      /\ UNCHANGED <<hash, buckets, fresh, size, index>>
  BY DEF Clear, rehash
<1>2. pending = NoEntry
  BY <1>1 DEF MapInv, PendingInv
<1>3. /\ buckets \in Nat /\ DOMAIN slots = 0..(buckets - 1) /\ Cap(buckets) \in Nat
  <2>1. 0 - 0 \div 4 \in Nat
    OBVIOUS
  <2> QED
    BY <2>1, Typed, CapBelow DEF Cap
<1>4. slots' \in [0..(buckets - 1) -> Slot] /\ Full(slots') = {}
  BY <1>1, <1>3 DEF Slot, Full
<1>5. Settled'
  <2>1. TypeOK'
    <3>1. /\ hash \in [Keys -> Hashes] /\ buckets \in 0..Largest /\ index \in 0..buckets
          /\ size \in 0..Largest /\ fresh \in [0..(size - 1) -> Slot]
      BY DEF MapInv, TypeOK
    <3>2. length' \in 0..buckets
      BY <1>1, <1>3
    <3> QED
      BY <3>1, <3>2, <1>1, <1>4 DEF TypeOK
  <2>2. Unique(slots, Full(slots))' /\ Chained(slots, buckets, Full(slots))'
    BY <1>4 DEF Unique, Chained, Full
  <2>3. length' = Cardinality(Full(slots)') /\ length' <= Cap(buckets')
    BY <1>1, <1>3, <1>4, FS_EmptySet DEF Full
  <2>4. buckets' = 0 \/ buckets' >= Smallest
    BY <1>1 DEF MapInv, CountInv
  <2> QED
    BY <2>1, <2>2, <2>3, <2>4, <1>1, <1>2 DEF Settled
<1> QED
  BY <1>4, <1>5, BetweenCalls, PTL

\* A call that only answers, and a stutter.
LEMMA AnswerStep ==
    MapInv /\ UNCHANGED <<hash, table, at, pending, rehash, hole, next>> => MapInv'
<1> SUFFICES ASSUME MapInv, UNCHANGED <<hash, table, at, pending, rehash, hole, next>>
             PROVE  MapInv'
  OBVIOUS
<1>1. UNCHANGED <<hash, slots, buckets, length, at, pending, fresh, size, index, hole, next>>
  BY DEF table, rehash
<1>2. TypeOK'
  BY <1>1 DEF MapInv, TypeOK
<1>3. Full(slots)' = Full(slots) /\ Full(fresh)' = Full(fresh) /\ Kept' = Kept
  BY <1>1 DEF Full, Kept
<1>4. Copied' = Copied /\ EntriesOf(fresh)' = EntriesOf(fresh)
  BY <1>1, <1>3 DEF Copied, EntriesOf
<1>5. PendingInv' /\ CountInv'
  BY <1>1, <1>3 DEF MapInv, PendingInv, CountInv, Absent
<1>6. Unique(slots, Kept)' /\ Chained(slots, buckets, Kept)'
  BY <1>1, <1>3 DEF MapInv, Unique, Chained, From, Home
<1>7. GapInv'
  BY <1>1, <1>3 DEF MapInv, GapInv, From, Home
<1>8. CopyInv'
  BY <1>1, <1>3, <1>4 DEF MapInv, CopyInv, Unique, Chained, From, Home
<1> QED
  BY <1>2, <1>5, <1>6, <1>7, <1>8 DEF MapInv

\* MapInv holds in every state.
THEOREM MapInvariant == Spec => []MapInv
<1>1. MapInv /\ [Next]_vars => MapInv'
  <2> SUFFICES ASSUME MapInv, [Next]_vars PROVE MapInv'
    OBVIOUS
  <2>1. CASE Copy
    BY <2>1, CopyStep
  <2>2. CASE Switch
    BY <2>2, SwitchStep
  <2>3. CASE PutAfterGrowth
    BY <2>3, PutAfterGrowthStep
  <2>4. CASE Close
    BY <2>4, MoveStep, StayStep
  <2>5. CASE Closed
    BY <2>5, ClosedStep
  <2>6. CASE Clear
    BY <2>6, ClearStep
  <2>7. ASSUME NEW k \in Keys, Remove(k) PROVE MapInv'
    BY <2>7, RemoveStep
  <2>8. ASSUME NEW k \in Keys, Get(k) PROVE MapInv'
    BY <2>8, AnswerStep DEF Get
  <2>9. ASSUME NEW k \in Keys, NEW v \in Values, Insert(k, v) PROVE MapInv'
    BY <2>9, InsertStep
  <2>10. ASSUME NEW capacity \in 1..Largest, Reserve(capacity) PROVE MapInv'
    BY <2>10, ReserveStep
  <2>11. CASE UNCHANGED vars
    BY <2>11, AnswerStep DEF vars
  <2> QED
    BY <2>1, <2>2, <2>3, <2>4, <2>5, <2>6, <2>7, <2>8, <2>9, <2>10, <2>11 DEF Next, Loop
<1> QED
  BY InitMap, <1>1, PTL DEF Spec

\* Between calls every entry is where a probe for its key ends and the count is
\* right; at all times a bucket is empty for a probe to end at.
THEOREM TableIsSound == Spec => []TableInv
<1>1. MapInv => TableInv
  <2> SUFFICES ASSUME MapInv PROVE TableInv
    OBVIOUS
  <2>1. TypeOK
    BY DEF MapInv
  <2>2. Reachable
    <3> SUFFICES ASSUME at = "idle"
                 PROVE  /\ \A i \in Full(slots) : Find(slots[i].key) = i
                        /\ length = Cardinality(Full(slots))
      BY DEF Reachable
    <3>1. Unique(slots, Full(slots)) /\ Chained(slots, buckets, Full(slots))
      BY AllKept
    <3>2. ASSUME NEW i \in Full(slots) PROVE Find(slots[i].key) = i
      <4>1. slots[i].key \in Keys
        BY Typed, FullBucket
      <4> QED
        BY <4>1, <3>1, FindIs DEF MapInv, CountInv
    <3> QED
      BY <3>2, Typed
  <2>3. RoomLeft
    <3> SUFFICES ASSUME buckets > 0
                 PROVE  length <= Cap(buckets) /\ Full(slots) # DOMAIN slots
      BY DEF RoomLeft
    <3>1. buckets \in Nat /\ buckets >= 4 /\ length < buckets /\ length <= Cap(buckets)
      BY Typed, CapBelow
    <3>2. Full(slots) # 0..(buckets - 1)
      BY <3>1, Typed, FullCount, SMTT(30)
    <3> QED
      BY <3>1, <3>2, Typed
  <2> QED
    BY <2>1, <2>2, <2>3 DEF TableInv
<1> QED
  BY <1>1, MapInvariant, PTL

-----------------------------------------------------------------------------
(* The table implements a finite map.                                      *)

\* Entries with one value for each key.
IsMap(L) ==
    /\ \A e \in L : \E k \in Keys, v \in Values : e = Entry(k, v)
    /\ \A e, f \in L : e.key = f.key => e = f

\* The map they are.
ContentsOf(L) == [k \in {e.key : e \in L} |-> (CHOOSE e \in L : e.key = k).value]

\* The entries with other keys.
Others(L, k) == {e \in L : e.key # k}

\* The entries with this one for its key.
Updated(L, k, v) == Others(L, k) \cup {Entry(k, v)}

\* The function f, with v at k.
Inserted(f, k, v) == [j \in DOMAIN f \cup {k} |-> IF j = k THEN v ELSE f[j]]

\* The map of entries has their keys and values.
LEMMA ContentsAre ==
    ASSUME NEW L, IsMap(L)
    PROVE  /\ DOMAIN ContentsOf(L) = {e.key : e \in L}
           /\ \A e \in L : ContentsOf(L)[e.key] = e.value
<1>1. DOMAIN ContentsOf(L) = {e.key : e \in L}
  BY DEF ContentsOf
<1>2. ASSUME NEW e \in L PROVE ContentsOf(L)[e.key] = e.value
  <2>1. e.key \in {f.key : f \in L}
    OBVIOUS
  <2>2. ContentsOf(L)[e.key] = (CHOOSE f \in L : f.key = e.key).value
    BY <2>1 DEF ContentsOf
  <2>3. (CHOOSE f \in L : f.key = e.key) = e
    BY Zenon DEF IsMap
  <2> QED
    BY <2>2, <2>3
<1> QED
  BY <1>1, <1>2

\* A map that gets an entry has its value, and is as it was elsewhere.
LEMMA ContentsInsert ==
    ASSUME NEW L, IsMap(L), NEW k \in Keys, NEW v \in Values
    PROVE  /\ IsMap(Updated(L, k, v))
           /\ ContentsOf(Updated(L, k, v)) = Inserted(ContentsOf(L), k, v)
<1> DEFINE M == Updated(L, k, v)
           e0 == Entry(k, v)
<1>1. e0.key = k /\ e0.value = v /\ e0 \in M
  BY EntryFacts DEF Updated
<1>2. \A e \in M : e = e0 \/ (e \in L /\ e.key # k)
  BY DEF Others, Updated
<1>3. \A e \in L : e.key # k => e \in M
  BY DEF Others, Updated
<1> HIDE DEF M
<1>4. IsMap(M)
  <2>1. \A e \in M : \E i \in Keys, w \in Values : e = Entry(i, w)
    BY <1>2 DEF IsMap
  <2> HIDE DEF e0
  <2>2. \A e, f \in M : e.key = f.key => e = f
    BY <1>1, <1>2 DEF IsMap
  <2> QED
    BY <2>1, <2>2 DEF IsMap
<1> HIDE DEF e0
<1>5. DOMAIN ContentsOf(M) = {e.key : e \in M} /\ DOMAIN ContentsOf(L) = {e.key : e \in L}
  BY <1>4, ContentsAre
<1>6. {e.key : e \in M} = {e.key : e \in L} \cup {k}
  <2>1. \A e \in M : e.key = k \/ e \in L
    BY <1>1, <1>2
  <2>2. \A e \in L : e.key = k \/ e \in M
    BY <1>3
  <2>3. {e.key : e \in M} \subseteq {e.key : e \in L} \cup {k}
    BY <2>1, Zenon
  <2>4. {e.key : e \in L} \subseteq {e.key : e \in M} \cup {k}
    BY <2>2, Zenon
  <2>5. k \in {e.key : e \in M}
    BY <1>1, Zenon
  <2> QED
    BY <2>3, <2>4, <2>5, Zenon
<1>7. ASSUME NEW j \in {e.key : e \in L} \cup {k}
      PROVE  ContentsOf(M)[j] = IF j = k THEN v ELSE ContentsOf(L)[j]
  <2>1. CASE j = k
    BY <2>1, <1>1, <1>4, ContentsAre
  <2>2. CASE j # k
    <3>1. PICK e \in L : e.key = j
      BY <2>2, <1>7
    <3>2. e \in M
      BY <2>2, <3>1, <1>3
    <3>3. ContentsOf(M)[j] = e.value /\ ContentsOf(L)[j] = e.value
      BY <3>1, <3>2, <1>4, ContentsAre
    <3> QED
      BY <2>2, <3>3
  <2> QED
    BY <2>1, <2>2
<1>8. ContentsOf(M) = [j \in DOMAIN ContentsOf(M) |-> ContentsOf(M)[j]]
  BY DEF ContentsOf
<1>9. ContentsOf(M) = Inserted(ContentsOf(L), k, v)
  BY <1>5, <1>6, <1>7, <1>8 DEF Inserted
<1> QED
  BY <1>4, <1>9 DEF M

\* A map that loses an entry is as it was elsewhere.
LEMMA ContentsRemove ==
    ASSUME NEW L, IsMap(L), NEW k
    PROVE  /\ IsMap(Others(L, k))
           /\ ContentsOf(Others(L, k)) =
                [j \in DOMAIN ContentsOf(L) \ {k} |-> ContentsOf(L)[j]]
<1> DEFINE M == Others(L, k)
<1>1. \A e : e \in M <=> (e \in L /\ e.key # k)
  BY DEF Others
<1> HIDE DEF M
<1>2. IsMap(M)
  BY <1>1 DEF IsMap
<1>3. DOMAIN ContentsOf(M) = {e.key : e \in M} /\ DOMAIN ContentsOf(L) = {e.key : e \in L}
  BY <1>2, ContentsAre
<1>4. {e.key : e \in M} = {e.key : e \in L} \ {k}
  <2>1. {e.key : e \in M} \subseteq {e.key : e \in L} \ {k}
    BY <1>1, Zenon
  <2>2. {e.key : e \in L} \ {k} \subseteq {e.key : e \in M}
    BY <1>1, Zenon
  <2> QED
    BY <2>1, <2>2, Zenon
<1>5. ASSUME NEW j \in {e.key : e \in L} \ {k}
      PROVE  ContentsOf(M)[j] = ContentsOf(L)[j]
  <2>1. PICK e \in L : e.key = j
    BY <1>5
  <2>2. e \in M
    BY <2>1, <1>1, <1>5
  <2>3. ContentsOf(M)[j] = e.value /\ ContentsOf(L)[j] = e.value
    BY <2>1, <2>2, <1>2, ContentsAre
  <2> QED
    BY <2>3
<1>6. ContentsOf(M) = [j \in DOMAIN ContentsOf(M) |-> ContentsOf(M)[j]]
  BY DEF ContentsOf
<1> QED
  BY <1>2, <1>3, <1>4, <1>5, <1>6 DEF M

\* The entries of a state are a map.
LEMMA LiveIsMap ==
    ASSUME MapInv
    PROVE  /\ IsMap(Live)
           /\ at # "close" => Live = EntriesOf(slots)
           /\ at = "close" => Live = KeptEntries \cup {Entry(pending.key, pending.value)}
<1>1. slots \in [0..(buckets - 1) -> Slot]
  BY Typed
<1>2. /\ at # "close" => Live = KeptEntries /\ Kept = Full(slots) /\ Live = EntriesOf(slots)
      /\ at = "close" => Live = KeptEntries \cup {Entry(pending.key, pending.value)}
  BY DEF Live, KeptEntries, Kept, EntriesOf
<1>3. Kept \subseteq Full(slots)
  BY DEF Kept
<1>4. \A e \in KeptEntries : \E k \in Keys, v \in Values : e = Entry(k, v)
  <2> SUFFICES ASSUME NEW i \in Kept
               PROVE  \E k \in Keys, v \in Values : slots[i] = Entry(k, v)
    BY DEF KeptEntries
  <2>1. i \in Full(slots)
    BY <1>3
  <2>2. /\ slots[i].key \in Keys /\ slots[i].value \in Values
        /\ slots[i] = Entry(slots[i].key, slots[i].value)
    BY <2>1, <1>1, FullBucket
  <2> QED
    BY <2>2, Zenon
<1>5. \A e, f \in KeptEntries : e.key = f.key => e = f
  BY DEF KeptEntries, MapInv, Unique
<1>6. CASE at # "close"
  BY <1>2, <1>4, <1>5, <1>6 DEF IsMap
<1>7. CASE at = "close"
  <2>1. PICK k \in Keys, v \in Values : pending = Wanted(k, v, "remove")
    BY <1>7 DEF MapInv, PendingInv
  <2>2. pending # NoEntry /\ pending.key = k /\ pending.value = v
    BY <2>1, WantedFacts
  <2>3. \A i \in Kept : slots[i].key # k
    BY <2>2 DEF MapInv, PendingInv, Absent
  <2>4. \A e \in KeptEntries : e.key # k
    BY <2>3 DEF KeptEntries
  <2> DEFINE e0 == Entry(k, v)
  <2>5. e0.key = k
    BY EntryFacts
  <2>6. \A e \in Live : e \in KeptEntries \/ e = e0
    BY <2>2, <1>2, <1>7
  <2>7. \A e \in Live : \E i \in Keys, w \in Values : e = Entry(i, w)
    BY <2>6, <1>4
  <2> HIDE DEF e0
  <2>8. \A e, f \in Live : e.key = f.key => e = f
    BY <2>4, <2>5, <2>6, <1>5
  <2> QED
    BY <2>7, <2>8, <1>2, <1>7 DEF IsMap
<1> QED
  BY <1>2, <1>6, <1>7

\* A call that inserts.
LEMMA Inserts ==
    ASSUME IsMap(Live), NEW k \in Keys, NEW v \in Values, NEW b \in BOOLEAN,
           b <=> k \notin {e.key : e \in Live},
           Live' = Updated(Live, k, v), answer' = <<"inserted", b>>
    PROVE  Map!Next
<1>1. /\ ContentsOf(Live') = Inserted(ContentsOf(Live), k, v)
      /\ DOMAIN ContentsOf(Live) = {e.key : e \in Live}
  <2>1. ContentsOf(Updated(Live, k, v)) = Inserted(ContentsOf(Live), k, v)
    BY ContentsInsert
  <2>2. ContentsOf(Live') = ContentsOf(Updated(Live, k, v))
    OBVIOUS
  <2>3. DOMAIN ContentsOf(Live) = {e.key : e \in Live}
    BY ContentsAre
  <2> QED
    BY <2>1, <2>2, <2>3
<1>2. b = (k \notin DOMAIN ContentsOf(Live))
  BY <1>1
<1>3. Map!Insert(k, v)
  BY <1>1, <1>2 DEF Map!Insert, ContentsOf, Inserted
<1> QED
  BY <1>3 DEF Map!Next

\* A call that removes.
LEMMA Removes ==
    ASSUME IsMap(Live), NEW k \in Keys, NEW b \in BOOLEAN,
           b <=> k \in {e.key : e \in Live},
           Live' = Others(Live, k), answer' = <<"removed", b>>
    PROVE  Map!Next
<1>1. /\ ContentsOf(Live') = [j \in DOMAIN ContentsOf(Live) \ {k} |-> ContentsOf(Live)[j]]
      /\ DOMAIN ContentsOf(Live) = {e.key : e \in Live}
  BY ContentsRemove, ContentsAre
<1>2. b = (k \in DOMAIN ContentsOf(Live))
  BY <1>1
<1>3. Map!Remove(k)
  BY <1>1, <1>2 DEF Map!Remove, ContentsOf
<1> QED
  BY <1>3 DEF Map!Next

\* A call that changes nothing: a failure, a reservation, or none at all.
LEMMA Keeps ==
    ASSUME Live' = Live, answer' \in {<<"error">>, <<"reserved">>, answer}
    PROVE  [Map!Next]_(Map!vars)
<1>1. CASE answer' = <<"error">>
  BY <1>1 DEF Map!Next, Map!Fail
<1>2. CASE answer' = <<"reserved">>
  BY <1>2 DEF Map!Next, Map!Reserve
<1>3. CASE answer' = answer
  BY <1>3 DEF Map!vars
<1> QED
  BY <1>1, <1>2, <1>3

\* A call that looks a key up.
LEMMA Looks ==
    ASSUME IsMap(Live), NEW k \in Keys, Live' = Live,
           \/ (\A e \in Live : e.key # k) /\ answer' = <<"absent">>
           \/ \E e \in Live : e.key = k /\ answer' = <<"value", e.value>>
    PROVE  Map!Next
<1>1. DOMAIN ContentsOf(Live) = {e.key : e \in Live}
  BY ContentsAre
<1>2. CASE (\A e \in Live : e.key # k) /\ answer' = <<"absent">>
  <2>1. k \notin DOMAIN ContentsOf(Live)
    BY <1>1, <1>2
  <2>2. Map!Get(k)
    BY <2>1, <1>2 DEF Map!Get, ContentsOf
  <2> QED
    BY <2>2 DEF Map!Next
<1>3. CASE \E e \in Live : e.key = k /\ answer' = <<"value", e.value>>
  <2>1. PICK e \in Live : e.key = k /\ answer' = <<"value", e.value>>
    BY <1>3
  <2>2. k \in DOMAIN ContentsOf(Live) /\ ContentsOf(Live)[k] = e.value
    BY <2>1, <1>1, ContentsAre
  <2>3. Map!Get(k)
    BY <2>1, <2>2 DEF Map!Get, ContentsOf
  <2> QED
    BY <2>3 DEF Map!Next
<1> QED
  BY <1>2, <1>3

\* A call that clears.
LEMMA Clears ==
    ASSUME Live' = {}, answer' = <<"cleared">>
    PROVE  Map!Next
<1>1. [k \in {} |-> (CHOOSE e \in {} : e.key = k).value] = [k \in {} |-> CHOOSE v \in Values : TRUE]
  OBVIOUS
<1>2. {e.key : e \in {}} = {}
  OBVIOUS
<1> QED
  BY <1>1, <1>2 DEF Map!Next, Map!Clear

\* A step does to the map what the call that it is part of does, or nothing.
LEMMA MapStep ==
    ASSUME MapInv, MapInv', Next
    PROVE  [Map!Next]_(Map!vars)
<1>1. IsMap(Live)
  BY LiveIsMap
<1>2. /\ at # "close" => Live = EntriesOf(slots)
      /\ at = "close" => Live = KeptEntries \cup {Entry(pending.key, pending.value)}
  BY LiveIsMap
<1>3. /\ at' # "close" => Live' = EntriesOf(slots')
      /\ at' = "close" => Live' = KeptEntries' \cup {Entry(pending'.key, pending'.value)}
  <2>1. (MapInv => /\ at # "close" => Live = EntriesOf(slots)
                   /\ at = "close" => Live = KeptEntries \cup {Entry(pending.key, pending.value)})'
    BY LiveIsMap, PTL
  <2> QED
    BY <2>1 DEF EntriesOf, Full
<1>4. \A i \in Full(slots) : slots[i] \in EntriesOf(slots)
  BY DEF EntriesOf
<1>5. CASE Copy
  <2>1. at = "copy" /\ at' = "copy" /\ slots' = slots /\ answer' = answer
    BY <1>5 DEF Copy, table
  <2> QED
    BY <2>1, <1>2, <1>3, Keeps
<1>6. CASE Switch
  <2>1. /\ at = "copy" /\ at' \in {"idle", "put"} /\ answer' \in {answer, <<"reserved">>}
    BY <1>6 DEF Switch, Return
  <2>2. EntriesOf(slots') = EntriesOf(slots)
    BY <1>6, SwitchStep
  <2> QED
    BY <2>1, <2>2, <1>2, <1>3, Keeps
<1>7. CASE PutAfterGrowth
  <2>1. PICK k \in Keys, v \in Values :
           /\ Absent(k, slots, Full(slots))
           /\ EntriesOf(slots') = EntriesOf(slots) \cup {Entry(k, v)}
    BY <1>7, PutAfterGrowthStep
  <2>2. at = "put" /\ at' = "idle" /\ answer' = <<"inserted", TRUE>>
    BY <1>7 DEF PutAfterGrowth, Put, Return
  <2>3. \A e \in EntriesOf(slots) : e.key # k
    BY <2>1 DEF Absent, EntriesOf
  <2>4. Others(Live, k) = Live /\ k \notin {e.key : e \in Live}
    BY <2>2, <2>3, <1>2 DEF Others
  <2>5. Live' = Updated(Live, k, v)
    BY <2>1, <2>2, <2>4, <1>2, <1>3 DEF Updated
  <2>6. Map!Next
    BY <2>2, <2>4, <2>5, <1>1, Inserts
  <2> QED
    BY <2>6
<1>8. CASE Close
  <2>1. at = "close" /\ at' = "close" /\ pending' = pending /\ answer' = answer
    BY <1>8 DEF Close
  <2>2. KeptEntries' = KeptEntries
    BY <1>8, MoveStep, StayStep
  <2> QED
    BY <2>1, <2>2, <1>2, <1>3, Keeps
<1>9. CASE Closed
  <2>1. PICK k \in Keys, v \in Values : pending = Wanted(k, v, "remove") /\ Absent(k, slots, Kept)
    BY <1>9, ClosedStep
  <2>2. at = "close" /\ at' = "idle" /\ answer' = <<"removed", TRUE>>
    BY <1>9 DEF Closed, Return
  <2>3. \A e \in KeptEntries : e.key # k
    BY <2>1 DEF Absent, KeptEntries
  <2> DEFINE e0 == Entry(k, v)
  <2>4. Live = KeptEntries \cup {e0} /\ e0.key = k
    BY <2>1, <2>2, <1>2, WantedFacts, EntryFacts
  <2> HIDE DEF e0
  <2>5. Others(Live, k) = KeptEntries /\ k \in {e.key : e \in Live}
    BY <2>3, <2>4 DEF Others
  <2>6. Live' = Others(Live, k)
    BY <2>2, <2>5, <1>3, <1>9, ClosedStep
  <2>7. Map!Next
    BY <2>2, <2>5, <2>6, <1>1, Removes
  <2> QED
    BY <2>7
<1>10. CASE Clear
  <2>1. at' # "close" /\ answer' = <<"cleared">> /\ Full(slots') = {}
    <3>1. at = "idle" /\ at' = at /\ answer' = <<"cleared">>
      BY <1>10 DEF Clear
    <3> QED
      BY <3>1, <1>10, ClearStep
  <2>2. Live' = {}
    BY <2>1, <1>3 DEF EntriesOf
  <2>3. Map!Next
    BY <2>1, <2>2, Clears
  <2> QED
    BY <2>3
<1>11. ASSUME at = "idle", NEW k \in Keys
       PROVE  /\ Live = EntriesOf(slots)
              /\ (\A e \in Live : e.key # k) <=> Find(k) < 0
              /\ Find(k) >= 0 => Find(k) \in Full(slots) /\ slots[Find(k)].key = k
              /\ Find(k) < 0 \/ Find(k) >= 0
  <2>1. Unique(slots, Full(slots)) /\ Chained(slots, buckets, Full(slots))
    BY <1>11, AllKept
  <2>2. /\ Absent(k, slots, Full(slots)) <=> Find(k) < 0
        /\ Find(k) >= 0 => Find(k) \in Full(slots) /\ slots[Find(k)].key = k
        /\ \A i \in Full(slots) : slots[i].key = k => Find(k) = i
    BY <2>1, FindIs DEF MapInv, CountInv
  <2>3. Live = EntriesOf(slots)
    BY <1>2, <1>11
  <2>4. (\A e \in Live : e.key # k) <=> Absent(k, slots, Full(slots))
    BY <2>3 DEF Absent, EntriesOf
  <2>5. Absent(k, slots, Full(slots)) \/ \E i \in Full(slots) : slots[i].key = k
    BY DEF Absent
  <2>6. \A i \in Full(slots) : i >= 0
    BY Typed, FullBucket
  <2> QED
    BY <2>2, <2>3, <2>4, <2>5, <2>6
<1>12. ASSUME NEW k \in Keys, Remove(k) PROVE [Map!Next]_(Map!vars)
  <2>1. at = "idle" /\ slots' = slots /\ buckets' = buckets
    BY <1>12 DEF Remove, table
  <2>2. CASE Find(k) < 0
    <3>1. at' = "idle" /\ answer' = <<"removed", FALSE>>
      BY <1>12, <2>2 DEF Remove, Return
    <3>2. \A e \in Live : e.key # k
      BY <2>1, <2>2, <1>11, <1>12
    <3>3. Live' = Live
      BY <3>1, <2>1, <1>2, <1>3
    <3>4. Others(Live, k) = Live /\ k \notin {e.key : e \in Live}
      BY <3>2 DEF Others
    <3>5. Map!Next
      BY <3>1, <3>3, <3>4, <1>1, Removes
    <3> QED
      BY <3>5
  <2>3. CASE ~(Find(k) < 0)
    <3> DEFINE f == Find(k)
    <3>1. f \in Full(slots) /\ slots[f].key = k
      BY <2>1, <2>3, <1>11
    <3>2. /\ hole' = f /\ at' = "close" /\ answer' = answer
          /\ pending' = Wanted(k, slots[f].value, "remove")
      BY <1>12, <2>3 DEF Remove
    <3> HIDE DEF f
    <3>3. slots[f] = Entry(k, slots[f].value)
      BY <3>1, Typed, FullBucket, SMTT(30)
    <3>4. Entry(pending'.key, pending'.value) = slots[f]
      BY <3>2, <3>3, WantedFacts
    <3>5. Kept' = Full(slots) \ {f}
      BY <3>2, <2>1 DEF Kept, Full
    <3>6. KeptEntries' = {slots[i] : i \in Full(slots) \ {f}}
      BY <3>5, <2>1 DEF KeptEntries
    <3>7. EntriesOf(slots) = {slots[i] : i \in Full(slots) \ {f}} \cup {slots[f]}
      <4>1. {slots[i] : i \in Full(slots)} \subseteq {slots[i] : i \in Full(slots) \ {f}} \cup {slots[f]}
        BY Zenon
      <4>2. {slots[i] : i \in Full(slots) \ {f}} \cup {slots[f]} \subseteq {slots[i] : i \in Full(slots)}
        BY <3>1, Zenon
      <4> QED
        BY <4>1, <4>2, Zenon DEF EntriesOf
    <3>8. Live' = Live
      BY <3>2, <3>4, <3>6, <3>7, <2>1, <1>2, <1>3
    <3> QED
      BY <3>2, <3>8, Keeps
  <2> QED
    BY <2>2, <2>3
<1>13. ASSUME NEW k \in Keys, Get(k) PROVE [Map!Next]_(Map!vars)
  <2>1. at = "idle" /\ at' = "idle" /\ slots' = slots
    BY <1>13 DEF Get, table
  <2>2. Live' = Live
    BY <2>1, <1>2, <1>3
  <2>3. CASE Find(k) < 0
    <3>1. answer' = <<"absent">>
      BY <1>13, <2>3 DEF Get
    <3>2. Map!Next
      BY <3>1, <2>1, <2>2, <2>3, <1>1, <1>11, Looks
    <3> QED
      BY <3>2
  <2>4. CASE Find(k) >= 0 /\ ~(Find(k) < 0)
    <3>1. answer' = <<"value", slots[Find(k)].value>>
      BY <1>13, <2>4 DEF Get
    <3>2. slots[Find(k)] \in Live /\ slots[Find(k)].key = k
      BY <2>1, <2>4, <1>4, <1>11
    <3>3. Map!Next
      BY <3>1, <3>2, <2>2, <1>1, Looks
    <3> QED
      BY <3>3
  <2> QED
    BY <2>1, <2>3, <2>4, <1>11
<1>14. ASSUME NEW k \in Keys, NEW v \in Values, Insert(k, v) PROVE [Map!Next]_(Map!vars)
  <2>1. at = "idle" /\ UNCHANGED <<hash, buckets>>
    BY <1>14 DEF Insert
  <2>2. /\ Live = EntriesOf(slots)
        /\ (\A e \in Live : e.key # k) <=> Find(k) < 0
    BY <2>1, <1>11
  <2>3. CASE /\ Find(k) >= 0 /\ slots' = [slots EXCEPT ![Find(k)].value = v]
             /\ Return(<<"inserted", FALSE>>) /\ UNCHANGED <<length, rehash>>
    <3> DEFINE f == Find(k)
    <3>1. at' = "idle" /\ pending' = NoEntry /\ answer' = <<"inserted", FALSE>>
      BY <2>3 DEF Return
    <3>2. /\ f \in Full(slots) /\ slots[f].key = k /\ Full(slots') = Full(slots)
          /\ \A i \in Full(slots) : slots'[i] = IF i = f THEN Entry(k, v) ELSE slots[i]
      BY <3>1, <2>1, <2>3, UpdateStep
    <3> HIDE DEF f
    <3>3. \A i \in Full(slots) : i # f => slots[i].key # k
      <4>1. Unique(slots, Full(slots))
        BY <2>1, AllKept
      <4> QED
        BY <4>1, <3>2 DEF Unique
    <3>4. EntriesOf(slots') \subseteq Others(EntriesOf(slots), k) \cup {Entry(k, v)}
      BY <3>2, <3>3 DEF EntriesOf, Others
    <3>5. Others(EntriesOf(slots), k) \subseteq EntriesOf(slots')
      <4> SUFFICES ASSUME NEW i \in Full(slots), slots[i].key # k
                   PROVE  slots[i] \in EntriesOf(slots')
        BY DEF EntriesOf, Others
      <4>1. i # f
        BY <3>2
      <4>2. slots'[i] = slots[i] /\ i \in Full(slots')
        BY <4>1, <3>2
      <4> QED
        BY <4>2, Zenon DEF EntriesOf
    <3>6. Entry(k, v) \in EntriesOf(slots')
      <4>1. slots'[f] = Entry(k, v) /\ f \in Full(slots')
        BY <3>2
      <4> QED
        BY <4>1, Zenon DEF EntriesOf
    <3>7. Live' = Updated(Live, k, v)
      <4>1. Live' = EntriesOf(slots')
        BY <3>1, <1>3
      <4>2. EntriesOf(slots') = Others(EntriesOf(slots), k) \cup {Entry(k, v)}
        BY <3>4, <3>5, <3>6, Zenon
      <4> QED
        BY <4>1, <4>2, <2>2 DEF Updated
    <3>8. k \in {e.key : e \in Live}
      BY <3>2, <2>2, <1>4
    <3>9. Map!Next
      BY <3>1, <3>7, <3>8, <1>1, Inserts
    <3> QED
      BY <3>9
  <2>4. CASE /\ Find(k) < 0 /\ length # Cap(buckets)
             /\ Put(k, v, -Find(k) - 1) /\ UNCHANGED rehash
    <3>1. at' = "idle" /\ answer' = <<"inserted", TRUE>>
      BY <2>4 DEF Put, Return
    <3>2. Absent(k, slots, Full(slots))
      BY <2>2, <2>4 DEF EntriesOf, Absent
    <3>3. length + 1 <= Cap(buckets)
      <4>1. length \in Nat /\ length <= Cap(buckets) /\ Cap(buckets) \in Nat
        <5>1. 0 - 0 \div 4 \in Nat
          OBVIOUS
        <5> QED
          BY <5>1, Typed, CapBelow DEF Cap
      <4> QED
        BY <4>1, <2>4
    <3>4. EntriesOf(slots') = EntriesOf(slots) \cup {Entry(k, v)}
      BY <3>2, <3>3, <2>1, <2>4, PutStep
    <3>5. Others(Live, k) = Live /\ k \notin {e.key : e \in Live}
      BY <2>2, <2>4 DEF Others
    <3>6. Live' = Updated(Live, k, v)
      BY <3>1, <3>4, <3>5, <2>2, <1>3 DEF Updated
    <3>7. Map!Next
      BY <3>1, <3>5, <3>6, <1>1, Inserts
    <3> QED
      BY <3>7
  <2>5. CASE StartRehash(length + 1) /\ UNCHANGED <<slots, length>>
    <3>1. at' = "copy" /\ answer' = answer /\ slots' = slots
      BY <2>5 DEF StartRehash
    <3>2. Live' = Live
      BY <3>1, <2>1, <1>2, <1>3
    <3> QED
      BY <3>1, <3>2, Keeps
  <2>6. CASE Fail /\ UNCHANGED <<slots, length>>
    <3>1. at' = "idle" /\ answer' = <<"error">> /\ slots' = slots
      BY <2>6 DEF Fail, Return
    <3>2. Live' = Live
      BY <3>1, <2>1, <1>2, <1>3
    <3> QED
      BY <3>1, <3>2, Keeps
  <2> QED
    BY <1>14, <2>3, <2>4, <2>5, <2>6 DEF Insert
<1>15. ASSUME NEW capacity \in 1..Largest, Reserve(capacity) PROVE [Map!Next]_(Map!vars)
  <2>1. at = "idle" /\ slots' = slots
    BY <1>15 DEF Reserve, table
  <2>2. at' \in {"copy", "idle"} /\ answer' \in {answer, <<"error">>}
    BY <1>15 DEF Reserve, StartRehash, Fail, Return
  <2>3. Live' = Live
    BY <2>1, <2>2, <1>2, <1>3
  <2> QED
    BY <2>2, <2>3, Keeps
<1> QED
  BY <1>5, <1>6, <1>7, <1>8, <1>9, <1>10, <1>12, <1>13, <1>14, <1>15 DEF Next, Loop

\* A step that changes nothing changes no map.
LEMMA MapStutter == UNCHANGED vars => UNCHANGED Map!vars
  BY DEF vars, table, rehash, Map!vars, Live, Full

\* The map is empty at first.
LEMMA MapInit == Init => Map!Init
<1> SUFFICES ASSUME Init PROVE Map!Init
  OBVIOUS
<1>1. Full(NoTable) = {}
  BY DEF Full, NoTable
<1>2. Live = {}
  BY <1>1 DEF Init, Live
<1>3. [k \in {} |-> (CHOOSE e \in {} : e.key = k).value] = [k \in {} |-> CHOOSE v \in Values : TRUE]
  OBVIOUS
<1>4. {e.key : e \in {}} = {}
  OBVIOUS
<1> QED
  BY <1>2, <1>3, <1>4 DEF Map!Init, Init

\* Every call does and returns what it does to a finite map, also a failed one,
\* whatever the hashes of the keys are.
THEOREM TableIsFiniteMap == Spec => IsFiniteMap
<1>1. MapInv /\ MapInv' /\ [Next]_vars => [Map!Next]_(Map!vars)
  BY MapStep, MapStutter
<1> QED
  BY MapInit, <1>1, MapInvariant, PTL DEF Spec, IsFiniteMap, Map!Spec

=============================================================================
