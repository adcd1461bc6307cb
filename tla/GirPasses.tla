------------------------------- MODULE GirPasses -------------------------------
(***************************************************************************)
(* What the lowering changes in a function before its operations are       *)
(* replaced (src/src/gir_range_proofs.cpp, src/src/gir_float_checks.cpp):  *)
(* storage becomes values where only loads and stores see it, a loop gets  *)
(* a copy without checks for when a test before it shows that none would   *)
(* fail, and the checks of a chain of float operations become one.         *)
(*                                                                         *)
(* The test before a loop belongs to the branch that takes it.  Limits on  *)
(* the sizes of blocks and chains and on the number of slices are left     *)
(* out.                                                                    *)
(***************************************************************************)
EXTENDS RangeProofs

Here(f, b) == SelectSeq(f.blocks[b].ops, LAMBDA o : o.op # "gone")

\* The operands of a block, each as often as it is used.
Operands(f, b) ==
    LET e == f.blocks[b].term
    IN  FlattenSeq([i \in DOMAIN Here(f, b) |-> Here(f, b)[i].of]) \o e.of \o FlattenSeq([i \in DOMAIN e.to |-> e.to[i].with])

Users(f, x) == {o \in Range(Operations(f)) : x \in Range(o.of)}
UsedIn(f, x) == {b \in DOMAIN f.blocks : x \in Range(Operands(f, b))}
GivenIn(f, x) == {b \in DOMAIN f.blocks : x \in Range(f.blocks[b].args) \cup {o.res : o \in Range(Here(f, b))}}

\* A value is there at the end of a block.
Available(f, x, b) == \E g \in GivenIn(f, x) : Dominates(f, g, b)

-----------------------------------------------------------------------------
(* Promotion of storage, and what tryToPromoteMemorySlots makes of it.     *)

\* Loads and stores of exactly the type of the storage are all that use it.  A function
\* with a match keeps its storage: its arms are not blocks of the function.
Promotable(f, o) ==
    /\ o.elay.k \in {"int", "float"} \/ o.src.k = "slice"
    /\ \A u \in Users(f, o.res) :
         \/ u.op = "load" /\ f.types[u.res] = o.elay
         \/ u.op = "store" /\ u.of[2] = o.res /\ u.of[1] # o.res /\ f.types[u.of[1]] = o.elay
    /\ \A b \in Range(f.blocks) :
         b.term.op # "match" /\ o.res \notin Range(b.term.of) \cup UNION {Range(e.with) : e \in Range(b.term.to)}

Touching(f, p, b) == SelectSeq(Here(f, b), LAMBDA o : o.op \in {"load", "store"} /\ p = Last(o.of))
Stores(f, p, b) == SelectSeq(Touching(f, p, b), LAMBDA o : o.op = "store")

Frontier(f, x) == {b \in DOMAIN f.blocks : (b = x \/ ~Dominates(f, x, b)) /\ \E p \in Predecessors(f, b) : Dominates(f, x, p)}

RECURSIVE Frontiers(_, _), Needing(_, _, _), Reaching(_, _, _, _), Resolved(_, _)

Frontiers(f, S) == LET more == S \cup UNION {Frontier(f, x) : x \in S} IN IF more = S THEN S ELSE Frontiers(f, more)

Needing(f, p, S) ==
    LET more == S \cup {b \in DOMAIN f.blocks : Successors(f, b) \cap S # {} /\ Stores(f, p, b) = <<>>}
    IN  IF more = S THEN S ELSE Needing(f, p, more)

\* The blocks in which values of the storage meet: each takes it as an argument.
Meeting(f, p) ==
    LET storing == {b \in DOMAIN f.blocks : Stores(f, p, b) # <<>>}
        reading == {b \in DOMAIN f.blocks : Touching(f, p, b) # <<>> /\ Touching(f, p, b)[1].op = "load"}
    IN  UNION {Frontier(f, x) : x \in Frontiers(f, storing)} \cap Needing(f, p, reading)
Met(p, b) == p \o "@" \o ToString(b)

Idom(f, b) ==
    CHOOSE d \in DOMAIN f.blocks \ {b} :
        Dominates(f, d, b) /\ \A e \in DOMAIN f.blocks \ {b} : Dominates(f, e, b) => Dominates(f, e, d)

\* The value in the storage where a block begins, and where it ends.
Entering(f, p, meeting, b) ==
    IF b \in meeting THEN Met(p, b) ELSE IF b = 1 THEN "undefined" ELSE Reaching(f, p, meeting, Idom(f, b))
Reaching(f, p, meeting, b) == IF Stores(f, p, b) # <<>> THEN Last(Stores(f, p, b)).of[1] ELSE Entering(f, p, meeting, b)

\* What the loads of the storage in a block read, by the names of the loads.
Loaded(f, p, meeting, b) ==
    LET all == Touching(f, p, b)
        before(i) == SelectSeq(SubSeq(all, 1, i - 1), LAMBDA o : o.op = "store")
        value(i) == IF before(i) # <<>> THEN Last(before(i)).of[1] ELSE Entering(f, p, meeting, b)
    IN  [x \in {o.res : o \in Range(all)} \ {""} |-> value(CHOOSE i \in DOMAIN all : all[i].res = x)]
Resolved(known, x) == IF x \in DOMAIN known THEN Resolved(known, known[x]) ELSE x

Reads(f, p, meeting) == FoldLeft(LAMBDA m, b : m @@ Loaded(f, p, meeting, b), <<>>, [b \in DOMAIN f.blocks |-> b])

\* The loads and stores go; known names what the loads read.
Replacing(f, o, meeting, known) ==
    LET p == o.res
        all(names) == [i \in DOMAIN names |-> Resolved(known, names[i])]
        kept(u) == IF u.res = p \/ (u.op \in {"load", "store"} /\ Last(u.of) = p) THEN Gone ELSE [u EXCEPT !.of = all(@)]
        passing(b, e) ==
            [e EXCEPT !.with = all(@) \o IF e.to \in meeting THEN <<Resolved(known, Reaching(f, p, meeting, b))>> ELSE <<>>]
        block(b) ==
            [f.blocks[b] EXCEPT
                !.args = @ \o IF b \in meeting THEN <<Met(p, b)>> ELSE <<>>,
                !.ops = [i \in DOMAIN @ |-> kept(@[i])],
                !.term = [@ EXCEPT !.of = all(@), !.to = [i \in DOMAIN @ |-> passing(b, @[i])]]]
    IN  [f EXCEPT !.blocks = [b \in DOMAIN @ |-> block(b)],
                  !.types = [x \in {Met(p, b) : b \in meeting} |-> o.elay] @@ [x \in DOMAIN @ \ ({p} \cup DOMAIN known) |-> @[x]]]
Joining(f, o, meeting) == Replacing(f, o, meeting, Reads(f, o.res, meeting))

Promoted(f, o) == IF Promotable(f, o) THEN Joining(f, o, Meeting(f, o.res)) ELSE f

PromoteAllocation(f, floats) ==
    FoldLeft(LAMBDA g, x : Promoted(g, Definition(g, x.res)),
             f, SelectSeq(Operations(f), LAMBDA o : o.op = "stack_alloc" /\ (o.elay = Float) = floats))

-----------------------------------------------------------------------------
(* Versions of a loop: v is a function, what is proved in it, what it was  *)
(* copied from, block by block and value by value, and the loops that are  *)
(* reductions.                                                             *)

Is(f, x, n) == IsConstant(f, x) /\ constant(f, x) = n
Position(names, x) == CHOOSE i \in DOMAIN names : names[i] = x
Passing(f, from, h, x) == f.blocks[from].term.to[1].with[Position(f.blocks[h].args, x)]

Body(f, h) == f.blocks[h].term.to[1].to
Behind(f, h) == f.blocks[h].term.to[2].to
Entry(f, h) == CHOOSE b \in Predecessors(f, h) : b # Body(f, h)
Looping(f, h) == {h, Body(f, h)}
Compared(f, h) == Definition(f, f.blocks[h].term.of[1])

\* A block with a test and one that goes back to it, entered in one way.
IsLoop(f, h) ==
    /\ f.blocks[h].term.op = "cond_br"
    /\ Body(f, h) \notin {h, Behind(f, h)}
    /\ Predecessors(f, Body(f, h)) = {h} /\ f.blocks[Body(f, h)].args = <<>>
    /\ f.blocks[Body(f, h)].term.op = "br" /\ f.blocks[Body(f, h)].term.to[1].to = h
    /\ Cardinality(Predecessors(f, h)) = 2 /\ h \notin Predecessors(f, h)
    /\ f.blocks[Entry(f, h)].term.op = "br"

\* Nothing made in the loop is used outside, and no storage is made.
Enclosed(f, h) ==
    \A b \in Looping(f, h) : \A o \in Range(Here(f, b)) : o.op # "stack_alloc" /\ UsedIn(f, o.res) \subseteq Looping(f, h)

\* An argument of the loop starts at 0, and every round adds to it.
Round(f, h, x) == Definition(f, Passing(f, Body(f, h), h, x))
Counts(f, h, x) ==
    LET o == Round(f, h, x)
    IN  f.types[x] = Long /\ Is(f, Passing(f, Entry(f, h), h, x), 0) /\ o.op = "checked_int_binary" /\ o.kind = "+" /\ o.of[1] = x

\* The tests: a value, a length or a number, divided, is at most another one.
Value(x) == [k |-> "value", of |-> x]
LengthOf(x) == [k |-> "length", of |-> x]
Fixed(n) == [k |-> "number", n |-> n]
AtMost(left, by, right, of) == [left |-> left, by |-> by, right |-> right, of |-> of]

Given(f, b) == (Range(f.blocks[b].args) \cup {o.res : o \in Range(Here(f, b))}) \ {""}
Copied(x) == x \o "'"

\* What a copy may do without: checks that are proved, checks of float operations, and
\* those that only lower a flag, which is raised before the loop.
Sparing(proved, unchecked, flagged, flag) == [proved |-> proved, unchecked |-> unchecked, flagged |-> flagged, flag |-> flag]
Sparingly(proved, unchecked) == Sparing(proved, unchecked, {}, <<>>)

\* A copy of the blocks of a loop, the header first, that the entry goes to if the tests hold.
Versioned(v, loop, entry, tests, spared) ==
    LET f == v.f
        n == Len(f.blocks)
        given == UNION {Given(f, b) : b \in Range(loop)}
        name(x) == IF x \in given THEN Copied(x) ELSE x
        names(xs) == [i \in DOMAIN xs |-> name(xs[i])]
        operation(o) ==
            [o EXCEPT !.res = name(@), !.of = names(@), !.op = IF o.res \in spared.unchecked THEN "arith" ELSE @,
                      !.keys = IF o.res \in spared.flagged THEN spared.flag ELSE @]
        edge(e) == Edge(IF e.to \in Range(loop) THEN n + Position(loop, e.to) ELSE e.to, names(e.with))
        copy(b) == Block(names(b.args), [i \in DOMAIN b.ops |-> operation(b.ops[i])],
                         [b.term EXCEPT !.of = names(@), !.to = [i \in DOMAIN @ |-> edge(@[i])]])
        incoming == f.blocks[entry].term.to[1]
        test == [End("versioned", spared.flag, <<[incoming EXCEPT !.to = n + 1], incoming>>) EXCEPT !.keys = tests]
    IN  [v EXCEPT !.f.blocks = [@ EXCEPT ![entry].term = test] \o [k \in DOMAIN loop |-> copy(@[loop[k]])],
                  !.f.types = [y \in {Copied(x) : x \in given} |-> @[CHOOSE x \in given : Copied(x) = y]] @@ @,
                  !.blocks = @ \o [k \in DOMAIN loop |-> @[loop[k]]],
                  !.values = [y \in {Copied(x) : x \in given} |-> CHOOSE x \in given : Copied(x) = y] @@ @,
                  !.proofs = @ \cup {Copied(x) : x \in spared.proved \cup (@ \cap given)}]

\* A copy leaves by a block of its own, which makes the checks that it did without.
Leaving(v, header, ops) ==
    [v EXCEPT !.f.blocks[header].term.to[2] = Edge(Len(v.f.blocks) + 1, <<>>),
              !.f.blocks = Append(@, Block(<<>>, ops, Goto(Behind(v.f, header), <<>>))),
              !.blocks = Append(@, 0)]

\* Accesses to slices from before the loop whose checks are still there.
Unproved(v, h) ==
    {o \in Range(Here(v.f, Body(v.f, h))) :
        o.op = "slice_element_address" /\ o.res \notin v.proofs /\ Available(v.f, o.of[1], Entry(v.f, h))}

-----------------------------------------------------------------------------
(* Loops that count to a bound: i < n, i + 1.                              *)

Counted(v, h) == {o \in Unproved(v, h) : o.of[2] = Compared(v.f, h).of[1]}

SliceLoop(v, h) ==
    LET f == v.f
        compare == Compared(f, h)
        index == compare.of[1]
        round == Round(f, h, index)
    IN  /\ Here(f, h) = <<compare>> /\ compare.op = "checked_int_compare" /\ compare.kind = "<"
        /\ index \in Range(f.blocks[h].args) /\ Counts(f, h, index)
        /\ Available(f, compare.of[2], Entry(f, h))
        /\ round \in Range(Here(f, Body(f, h))) /\ round.signed = compare.signed /\ Is(f, round.of[2], 1)
        /\ Enclosed(f, h) /\ \A x \in Range(f.blocks[h].args) : UsedIn(f, x) \subseteq Looping(f, h)
        /\ Counted(v, h) # {}

SliceVersion(v, h) ==
    LET f == v.f
        compare == Compared(f, h)
        test(base) == AtMost(Value(compare.of[2]), 1, LengthOf(base), 1)
    IN  Versioned(v, <<h, Body(f, h)>>, Entry(f, h), SetToSeq({test(o.of[1]) : o \in Counted(v, h)}),
                  Sparingly({o.res : o \in Counted(v, h)} \cup {Round(f, h, compare.of[1]).res}, {}))

version_slice_loops(v) ==
    FoldLeft(LAMBDA w, h : IF h \notin w.reduced /\ IsLoop(w.f, h) /\ SliceLoop(w, h) THEN SliceVersion(w, h) ELSE w,
             v, [h \in DOMAIN v.f.blocks |-> h])

-----------------------------------------------------------------------------
(* Loops over groups of elements: i + S <= n, i + S, with other counters.  *)

Counters(f, h) ==
    {x \in Range(f.blocks[h].args) :
        /\ Counts(f, h, x)
        /\ LET o == Round(f, h, x)
           IN  /\ o \in Range(Here(f, Body(f, h))) \/ o.res = Compared(f, h).of[1]
               /\ ~o.signed /\ IsConstant(f, o.of[2]) /\ constant(f, o.of[2]) > 0}
Stride(f, h, x) == constant(f, Round(f, h, x).of[2])

\* A bound that is the length of a slice may be taken in the loop.
LengthHere(f, h) ==
    LET o == Definition(f, Compared(f, h).of[2])
    IN  o \in Range(Here(f, h)) /\ o.op = "slice_length" /\ Available(f, o.of[1], Entry(f, h))
Bound(f, h) ==
    LET x == Compared(f, h).of[2] IN IF LengthHere(f, h) THEN LengthOf(Definition(f, x).of[1]) ELSE Value(x)

\* An index as a value, with the offsets that are added to it in the loop.
RECURSIVE Chain(_, _, _, _)
Chain(f, h, x, depth) ==
    LET o == Definition(f, x)
    IN  IF /\ depth < 4 /\ Unsigned(o, "checked_int_binary") /\ o.kind = "+"
           /\ GivenIn(f, x) \subseteq Looping(f, h) /\ IsConstant(f, o.of[2])
        THEN LET rest == Chain(f, h, o.of[1], depth + 1)
             IN  [rest EXCEPT !.offset = @ + constant(f, o.of[2]), !.via = @ \cup {x}]
        ELSE [base |-> x, offset |-> 0, via |-> {}]

\* The accesses that stay in the group of their counter.
Grouped(v, h) ==
    {a \in {[of |-> o, index |-> Chain(v.f, h, o.of[2], 0)] : o \in Unproved(v, h)} :
        a.index.base \in Counters(v.f, h) /\ a.index.offset < Stride(v.f, h, a.index.base)}

\* The arguments of the loop that are used behind it.
Escaping(f, h) == SelectSeq(f.blocks[h].args, LAMBDA x : ~(UsedIn(f, x) \subseteq Looping(f, h)))

StridedLoop(v, h) ==
    LET f == v.f
        compare == Compared(f, h)
        ahead == Definition(f, compare.of[1])
        primary == ahead.of[1]
    IN  /\ Unsigned(compare, "checked_int_compare") /\ compare.kind = "<=" /\ compare \in Range(Here(f, h))
        /\ Unsigned(ahead, "checked_int_binary") /\ ahead.kind = "+" /\ ahead \in Range(Here(f, h))
        /\ Predecessors(f, Behind(f, h)) = {h}
        /\ LengthHere(f, h) \/ Available(f, compare.of[2], Entry(f, h))
        /\ \A o \in Range(Here(f, h)) : o \in {compare, ahead} \/ o.op = "constant" \/ (o.op = "slice_length" /\ o.res = compare.of[2])
        /\ Enclosed(f, h)
        /\ primary \in Counters(f, h) /\ Is(f, ahead.of[2], Stride(f, h, primary))
        /\ Grouped(v, h) # {}
        /\ \A x \in Range(Escaping(f, h)) : \A b \in UsedIn(f, x) \ Looping(f, h) : Dominates(f, Behind(f, h), b)

\* What is used behind the loop comes there from both versions.
Left(x) == x \o "+"
Joined(v, h) ==
    LET to == Behind(v.f, h)
        live == Escaping(v.f, h)
        names(xs) == [i \in DOMAIN xs |-> IF xs[i] \in Range(live) THEN Left(xs[i]) ELSE xs[i]]
        leaving(e) == IF e.to = to THEN [e EXCEPT !.with = @ \o live] ELSE e
        renamed(b) ==
            [b EXCEPT !.ops = [i \in DOMAIN @ |-> [@[i] EXCEPT !.of = names(@)]],
                      !.term = [@ EXCEPT !.of = names(@), !.to = [i \in DOMAIN @ |-> [@[i] EXCEPT !.with = names(@)]]]]
        block(b) ==
            IF b = h THEN [v.f.blocks[h] EXCEPT !.term.to = [i \in DOMAIN @ |-> leaving(@[i])]]
            ELSE IF b = Body(v.f, h) THEN v.f.blocks[b]
            ELSE [renamed(v.f.blocks[b]) EXCEPT !.args = @ \o IF b = to THEN names(live) ELSE <<>>]
    IN  [v EXCEPT !.f.blocks = [b \in DOMAIN @ |-> block(b)],
                  !.f.types = [y \in {Left(x) : x \in Range(live)} |-> @[CHOOSE x \in Range(live) : Left(x) = y]] @@ @,
                  !.values = [y \in {Left(x) : x \in Range(live)} |-> CHOOSE x \in Range(live) : Left(x) = y] @@ @]

StridedVersion(v, h) ==
    LET f == v.f
        body == Body(f, h)
        ahead == Definition(f, Compared(f, h).of[1])
        stride == constant(f, ahead.of[2])
        enough(a) == AtMost(Bound(f, h), stride, LengthOf(a.of.of[1]), Stride(f, h, a.index.base))
        proved(a) == {a.of.res, Round(f, h, a.index.base).res} \cup a.index.via
        passed == {ahead.res, Round(f, h, ahead.of[1]).res} \cup UNION {proved(a) : a \in Grouped(v, h)}
    IN  Versioned(Joined(v, h), <<h, Body(f, h)>>, Entry(f, h),
                  <<AtMost(Bound(f, h), stride, Fixed((2^Word - 1 - stride) \div stride), 1)>>
                    \o SetToSeq({enough(a) : a \in Grouped(v, h)}),
                  Sparingly(passed, {}))

version_strided_slice_loops(v) ==
    FoldLeft(LAMBDA w, h : IF h \notin w.reduced /\ IsLoop(w.f, h) /\ StridedLoop(w, h) THEN StridedVersion(w, h) ELSE w,
             v, [h \in DOMAIN v.f.blocks |-> h])

-----------------------------------------------------------------------------
(* Chains of float operations.                                             *)

Propagates(o) == o.op = "checked_float_binary" /\ o.kind \in {"+", "-", "*"}
Uses(f, x) == Len(SelectSeq(FlattenSeq([b \in DOMAIN f.blocks |-> Operands(f, b)]), LAMBDA y : y = x))

\* An operation whose only use is behind it in the chain shows there whether it failed.
Shown(f, b, i) ==
    LET ops == f.blocks[b].ops
    IN  /\ Propagates(ops[i]) /\ Uses(f, ops[i].res) = 1
        /\ \E j \in i + 1..Len(ops) :
             /\ ops[i].res \in Range(ops[j].of)
             /\ \A k \in i + 1..j : Propagates(ops[k]) \/ ops[k].op = "gone"

combine_gloin_float_checks(f) ==
    [f EXCEPT !.blocks = [b \in DOMAIN @ |->
        [@[b] EXCEPT !.ops = [i \in DOMAIN @ |-> [@[i] EXCEPT !.op = IF Shown(f, b, i) THEN "arith" ELSE @]]]]]

==============================================================================
