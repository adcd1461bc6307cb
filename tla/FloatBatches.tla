------------------------------ MODULE FloatBatches ------------------------------
(***************************************************************************)
(* Loops over float arrays that nothing else sees get a copy in which a    *)
(* float operation that fails only lowers a flag, with a check of the flag *)
(* behind the loop (src/src/gir_float_batches.cpp).                        *)
(*                                                                         *)
(* The flag is a name that the test before the loop binds, where the code  *)
(* passes a value from block to block.  Limits on the sizes of loops and   *)
(* the hints for the optimizer are left out.                               *)
(***************************************************************************)
EXTENDS FloatPasses

\* A loop, with the blocks that enter it and that repeat it.
Shapes(f, h, loop) ==
    {[h |-> h, loop |-> loop, entry |-> e, latch |-> l] : e \in Predecessors(f, h) \ loop, l \in Latches(f, h)}

Term(f, b) == f.blocks[b].term

\* One way in, one way back and one way out, no loop inside, and nothing of it is used outside.
SingleWay(f, m) ==
    /\ Predecessors(f, m.h) = {m.entry, m.latch}
    /\ Term(f, m.h).op = "cond_br" /\ \A i \in 1..2 : Term(f, m.h).to[i].with = <<>>
    /\ Body(f, m.h) \in m.loop /\ Behind(f, m.h) \notin m.loop
    /\ Term(f, m.latch).op = "br"
    /\ \A b \in m.loop :
         /\ Term(f, b).op \in {"br", "cond_br"}
         /\ Successors(f, b) \subseteq m.loop \cup (IF b = m.h THEN {Behind(f, b)} ELSE {})
         /\ m.h \in Successors(f, b) => b = m.latch
         /\ b # m.h => Predecessors(f, b) \subseteq m.loop /\ b \notin Reach(f, Successors(f, b) \ {m.h}, {m.h})
         /\ \A x \in Given(f, b) : UsedIn(f, x) \subseteq m.loop
         /\ \A x \in Range(f.blocks[b].args) : f.types[x].k \in {"int", "float"}

\* Entered with 0, always or where an earlier test holds.
FromZero(f, m) ==
    LET e == Term(f, m.entry)
    IN  /\ e.to[1].to = m.h /\ Is(f, e.to[1].with[1], 0)
        /\ e.op = "br" \/ (e.op \in {"cond_br", "versioned"} /\ e.to[2].to # m.h)

ConstantHere(f, h) == Definition(f, Compared(f, h).of[2]) \in {o \in Range(Here(f, h)) : o.op = "constant"}
BatchBound(f, h) == IF ConstantHere(f, h) THEN Fixed(constant(f, Compared(f, h).of[2])) ELSE Bound(f, h)

Increment(f, m) == Definition(f, Term(f, m.latch).to[1].with[1])

\* i < bound, i + 1.
Counting(f, m) ==
    LET compare == Compared(f, m.h)
        index == f.blocks[m.h].args[1]
        round == Increment(f, m)
    IN  /\ Len(f.blocks[m.h].args) = 1 /\ f.types[index] = Long
        /\ compare.op = "checked_int_compare" /\ compare.kind = "<" /\ compare.of[1] = index /\ compare \in Range(Here(f, m.h))
        /\ ConstantHere(f, m.h) \/ LengthHere(f, m.h) \/ Available(f, compare.of[2], m.entry)
        /\ \A o \in Range(Here(f, m.h)) :
             o = compare \/ (o.op \in {"constant", "slice_length"} /\ o.res = compare.of[2])
        /\ round.op = "checked_int_binary" /\ round.kind = "+" /\ round \in Range(Here(f, m.latch))
        /\ round.of[1] = index /\ Is(f, round.of[2], 1) /\ round.signed = compare.signed

BatchAccesses(f, m) ==
    {o \in UNION {Range(Here(f, b)) : b \in m.loop} : o.op \in {"array_element_address", "slice_element_address"}}

\* An element of local storage, at the index.
Private(f, m, a) ==
    /\ a.of[2] = f.blocks[m.h].args[1]
    /\ \/ a.op = "array_element_address" /\ a.lay.of = Float /\ LocalPointer(f, a.of[1], a.lay, m.entry)
       \/ a.op = "slice_element_address" /\ a.elay = Float /\ LocalSlice(f, a.of[1], m.entry)

\* What may still be done after an operation that failed.
Harmless(f, m, o, places) ==
    \/ o = Increment(f, m) \/ o.res \in places
    \/ o.op = "load" /\ o.of[1] \in places /\ f.types[o.res] = Float
    \/ o.op = "store" /\ o.of[2] \in places /\ f.types[o.of[1]] = Float
    \/ o.op \in {"checked_float_binary", "arith"} /\ o.kind \in {"+", "-", "*"}
    \/ o.op = "xor" /\ f.types[o.res] = Bool
    \/ o.op = "slice_length" /\ o.res = Compared(f, m.h).of[2]
    \/ o.op \in {"constant", "checked_float_compare", "checked_int_compare"}

Batch(f, m) ==
    /\ SingleWay(f, m) /\ Counting(f, m) /\ FromZero(f, m)
    /\ BatchAccesses(f, m) # {}
    /\ \A a \in BatchAccesses(f, m) : Private(f, m, a)
    /\ \A b \in m.loop : \A o \in Range(Here(f, b)) : Harmless(f, m, o, {a.res : a \in BatchAccesses(f, m)})
    /\ \E b \in m.loop : \E o \in Range(Here(f, b)) : o.op = "checked_float_binary"

-----------------------------------------------------------------------------
(* The checks that need no flag.                                           *)

\* Backwards through a block: a value that an operation behind shows when it is not finite.
Covering(c, o, safe) ==
    LET checked == o.op = "checked_float_binary" /\ o.res \notin safe
        covered == IF checked THEN c.covered \cup {o.res} ELSE c.covered
    IN  [removable |-> IF checked /\ o.res \in c.covered THEN c.removable \cup {o.res} ELSE c.removable,
         covered |-> IF o.op \in {"checked_float_binary", "arith"} /\ o.res \in covered THEN covered \cup Range(o.of) ELSE covered]

covered_checks(f, m, safe) ==
    UNION {FoldLeft(LAMBDA c, o : Covering(c, o, safe), [removable |-> {}, covered |-> {}], Reverse(Here(f, b))).removable : b \in m.loop}

-----------------------------------------------------------------------------

\* An entry under a condition gets a block of its own.
Gate(v, m) == IF Term(v.f, m.entry).op = "br" THEN m.entry ELSE Len(v.f.blocks) + 1
Entered(v, m) ==
    IF Term(v.f, m.entry).op = "br" THEN v
    ELSE [v EXCEPT !.f.blocks[m.entry].term.to[1] = Edge(Gate(v, m), <<>>),
                   !.f.blocks = Append(@, Block(<<>>, <<>>, Goto(m.h, v.f.blocks[m.entry].term.to[1].with))),
                   !.blocks = Append(@, 0)]

Flag(h) == <<"finite@" \o ToString(h)>>

BatchVersion(v, m, w, checks, safe) ==
    LET tests == SetToSeq({AtMost(BatchBound(v.f, m.h), 1, Capacity(a), 1) : a \in BatchAccesses(v.f, m)})
        proved == {a.res : a \in BatchAccesses(v.f, m)} \cup {Increment(v.f, m).res}
        spared == Sparing(proved, checks, checks \ (safe \cup covered_checks(v.f, m, safe)), Flag(m.h))
    IN  Leaving(Versioned(w, <<m.h>> \o SetToSeq(m.loop \ {m.h}), Gate(v, m), tests, spared),
                Len(w.f.blocks) + 1, <<Op("assert", "", Flag(m.h))>>)

Checks(f, m) == {o.res : o \in {p \in UNION {Range(Here(f, b)) : b \in m.loop} : p.op = "checked_float_binary"}}

BatchVersions(v, h, safe) ==
    FoldLeft(LAMBDA w, m : IF Batch(w.f, m) THEN BatchVersion(w, m, Entered(w, m), Checks(w.f, m), safe) ELSE w,
             v, IF h \in v.reduced THEN <<>> ELSE SetToSeq(Shapes(v.f, h, LoopBlocks(v.f, h))))

version_gloin_float_batches(v) ==
    FoldLeft(LAMBDA w, h : BatchVersions(w, h, find_proven_gloin_float_checks(v.f)), v, [h \in DOMAIN v.f.blocks |-> h])

==============================================================================
