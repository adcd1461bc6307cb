------------------------------ MODULE FloatPasses ------------------------------
(***************************************************************************)
(* Where the checks of float operations need not be made: in a loop that   *)
(* sums up products, whose sum is checked behind it                        *)
(* (src/src/gir_float_reductions.cpp, src/src/gir_private_float_storage.h),*)
(* and where the bounds of the operands show that the result is finite     *)
(* (src/src/gir_float_ranges.cpp).                                         *)
(*                                                                         *)
(* The code widens a bound that grew four times; here more is proved,      *)
(* never less.                                                             *)
(***************************************************************************)
EXTENDS GirPasses

Narrowing == {"array_element_address", "slice_from_array", "slice_subrange", "slice_element_address"}
EndUses(f, x) == \E b \in Range(f.blocks) : x \in Range(b.term.of) \cup UNION {Range(e.with) : e \in Range(b.term.to)}

\* What is derived from an address by addressing.
RECURSIVE Derived(_, _)
Derived(f, S) ==
    LET more == S \cup {o.res : o \in {p \in Range(Operations(f)) : p.op \in Narrowing /\ p.of[1] \in S}}
    IN  IF more = S THEN S ELSE Derived(f, more)

-----------------------------------------------------------------------------
(* Storage of this function that nothing else sees.                        *)

Confined(f, root) ==
    \A x \in Derived(f, {root}) :
        /\ ~EndUses(f, x)
        /\ \A u \in Users(f, x) :
             \/ u.op \in Narrowing /\ u.of[1] = x
             \/ u.op \in {"slice_length", "load"}
             \/ u.op = "store" /\ u.of[2] = x /\ u.of[1] # x
             \/ u.op = "array_fill" /\ u.of[1] = x /\ u.of[2] # x

Initializes(f, u, x) ==
    \/ u.op = "store" /\ u.of[2] = x /\ f.types[u.of[1]] = Definition(f, x).elay
    \/ u.op = "array_fill" /\ u.of[1] = x /\ u.lay = Definition(f, x).elay

RECURSIVE LocalPointer(_, _, _, _), LocalSlice(_, _, _)

\* An array, and a slice of one, that is there with all its elements at the end of a block.
LocalPointer(f, x, lay, entry) ==
    LET o == Definition(f, x)
    IN  /\ Available(f, x, entry)
        /\ \/ o.op = "array_element_address" /\ o.lay.of = lay /\ LocalPointer(f, o.of[1], o.lay, entry)
           \/ /\ o.op = "stack_alloc" /\ o.elay = lay /\ lay.k = "llvm.array" /\ Confined(f, x)
              /\ \E b \in DOMAIN f.blocks : Dominates(f, b, entry) /\ \E u \in Range(Here(f, b)) : Initializes(f, u, x)

LocalSlice(f, x, entry) ==
    LET o == Definition(f, x)
    IN  /\ Available(f, x, entry)
        /\ \/ o.op = "slice_subrange" /\ o.elay = Float /\ LocalSlice(f, o.of[1], entry)
           \/ o.op = "slice_from_array" /\ o.elay.of = Float /\ LocalPointer(f, o.of[1], o.elay, entry)

-----------------------------------------------------------------------------
(* Loops that sum up products: for i in 0..n: sum += x[i] * y[i].          *)

\* A load for the sum, a store of it, and zeros before: that is all there is of its storage.
private_accumulator(f, load, update, entry) ==
    LET x == load.of[1]
        zero(u) == u.op = "store" /\ Definition(f, u.of[1]).op = "constant" /\ Definition(f, u.of[1]).n = 0
    IN  /\ Definition(f, x).op = "stack_alloc" /\ Definition(f, x).elay = Float /\ Available(f, x, entry) /\ ~EndUses(f, x)
        /\ update.of[2] = x
        /\ \A u \in Users(f, x) : u.op = "load" \/ u = update \/ (u.op = "store" /\ u.of[1] # x /\ zero(u))
        /\ \E b \in DOMAIN f.blocks : Dominates(f, b, entry) /\ \E u \in Range(Here(f, b)) : zero(u) /\ u.of[2] = x

FloatOps(f, h, kind) == {o \in Range(Here(f, Body(f, h))) : o.op = "checked_float_binary" /\ o.kind = kind}
Product(f, h) == CHOOSE o \in FloatOps(f, h, "*") : TRUE
Sum(f, h) == CHOOSE o \in FloatOps(f, h, "+") : TRUE
Accumulated(f, h) ==
    LET other == SelectSeq(Sum(f, h).of, LAMBDA x : x # Product(f, h).res) IN Definition(f, Head(other))
Update(f, h) == CHOOSE u \in Users(f, Sum(f, h).res) : TRUE
Factors(f, h) == {Definition(f, x) : x \in Range(Product(f, h).of)}
Accesses(f, h) == {Definition(f, input.of[1]) : input \in Factors(f, h)}

\* Each factor is an element of local storage, at the index, that only the product reads.
Factor(f, h, input) ==
    /\ input.op = "load" /\ input # Accumulated(f, h) /\ input \in Range(Here(f, Body(f, h)))
    /\ Users(f, input.res) = {Product(f, h)}
    /\ LET a == Definition(f, input.of[1])
       IN  /\ a \in Range(Here(f, Body(f, h))) /\ a.op \in {"array_element_address", "slice_element_address"}
           /\ a.of[2] = f.blocks[h].args[1]
           /\ \/ a.op = "array_element_address" /\ a.lay.of = Float /\ LocalPointer(f, a.of[1], a.lay, Entry(f, h))
              \/ a.op = "slice_element_address" /\ a.elay = Float /\ LocalSlice(f, a.of[1], Entry(f, h))

\* The loop counts over its only argument, and nothing of it is used behind.
CountedLoop(f, h) ==
    LET compare == Compared(f, h)
        index == f.blocks[h].args[1]
        round == Round(f, h, index)
    IN  /\ Len(f.blocks[h].args) = 1 /\ f.blocks[h].term.to[2].with = <<>>
        /\ compare.op = "checked_int_compare" /\ compare.kind = "<" /\ compare.of[1] = index
        /\ compare \in Range(Here(f, h)) /\ (LengthHere(f, h) \/ Available(f, compare.of[2], Entry(f, h)))
        /\ \A o \in Range(Here(f, h)) : o = compare \/ (o.op = "slice_length" /\ o.res = compare.of[2])
        /\ Counts(f, h, index) /\ round \in Range(Here(f, Body(f, h)))
        /\ round.signed = compare.signed /\ Is(f, round.of[2], 1)
        /\ Enclosed(f, h) /\ UsedIn(f, index) \subseteq Looping(f, h)

\* Only reads, the sum and the counter: nothing else can happen after a sum that failed.
Reduction(f, h) ==
    /\ CountedLoop(f, h)
    /\ Cardinality(FloatOps(f, h, "*")) = 1 /\ Cardinality(FloatOps(f, h, "+")) = 1
    /\ FloatOps(f, h, "-") \cup FloatOps(f, h, "/") = {}
    /\ Uses(f, Product(f, h).res) = 1 /\ Uses(f, Sum(f, h).res) = 1 /\ Product(f, h).res \in Range(Sum(f, h).of)
    /\ LET load == Accumulated(f, h)
       IN  /\ load.op = "load" /\ load \in Range(Here(f, Body(f, h))) /\ Uses(f, load.res) = 1
           /\ Update(f, h).op = "store" /\ Update(f, h).of[1] = Sum(f, h).res
           /\ private_accumulator(f, load, Update(f, h), Entry(f, h))
           /\ \A input \in Factors(f, h) : Factor(f, h, input)
           /\ \A o \in Range(Here(f, Body(f, h))) :
                \/ o.op = "constant"
                \/ o \in {Product(f, h), Sum(f, h), load, Update(f, h), Round(f, h, f.blocks[h].args[1])}
                           \cup Factors(f, h) \cup Accesses(f, h)

\* As many elements as an access may reach.
Capacity(a) == IF a.op = "array_element_address" THEN Fixed(a.lay.n) ELSE LengthOf(a.of[1])

\* The copy goes on behind the loop only with a finite sum.
ReductionVersion(v, h, load, accesses) ==
    LET f == v.f
        n == Len(f.blocks)
        r == Left(load.res)
        spared == Sparingly({a.res : a \in accesses} \cup {Round(f, h, f.blocks[h].args[1]).res}, {Product(f, h).res, Sum(f, h).res})
        copy == Versioned(v, <<h, Body(f, h)>>, Entry(f, h), SetToSeq({AtMost(Bound(f, h), 1, Capacity(a), 1) : a \in accesses}), spared)
    IN  [Leaving(copy, n + 1, <<[load EXCEPT !.res = r], Op("require_finite", "", <<r>>)>>) EXCEPT
            !.f.types = (r :> Float) @@ @, !.reduced = @ \cup {h, n + 1}]

version_gloin_float_reductions(v) ==
    FoldLeft(LAMBDA w, h : IF IsLoop(w.f, h) /\ Reduction(w.f, h) THEN ReductionVersion(w, h, Accumulated(w.f, h), Accesses(w.f, h)) ELSE w,
             v, [h \in DOMAIN v.f.blocks |-> h])

-----------------------------------------------------------------------------
(* Bounds of float values: nothing yet, from a number to another one, or   *)
(* nothing known.                                                          *)

Largest == 2
Bottom == [k |-> "bottom"]
Unknown == [k |-> "unknown"]
Interval(low, high) == IF {low, high} \subseteq -Largest..Largest THEN [k |-> "finite", low |-> low, high |-> high] ELSE Unknown
Symmetric(x) == Interval(-x, x)
Full == Symmetric(Largest)
Definite(b) == b.k = "finite"

Join(a, b) ==
    IF a.k = "unknown" \/ b.k = "bottom" THEN a
    ELSE IF b.k = "unknown" \/ a.k = "bottom" THEN b
    ELSE Interval(Smaller(a.low, b.low), Larger(a.high, b.high))
JoinAll(bounds) == FoldLeft(Join, Bottom, bounds)

IsNumber(f, x) == Definition(f, x).op = "constant" /\ f.types[x] = Float
Greatest(b) == Larger(Magnitude(b.low), Magnitude(b.high))

\* The result of an operation, by the magnitudes; a checked one did not come from anything that is not finite.
Binary(f, a, b, o, checked) ==
    LET constant_divisor == IsNumber(f, o.of[2]) /\ Definition(f, o.of[2]).n # 0
        known(c) == IF checked /\ c = Unknown /\ (o.kind # "/" \/ constant_divisor) THEN Full ELSE c
        x == known(a)
        y == known(b)
    IN  IF Bottom \in {x, y} THEN Bottom
        ELSE IF Unknown \in {x, y} \/ (o.kind = "/" /\ ~constant_divisor) THEN Unknown
        ELSE IF o.kind = "/" THEN Symmetric(Greatest(x) \div Magnitude(Definition(f, o.of[2]).n))
        ELSE Symmetric(Exact(IF o.kind = "*" THEN "*" ELSE "+", Greatest(x), Greatest(y)))

\* Conditions on a value and a number, by the block that ends with them.
Flipped == ("<" :> ">") @@ ("<=" :> ">=") @@ (">" :> "<") @@ (">=" :> "<=")
Guards(f) ==
    LET negation(b) == Definition(f, f.blocks[b].term.of[1])
        inverted(b) == negation(b).op = "xor" /\ Is(f, negation(b).of[2], 1)
        compare(b) == IF inverted(b) THEN Definition(f, negation(b).of[1]) ELSE negation(b)
        guard(b, i, kind) ==
            [at |-> b, of |-> compare(b).of[i], number |-> Definition(f, compare(b).of[3 - i]).n, kind |-> kind, inverted |-> inverted(b)]
        kind(b) == compare(b).kind
        tested == {b \in DOMAIN f.blocks : f.blocks[b].term.op = "cond_br" /\ compare(b).op = "checked_float_compare"}
    IN  {guard(b, 1, kind(b)) : b \in {c \in tested : IsNumber(f, compare(c).of[2])}}
        \cup {guard(b, 2, IF kind(b) \in DOMAIN Flipped THEN Flipped[kind(b)] ELSE kind(b)) :
                b \in {c \in tested : ~IsNumber(f, compare(c).of[2]) /\ IsNumber(f, compare(c).of[1])}}

\* A branch of a guard is the way to a block, or along an edge from one.
Taken(f, g, i, block, successor) ==
    LET to == f.blocks[g.at].term.to[i].to
    IN  \/ g.at = block /\ successor = to
        \/ Predecessors(f, to) = {g.at} /\ Dominates(f, to, block)

Refined(bound, kinds, number) ==
    LET low == IF kinds \cap {">", ">=", "=="} # {} THEN Larger(bound.low, number) ELSE bound.low
        high == IF kinds \cap {"<", "<=", "=="} # {} THEN Smaller(bound.high, number) ELSE bound.high
    IN  [bound EXCEPT !.low = low, !.high = high]

\* A guard narrows the bound of its value where one of its branches was taken.
Restricted(f, bound, g, block, successor) ==
    LET yes == Taken(f, g, 1, block, successor)
        no == Taken(f, g, 2, block, successor)
        against == ("<" :> {">="}) @@ ("<=" :> {">"}) @@ (">" :> {"<="}) @@ (">=" :> {"<"}) @@ ("==" :> {}) @@ ("!=" :> {})
    IN  IF yes = no \/ f.blocks[g.at].term.to[1].to = f.blocks[g.at].term.to[2].to THEN bound
        ELSE Refined(bound, IF yes # g.inverted THEN {g.kind} ELSE against[g.kind], g.number)

\* Bounds where a value is used: p is the function with its guards and storage.
BoundAt(p, bounds, x, block, successor) ==
    LET bound == bounds[x]
        narrowed == FoldLeft(LAMBDA b, g : Restricted(p.f, b, g, block, successor), bound,
                             SetToSeq({g \in p.guards : g.of = x}))
    IN  IF ~Definite(bound) \/ narrowed.low > narrowed.high THEN bound ELSE narrowed

\* Bounds of an operand: what is not the result of a check is frozen first, and no guard is about that.
BoundIn(p, bounds, x, block) ==
    IF Definition(p.f, x).op = "checked_float_binary" THEN BoundAt(p, bounds, x, block, 0) ELSE bounds[x]

-----------------------------------------------------------------------------
(* Arrays of floats of which every use is known.                           *)

RootUse(f, u, x, root) ==
    LET array == Definition(f, root).elay
        slice == Definition(f, x).op \in {"slice_from_array", "slice_subrange"}
        element == Definition(f, x).op \in {"array_element_address", "slice_element_address"}
    IN  \/ u.op = "store" /\ u.of[2] = x /\ u.of[1] # x /\ element /\ f.types[u.of[1]] = Float
        \/ /\ u.op = "store" /\ u.of[2] = x /\ x = root /\ f.types[u.of[1]] = array
           /\ Definition(f, u.of[1]).op \in {"zeroed_array", "array_literal", "repeat_array"}
        \/ u.op = "load" /\ element /\ f.types[u.res] = Float
        \/ u.op = "array_fill" /\ x = root /\ u.of[1] = x /\ u.lay = array /\ u.elay = Float
        \/ u.op = "array_element_address" /\ x = root /\ u.of[1] = x /\ u.lay = array
        \/ u.op = "slice_from_array" /\ x = root /\ u.of[1] = x /\ u.elay = array
        \/ u.op \in {"slice_subrange", "slice_element_address"} /\ slice /\ u.of[1] = x /\ u.elay = Float
        \/ u.op = "slice_length" /\ slice

\* u comes before w wherever w is.
Precedes(f, u, w) ==
    \E b, c \in DOMAIN f.blocks :
        /\ u \in Range(Here(f, b)) /\ w \in Range(Here(f, c))
        /\ IF b = c THEN Position(Here(f, b), u) < Position(Here(f, b), w) ELSE Dominates(f, b, c)

Loads(f, root) == {u \in Range(Operations(f)) : u.op = "load" /\ u.of[1] \in Derived(f, {root})}

discover_root(f, o) ==
    /\ o.op = "stack_alloc" /\ o.elay.k = "llvm.array" /\ o.elay.of = Float
    /\ \A x \in Derived(f, {o.res}) : ~EndUses(f, x) /\ \A u \in Users(f, x) : RootUse(f, u, x, o.res)
    /\ Loads(f, o.res) # {}
    /\ \A load \in Loads(f, o.res) : \E u \in Users(f, o.res) : Initializes(f, u, o.res) /\ Precedes(f, u, load)

\* The values that are written into an array, each with the block that does; "zero" for zeros.
Writes(f, root) ==
    LET written(u) ==
            LET x == IF u.op = "array_fill" THEN u.of[2] ELSE u.of[1]
                d == Definition(f, x)
            IN  IF d.op = "zeroed_array" THEN {"zero"} ELSE IF d.op \in {"array_literal", "repeat_array"} THEN Range(d.of) ELSE {x}
        writing(u) == u.op \in {"store", "array_fill"} /\ u.of[IF u.op = "store" THEN 2 ELSE 1] \in Derived(f, {root})
    IN  UNION {UNION {{<<x, b>> : x \in written(u)} : u \in {w \in Range(Here(f, b)) : writing(w)}} : b \in DOMAIN f.blocks}

\* The blocks of a loop, by its header.
Latches(f, h) == {p \in Predecessors(f, h) : Dominates(f, h, p)}
LoopBlocks(f, h) ==
    {h} \cup {b \in Reach(f, {1}, {}) \ {h} : \E latch \in Latches(f, h) : latch \in Reach(f, {b}, {h})}

\* The blocks that not every round of their innermost loop goes through: loops are the blocks, by header.
Skipped(f, loops) ==
    LET innermost(b, h) == b \in loops[h] /\ \A g \in DOMAIN loops : b \in loops[g] => Dominates(f, g, h)
    IN  UNION {{b \in loops[h] : innermost(b, h) /\ \E latch \in Latches(f, h) : ~Dominates(f, b, latch)} : h \in DOMAIN loops}

conditional_loop_blocks(f) ==
    Skipped(f, [h \in {g \in DOMAIN f.blocks : Latches(f, g) # {}} |-> LoopBlocks(f, h)])

FloatFacts(f) ==
    LET roots == {o.res : o \in {p \in Range(Operations(f)) : discover_root(f, p)}}
    IN  [f |-> f,
         skipped |-> conditional_loop_blocks(f),
         writes |-> [r \in roots |-> Writes(f, r)],
         loads |-> [x \in UNION {{u.res : u \in Loads(f, r)} : r \in roots} |-> CHOOSE r \in roots : x \in {u.res : u \in Loads(f, r)}],
         guards |-> IF roots = {} THEN {} ELSE Guards(f)]

-----------------------------------------------------------------------------

\* The edges to an argument of a block, if only branches go there.
Incoming(f, b, x) ==
    {<<f.blocks[q].term.to[i].with[Position(f.blocks[b].args, x)], q>> :
        <<q, i>> \in {r \in Predecessors(f, b) \X (1..2) : r[2] \in DOMAIN f.blocks[r[1]].term.to /\ f.blocks[r[1]].term.to[r[2]].to = b}}
OnlyBranches(f, b) ==
    b # 1 /\ Predecessors(f, b) # {} /\ \A q \in Predecessors(f, b) : f.blocks[q].term.op \in {"br", "cond_br", "versioned"}

evaluate(p, bounds, x) ==
    LET f == p.f
        b == CHOOSE b \in DOMAIN f.blocks : x \in Given(f, b)
        o == Definition(f, x)
        binary(checked) == Binary(f, BoundIn(p, bounds, o.of[1], b), BoundIn(p, bounds, o.of[2], b), o, checked)
        all(inputs, to) == JoinAll(SetToSeq({IF i[1] = "zero" THEN Interval(0, 0) ELSE BoundAt(p, bounds, i[1], i[2], to) : i \in inputs}))
    IN  CASE x \in DOMAIN p.writes -> all(p.writes[x], 0)
          [] x \in DOMAIN p.loads -> bounds[p.loads[x]]
          [] x \in Range(f.blocks[b].args) -> IF OnlyBranches(f, b) THEN all(Incoming(f, b, x), b) ELSE Unknown
          [] o.op = "constant" -> Interval(o.n, o.n)
          [] o.op = "checked_float_binary" -> LET bound == binary(TRUE) IN IF bound = Unknown THEN Full ELSE bound
          [] o.op = "arith" -> binary(FALSE)
          [] OTHER -> Unknown

RECURSIVE solve(_, _)
solve(p, bounds) ==
    LET next == [x \in DOMAIN bounds |-> Join(evaluate(p, bounds, x), bounds[x])]
    IN  IF next = bounds THEN bounds ELSE solve(p, next)

FloatValues(f) == {x \in UNION {Given(f, b) : b \in DOMAIN f.blocks} : f.types[x] = Float}
Solution(p) == solve(p, [x \in FloatValues(p.f) \cup DOMAIN p.writes |-> Bottom])

\* A check goes where no guard is needed, in every round of its loop.
Unchecked(p, bounds) ==
    LET safe(b, o) ==
            b \notin p.skipped /\ o.op = "checked_float_binary" /\ Definite(Binary(p.f, bounds[o.of[1]], bounds[o.of[2]], o, FALSE))
        operation(b, o) == [o EXCEPT !.op = IF safe(b, o) THEN "arith" ELSE @]
    IN  [p.f EXCEPT !.blocks = [b \in DOMAIN @ |-> [@[b] EXCEPT !.ops = [i \in DOMAIN @ |-> operation(b, @[i])]]]]

UncheckedWith(p) == Unchecked(p, Solution(p))
HasChecks(f) == \E o \in Range(Operations(f)) : o.op = "checked_float_binary"
remove_proven_gloin_float_checks(f) == IF HasChecks(f) THEN UncheckedWith(FloatFacts(f)) ELSE f

\* The checks that cannot fail, with the guards.
Proven(p, bounds) ==
    {o.res : o \in UNION {{q \in Range(Here(p.f, b)) :
        /\ q.op = "checked_float_binary"
        /\ Definite(Binary(p.f, BoundIn(p, bounds, q.of[1], b), BoundIn(p, bounds, q.of[2], b), q, FALSE))} : b \in DOMAIN p.f.blocks}}

ProvenWith(p) == Proven(p, Solution(p))
find_proven_gloin_float_checks(f) == ProvenWith(FloatFacts(f))

==============================================================================
