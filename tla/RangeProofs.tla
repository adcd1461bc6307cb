------------------------------ MODULE RangeProofs ------------------------------
(***************************************************************************)
(* Which checks need not be made (src/src/gir_range_proofs.cpp): unsigned  *)
(* arithmetic that stays in its width, and indices below their bound.  The *)
(* branches a block is only reached through give facts about values.       *)
(*                                                                         *)
(* A range asked for while it is being found is the whole range.  The code *)
(* also keeps what it found that way; here more is proved, never less.     *)
(***************************************************************************)
EXTENDS Lowering

\* The blocks of a function that are not in an arm of a match, and where they go.
Successors(f, b) ==
    LET e == f.blocks[b].term
    IN  IF e.op = "match" THEN {Last(e.to).to} ELSE IF e.op = "match_yield" THEN {} ELSE {edge.to : edge \in Range(e.to)}

RECURSIVE Reach(_, _, _)
Reach(f, from, without) ==
    LET more == (from \cup UNION {Successors(f, b) : b \in from}) \ without
    IN  IF more = from THEN from ELSE Reach(f, more, without)

Predecessors(f, b) == {p \in DOMAIN f.blocks : b \in Successors(f, p)}
Dominates(f, a, b) == a = b \/ b \notin Reach(f, {1} \ {a}, {a})

Unsigned(o, op) == o.op = op /\ ~o.signed

\* The first length of a slice stands for the others.
canonical(f, x) ==
    LET o == Definition(f, x)
        lengths == SelectSeq(Operations(f), LAMBDA p : p.op = "slice_length" /\ p.of = o.of)
    IN  IF o.op = "slice_length" THEN lengths[1].res ELSE x

maximum(f, x) == IF f.types[x].k = "int" THEN 2^f.types[x].bits - 1 ELSE 2^Word - 1

IsConstant(f, x) == Definition(f, x).op = "constant" /\ f.types[x].k = "int"
constant(f, x) == Definition(f, x).n % 2^f.types[x].bits

\* A value as another one and an offset: a chain of unsigned additions and subtractions.
RECURSIVE affine(_, _)
affine(f, x) ==
    LET o == Definition(f, x)
    IN  IF Unsigned(o, "checked_int_binary") /\ o.kind \in {"+", "-"} /\ IsConstant(f, o.of[2])
        THEN LET rest == affine(f, o.of[1])
             IN  [rest EXCEPT !.offset = @ + (IF o.kind = "+" THEN 1 ELSE -1) * constant(f, o.of[2])]
        ELSE [base |-> canonical(f, x), offset |-> 0]

Negation == ("<" :> ">=") @@ ("<=" :> ">") @@ (">" :> "<=") @@ (">=" :> "<") @@ ("==" :> "!=") @@ ("!=" :> "==")
\* The mutant: the sides change, and equality is lost.
Swapped_Strict == (">" :> "<") @@ (">=" :> "<")

Swapped == (">" :> "<") @@ (">=" :> "<=")

\* The fact in a condition that is true, or false.
RECURSIVE condition(_, _, _)
condition(f, x, truth) ==
    LET o == Definition(f, x)
        kind == IF truth THEN o.kind ELSE Negation[o.kind]
        lhs == canonical(f, o.of[1])
        rhs == canonical(f, o.of[2])
    IN  IF o.op = "xor" /\ IsConstant(f, o.of[2]) /\ constant(f, o.of[2]) = 1 THEN condition(f, o.of[1], ~truth)
        ELSE IF ~Unsigned(o, "checked_int_compare") THEN <<>>
        ELSE IF kind \in DOMAIN Swapped THEN <<[lhs |-> rhs, rhs |-> lhs, kind |-> Swapped[kind]]>>
        ELSE <<[lhs |-> lhs, rhs |-> rhs, kind |-> kind]>>

\* What holds in a block, in order: the conditions on the edges that are the only way to a
\* block before it.
Facts(f, b) ==
    LET branch(p) == f.blocks[p].term.op = "cond_br"
        only(p, to) == to # p /\ Predecessors(f, to) = {p} /\ Dominates(f, p, to) /\ Dominates(f, to, b)
        edge(p, i) ==
            LET e == f.blocks[p].term
            IN  IF e.to[1].to # e.to[2].to /\ only(p, e.to[i].to) THEN condition(f, e.of[1], i = 1) ELSE <<>>
    IN  FlattenSeq([p \in DOMAIN f.blocks |-> IF branch(p) THEN FlattenSeq([i \in 1..2 |-> edge(p, i)]) ELSE <<>>])

Smaller(x, y) == IF x < y THEN x ELSE y
Larger(x, y) == IF x < y THEN y ELSE x
Between(low, high) == [low |-> low, high |-> high]

\* The range of the result of unsigned arithmetic, from those of its operands.
Arithmetic(kind, a, b, limit) ==
    CASE kind = "+" /\ a.high + b.high <= limit -> Between(a.low + b.low, a.high + b.high)
      [] kind = "-" /\ a.low >= b.high -> Between(a.low - b.high, a.high - b.low)
      [] kind = "*" /\ a.high * b.high <= limit -> Between(a.low * b.low, a.high * b.high)
      [] kind = "/" /\ b.low > 0 -> Between(a.low \div b.high, a.high \div b.low)
      [] kind = "%" /\ b.low > 0 -> Between(0, Smaller(a.high, b.high - 1))
      [] OTHER -> Between(0, limit)

\* A range is narrowed by a fact about its value: a and b are the sides as offsets, l and r their ranges.
Narrowed(range, x, fact, a, b, l, r, known) ==
    LET strict == IF fact.kind = "<" THEN 1 ELSE 0
        upper == r.high - a.offset - strict
        lower == l.low - b.offset + strict
        other == IF fact.lhs = x THEN fact.rhs ELSE fact.lhs
        high == IF a.base = x /\ upper \in 0..2^Word - 1 THEN Smaller(range.high, upper) ELSE range.high
        low == IF b.base = x /\ lower \in 0..2^Word - 1 THEN Larger(range.low, lower) ELSE range.low
    IN  CASE fact.kind \in {"<", "<="} -> Between(low, high)
          [] fact.kind = "==" /\ fact.lhs = x -> Between(Larger(range.low, r.low), Smaller(range.high, r.high))
          [] fact.kind = "==" /\ fact.rhs = x -> Between(Larger(range.low, l.low), Smaller(range.high, l.high))
          [] fact.kind = "!=" /\ x \in {fact.lhs, fact.rhs} /\ range.low < range.high /\ other \in DOMAIN known ->
               Between(IF known[other] = range.low THEN range.low + 1 ELSE range.low,
                       IF known[other] = range.high THEN range.high - 1 ELSE range.high)
          [] OTHER -> range

Known(f, facts) ==
    [x \in {y \in UNION {{fact.lhs, fact.rhs} : fact \in Range(facts)} : IsConstant(f, y)} |-> constant(f, x)]

\* A constant part of an array has a known length.
Cut(f, slice, whole) ==
    LET start == constant(f, slice.of[2])
        end == constant(f, slice.of[3])
        known == slice.op = "slice_from_array" /\ IsConstant(f, slice.of[2]) /\ IsConstant(f, slice.of[3])
    IN  IF known /\ start <= end THEN Between(end - start, end - start) ELSE whole

Possible(found, whole) == IF found.low > found.high THEN whole ELSE found

RECURSIVE range(_, _, _, _), Ranged(_, _, _, _, _, _)
range(f, facts, y, busy) ==
    LET x == canonical(f, y) IN Ranged(f, facts, x, Definition(f, x), Between(0, maximum(f, x)), busy)

\* The range of a value from its operation, narrowed by the facts about it.
Ranged(f, facts, x, o, whole, busy) ==
    LET of(z) == range(f, facts, z, busy \cup {x})
        own == CASE o.op = "constant" -> Between(constant(f, x), constant(f, x))
                 [] o.op = "slice_length" -> Cut(f, Definition(f, o.of[1]), whole)
                 [] Unsigned(o, "checked_int_binary") -> Arithmetic(o.kind, of(o.of[1]), of(o.of[2]), whole.high)
                 [] OTHER -> whole
        narrow(found, fact) ==
            Narrowed(found, x, fact, affine(f, fact.lhs), affine(f, fact.rhs), of(fact.lhs), of(fact.rhs), Known(f, facts))
    IN  IF x \in busy THEN whole ELSE Possible(FoldLeft(narrow, own, facts), whole)

\* A fact, with its sides as offsets, shows that one value is less than another.
Follows(fact, x, y, a, b) ==
    /\ fact.kind \in {"<", "<="} /\ a.base = x.base /\ b.base = y.base
    /\ a.offset - b.offset < x.offset - y.offset + (IF fact.kind = "<" THEN 1 ELSE 0)

Less(f, facts, a, b) ==
    \/ a.base = b.base /\ a.offset < b.offset
    \/ \E fact \in Range(facts) : Follows(fact, affine(f, fact.lhs), affine(f, fact.rhs), a, b)

less(f, facts, lhs, rhs) ==
    range(f, facts, lhs, {}).high < range(f, facts, rhs, {}).low \/ Less(f, facts, affine(f, lhs), affine(f, rhs))

Stays(o, a, b, limit) ==
    \/ o.kind = "+" /\ a.high + b.high <= limit
    \/ o.kind = "-" /\ a.low >= b.high
    \/ o.kind = "*" /\ a.high * b.high <= limit
    \/ o.kind \in {"/", "%"} /\ b.low > 0

Proved(f, facts, o) ==
    CASE Unsigned(o, "checked_int_binary") ->
           Stays(o, range(f, facts, o.of[1], {}), range(f, facts, o.of[2], {}), maximum(f, o.res))
      [] o.op = "array_element_address" -> range(f, facts, o.of[2], {}).high < o.lay.n
      [] o.op = "slice_element_address" ->
           \E p \in Range(Operations(f)) :
              p.op = "slice_length" /\ p.of[1] = o.of[1] /\ less(f, facts, o.of[2], canonical(f, p.res))
      [] OTHER -> FALSE

\* The operations whose checks are proved.
prove_gloin_ranges(f) ==
    UNION {{o.res : o \in {p \in Range(f.blocks[b].ops) : Proved(f, Facts(f, b), p)}} : b \in Reach(f, {1}, {})}

================================================================================
