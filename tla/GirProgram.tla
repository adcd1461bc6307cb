------------------------------- MODULE GirProgram -------------------------------
(***************************************************************************)
(* A module of the intermediate representation is verified and lowered     *)
(* (verify_module and lower_to_llvm in src/src/lowering.cpp), then what it *)
(* means and what it became run side by side, one operation at a time.     *)
(***************************************************************************)
EXTENDS FloatBatches

CONSTANT Programs       \* modules, each with the inputs it runs on

VARIABLES
    program,            \* the module
    stage,              \* the pass that is next, or how the compilation ended
    code,               \* what the module has become
    proofs,             \* the results of the operations whose checks are proved
    origin,             \* what the loops that were copied are copies of, and which of them are reductions
    ref,                \* a run of the module, by what its operations mean
    low                 \* the same run of what it became

vars == <<program, stage, code, proofs, origin, ref, low>>

Idle == Start(<<>>, <<>>)

\* The blocks, by the blocks they were copied from; 0 if there is none.
Original(f) == [blocks |-> [b \in DOMAIN f.blocks |-> b], values |-> <<>>, reduced |-> {}]

Init ==
    /\ program \in Programs
    /\ stage = "verify"
    /\ code = program.code
    /\ proofs = {} /\ origin = Original(program.code)
    /\ ref = Idle /\ low = Idle

-----------------------------------------------------------------------------
(* The verifier runs before the passes and after each of them.             *)

SourceOf(f, o) ==
    IF o.op # "from_layout" THEN None
    ELSE LET d == Definition(f, o.of[1]) IN IF d.op = "to_layout" THEN f.types[d.of[1]] ELSE None

OperationVerified(f, o) == o.op = "gone" \/ Verified(o, Results(f, o), Types(f, o.of), f, SourceOf(f, o))

Passes(f, edge) == Types(f, edge.with) = Types(f, f.blocks[edge.to].args)
Bare(f, edges) == \A i \in DOMAIN edges : f.blocks[edges[i].to].args = <<>>

\* The arms of the match whose value a block yields.
MatchYield(f, e) == Types(f, e.of) = Types(f, f.blocks[e.to[1].to].args)

EndVerified(f, e) ==
    CASE e.op = "switch" -> Bare(f, e.to) /\ SwitchOp(e, Types(f, e.of))
      [] e.op = "match" -> Bare(f, Front(e.to)) /\ MatchOp(e, Types(f, e.of), f.types[f.blocks[Last(e.to).to].args[1]])
      [] e.op = "match_yield" -> MatchYield(f, e)
      [] e.op = "cond_br" -> Types(f, e.of) = <<Bool>> /\ \A i \in 1..2 : Passes(f, e.to[i])
      [] e.op = "br" -> Passes(f, e.to[1])
      [] e.op = "return" -> Types(f, e.of) = f.functions["main"].gives

verify_module(f) ==
    /\ \A name \in DOMAIN f.structs : StructDefinition(f.structs[name])
    /\ Types(f, f.blocks[1].args) = f.functions["main"].takes
    /\ \A b \in Range(f.blocks) : EndVerified(f, b.term) /\ \A o \in Range(b.ops) : OperationVerified(f, o)

-----------------------------------------------------------------------------
(* lower_to_llvm: one pass after the other, each verified.                 *)

Rejected == stage' = "rejected" /\ UNCHANGED <<code, proofs, origin, ref, low>>

Verify ==
    /\ stage = "verify"
    /\ IF verify_module(code) /\ check_legality(code) THEN stage' = "prune" /\ UNCHANGED <<code, proofs, origin, ref, low>> ELSE Rejected
    /\ UNCHANGED program

\* A pass gives the next code, unless the verifier objects.
Passed(from, f, to) ==
    /\ stage = from
    /\ code' = f
    /\ stage' = IF verify_module(f) THEN to ELSE "failed"
    /\ UNCHANGED <<program, proofs, origin, ref, low>>

Prune == Passed("prune", [code EXCEPT !.functions = PruneGloinFunctions(@)], "prepare")
Prepare == Passed("prepare", PrepareGloinValues(code), "signatures")
LowerSignatures == Passed("signatures", LowerGloinSignatures(code), "core")

\* The passes within LowerGloinCore, one after the other, and nothing is verified between.
Then(f, to) == code' = f /\ stage' = to /\ UNCHANGED <<program, ref, low>>

PromoteLocals ==
    /\ stage = "core"
    /\ Then(PromoteAllocation(code, FALSE), "ranges")
    /\ UNCHANGED <<proofs, origin>>

ProveRanges ==
    /\ stage = "ranges"
    /\ proofs' = prove_gloin_ranges(code)
    /\ Then(code, "reductions")
    /\ UNCHANGED origin

Unversioned == [f |-> code, proofs |-> proofs, blocks |-> origin.blocks, values |-> origin.values, reduced |-> origin.reduced]
Version(v, to) ==
    /\ proofs' = v.proofs
    /\ origin' = [blocks |-> v.blocks, values |-> v.values, reduced |-> v.reduced]
    /\ Then(v.f, to)

VersionReductions == stage = "reductions" /\ \E v \in {version_gloin_float_reductions(Unversioned)} : Version(v, "slices")
VersionSlices == stage = "slices" /\ \E v \in {version_slice_loops(Unversioned)} : Version(v, "groups")
VersionGroups == stage = "groups" /\ \E v \in {version_strided_slice_loops(Unversioned)} : Version(v, "floats")

PromoteFloats ==
    /\ stage = "floats"
    /\ Then(PromoteAllocation(code, TRUE), "bounds")
    /\ UNCHANGED <<proofs, origin>>

RemoveChecks ==
    /\ stage = "bounds"
    /\ Then(remove_proven_gloin_float_checks(code), "checks")
    /\ UNCHANGED <<proofs, origin>>

CombineChecks ==
    /\ stage = "checks"
    /\ Then(combine_gloin_float_checks(code), "batches")
    /\ UNCHANGED <<proofs, origin>>

VersionBatches == stage = "batches" /\ \E v \in {version_gloin_float_batches(Unversioned)} : Version(v, "replace")

LowerCore ==
    /\ stage = "replace"
    /\ stage' = IF FinallyLegal(code) /\ \A o \in Range(Operations(code)) : ~Unsized(o) THEN "lowered" ELSE "failed"
    /\ UNCHANGED <<program, code, proofs, origin, ref, low>>

-----------------------------------------------------------------------------
(* Running.                                                                *)

Begin ==
    /\ stage = "lowered"
    /\ stage' = "run"
    /\ \E input \in program.inputs :
         ref' = Start(input.env, input.mem) /\ low' = Bind(Start(input.env, input.mem), "undefined", Blank)
    /\ UNCHANGED <<program, code, proofs, origin>>

Values(s, names) == [i \in DOMAIN names |-> s.env[names[i]]]
After(s, t) == IF t.end # "" THEN t ELSE [t EXCEPT !.at = <<s.at[1], s.at[2] + 1>>]

\* Control goes along an edge with the values it passes.
Follow(s, f, edge) ==
    LET args == f.blocks[edge.to].args
        passed == [x \in Range(args) |-> s.env[edge.with[CHOOSE i \in DOMAIN args : args[i] = x]]]
    IN  [s EXCEPT !.at = <<edge.to, 1>>, !.env = passed @@ @]

\* A selection takes the arm whose key fits, or that of the default.
Selected(s, e) ==
    LET v == s.env[e.of[1]]
        fitting == {i \in DOMAIN e.keys : e.keys[i] # Default /\ Matching(s, v, e.src, e.keys[i])}
        others == {i \in DOMAIN e.keys : e.keys[i] = Default}
    IN  IF fitting # {} THEN CHOOSE i \in fitting : TRUE ELSE IF others # {} THEN CHOOSE i \in others : TRUE ELSE Len(e.to)

\* A loop runs in the version without checks if all the tests hold.
Extent(s, x) == CASE x.k = "value" -> s.env[x.of].n [] x.k = "length" -> s.env[x.of].of[2].n [] x.k = "number" -> x.n
Holds(s, tests) == \A t \in Range(tests) : Extent(s, t.left) \div t.by <= Extent(s, t.right) \div t.of

\* The flag of a version that has one.
Raised(s, flag) == [s EXCEPT !.env = [x \in Range(flag) |-> Truth(TRUE)] @@ @]

Chosen(s, f, e, selected) ==
    CASE e.op = "return" -> [Ended(s, "return") EXCEPT !.calls = Append(@, <<"return", Values(s, e.of)>>)]
      [] e.op = "cond_br" -> Follow(s, f, e.to[IF s.env[e.of[1]].n = 1 THEN 1 ELSE 2])
      [] e.op \in {"br", "match_yield"} -> Follow(s, f, e.to[1])
      [] e.op = "versioned" -> Follow(Raised(s, e.of), f, e.to[IF Holds(s, e.keys) THEN 1 ELSE 2])
      [] e.op = "switch" -> Follow(s, f, e.to[selected])
      [] e.op = "match" -> IF selected = Len(e.to) THEN Ended(s, "trap") ELSE Follow(s, f, e.to[selected])

Selects(e) == e.op \in {"switch", "match"}

\* What the module means, and what it became, at the place where both are.
MeaningStep(s, f) ==
    LET b == f.blocks[s.at[1]]
        e == b.term
        o == b.ops[s.at[2]]
        t == IF o.op = "store" THEN Layout(f.types[o.of[1]], f.structs) ELSE Layout(Results(f, o), f.structs)
    IN  IF s.at[2] <= Len(b.ops) THEN After(s, Meaning(s, o, Values(s, o.of), t))
        ELSE IF Selects(e) /\ ~Readable(s, s.env[e.of[1]], e.src) THEN Ended(s, "undefined")
        ELSE Chosen(s, f, e, IF Selects(e) THEN Selected(s, e) ELSE 0)

LoweredStep(s, f) ==
    LET b == f.blocks[s.at[1]]
        e == b.term
        o == b.ops[s.at[2]]
        d == IF o.of = <<>> THEN Plain ELSE Definition(f, o.of[1])
    IN  IF s.at[2] <= Len(b.ops)
        THEN After(s, LowerGloinCore(s, o, Values(s, o.of), Results(f, o), Types(f, o.of), o.res \in proofs, d))
        ELSE Chosen(s, f, e, IF e.op = "switch" THEN LowerSwitch(s, s.env[e.of[1]], e)
                             ELSE IF e.op = "match" THEN LowerMatch(s, s.env[e.of[1]], e) ELSE 0)

\* A block that is in no other version runs alone.
Apart == low.end = "" /\ origin.blocks[low.at[1]] = 0

Step ==
    /\ stage = "run" /\ ref.end # "undefined" /\ "" \in {ref.end, low.end}
    /\ ref' = IF ref.end = "" /\ ~Apart THEN MeaningStep(ref, program.code) ELSE ref
    /\ low' = IF low.end = "" THEN LoweredStep(low, code) ELSE low
    /\ UNCHANGED <<program, stage, code, proofs, origin>>

Next == Verify \/ Prune \/ Prepare \/ LowerSignatures \/ PromoteLocals \/ ProveRanges
        \/ VersionReductions \/ VersionSlices \/ VersionGroups \/ PromoteFloats \/ RemoveChecks \/ CombineChecks \/ VersionBatches \/ LowerCore \/ Begin \/ Step

Spec == Init /\ [][Next]_vars

-----------------------------------------------------------------------------

\* After a trap nobody sees the storage of the function.
Frame == IF ref.end = "trap" THEN {o.res : o \in Range(Operations(code))} ELSE {}

\* The bytes of two memories agree wherever the meaning of the program has one.
SameMemory ==
    \A x \in DOMAIN low.mem \ Frame : \A i \in DOMAIN low.mem[x].cells : ref.mem[x].cells[i] \in {Blank, low.mem[x].cells[i]}

\* A value has the layout of its type, if there was one in the storage it comes from.
WellShaped == \A x \in DOMAIN low.env \cap DOMAIN code.types : low.env[x] = Blank \/ Shaped(low.env[x], code.types[x])

\* The values that the block has so far: a copy has those of what it was copied from.
Stem(x) == IF x \in DOMAIN origin.values THEN origin.values[x] ELSE x
SameValues ==
    LET b == code.blocks[low.at[1]]
        here == Range(b.args) \cup {b.ops[i].res : i \in {j \in DOMAIN b.ops : j < low.at[2]}}
    IN  \A x \in here : (x \in DOMAIN low.env /\ Stem(x) \in DOMAIN ref.env) => low.env[x] = ref.env[Stem(x)]

\* A float operation without its check failed, and what comes behind it shows it.
Late == ref.end = "trap" /\ "arith" \in {o.op : o \in Range(Operations(code))}
Alike ==
    IF Late THEN low.end \in {"", "trap"}
    ELSE /\ IF Apart THEN ref.at = <<origin.blocks[code.blocks[low.at[1]].term.to[1].to], 1>>
            ELSE ref.at = <<origin.blocks[low.at[1]], low.at[2]>>
         /\ ref.end = low.end /\ SameValues

\* What the compiler accepts is lowered, and does what the checked operations mean: it
\* reaches the same blocks with the same values in the layouts of their types, leaves
\* the same bytes in memory, makes the same calls with the same values, and stops with a
\* trap at the same operation or not at all (src/src/lowering.cpp and the passes it runs:
\* a check is dropped where its operation is proved in range, where a test before the loop
\* shows that it holds in every round, or where a later float operation or a flag behind
\* the loop makes it; storage becomes values; a constant or an operand replaces an
\* operation, a repetition moves to the store, and unused operations and functions go).
MeaningKept ==
    /\ stage # "failed"
    /\ (stage = "run" /\ ref.end # "undefined") => Alike /\ low.calls = ref.calls /\ SameMemory /\ WellShaped

=============================================================================
