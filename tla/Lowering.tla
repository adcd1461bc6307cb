-------------------------------- MODULE Lowering --------------------------------
(***************************************************************************)
(* How checked code becomes LLVM code (src/src/lowering.cpp and            *)
(* selection_lowering.cpp): what is legal, the preparation of values, the  *)
(* layouts that replace the source types, and the instructions that        *)
(* replace every operation, written as what they do to the state.          *)
(*                                                                         *)
(* The code under lowering is the main function's blocks and the type of   *)
(* every name in it, with the structs, the functions and the runtime.      *)
(***************************************************************************)
EXTENDS GloinDialect

Gone == [Plain EXCEPT !.op = "gone"]
Types(f, names) == [i \in DOMAIN names |-> f.types[names[i]]]

\* The operations of a function, in order, and the one that gives a name.
Operations(f) == FlattenSeq([b \in DOMAIN f.blocks |-> f.blocks[b].ops])
Definition(f, x) ==
    LET found == {o \in Range(Operations(f)) : o.res = x} IN IF x = "" \/ found = {} THEN Plain ELSE CHOOSE o \in found : TRUE

-----------------------------------------------------------------------------
(* What may be lowered: the rules for a checked module, by operation.  r is *)
(* the type of the result and a those of the operands.                      *)

\* Source types in a signature need matching layouts.
LegalSignature(f) ==
    LET fits(types, layouts) ==
            Len(types) = Len(layouts) /\ \A i \in DOMAIN types : matches_storage(types[i], layouts[i]) /\ IsLayout(layouts[i])
    IN  fits(f.takes, f.layTakes) /\ fits(f.gives, f.layGives)

LegalValue(o, r, a) ==
    /\ o.op \in {"enum_constant", "array_literal", "repeat_array", "struct_literal", "zeroed_array", "string_literal"} => r = o.src
    /\ o.op = "enum_compare" => a = <<o.src, o.src>>
    /\ o.op = "extract_field" => a[1] = o.src /\ r = o.esrc

LegalPointer(o, r, a) ==
    /\ o.op = "null" => r = o.src
    /\ o.op \in {"arena_typed_pointer", "raw_place"} => r = o.src /\ IsPtr(a[1])
    /\ o.op = "raw_padding" => IsPtr(a[1])
    /\ o.op = "pointer_offset" => a[1] = o.src /\ r = o.src
    /\ o.op = "require_nonnull" => a[1] = o.src /\ IsPtr(r)
    /\ o.op = "pointer_compare" => a = <<o.src, o.src>>

LegalAddress(o, r, a) ==
    /\ o.op = "stack_alloc" => IsPtr(r)
    /\ o.op \in {"field_address", "array_element_address"} => IsPtr(a[1]) /\ IsPtr(r)
    /\ o.op \in {"slice_from_array", "slice_from_pointer"} => IsPtr(a[1]) /\ r = o.src
    /\ o.op = "slice_subrange" => a[1] = o.src /\ r = o.src
    /\ o.op = "slice_element_address" => a[1] = o.src /\ IsPtr(r)
    /\ o.op = "slice_length" => a[1] = o.src
    /\ o.op = "arena_fill" => a[1] = o.src /\ a[2] = o.esrc
    /\ o.op = "load" => r = o.src /\ IsPtr(a[1])

LegalOutcome(o, r, a) ==
    /\ o.op = "case_test" => a[1] = o.src
    /\ o.op = "error_literal" => a[1] = String /\ r = Error
    /\ o.op = "result_success" => IsResult(r)
    /\ o.op \in {"error_message", "error_code", "error_os_error"} => a[1] = Error
    /\ o.op = "result_failure" => IsResult(r) /\ a[1] = Error
    /\ o.op \in {"result_is_error", "result_value", "result_error"} => IsResult(a[1])
    /\ o.op = "store" => a[1] = o.src /\ IsPtr(a[2])
    /\ o.op = "array_fill" => IsPtr(a[1]) /\ a[2] = o.esrc

LegalSelection(f, e) ==
    /\ e.op \in {"switch", "match"} => f.types[e.of[1]] = e.src
    /\ e.op = "match" => f.types[f.blocks[Last(e.to).to].args[1]] = e.esrc

Results(f, o) == IF o.res = "" THEN None ELSE f.types[o.res]

LegalOperation(f, o) ==
    LET r == Results(f, o)
        a == Types(f, o.of)
    IN  LegalValue(o, r, a) /\ LegalPointer(o, r, a) /\ LegalAddress(o, r, a) /\ LegalOutcome(o, r, a)

check_legality(f) ==
    /\ \A g \in DOMAIN f.functions : LegalSignature(f.functions[g])
    /\ \A o \in Range(Operations(f)) : LegalOperation(f, o)
    /\ \A b \in Range(f.blocks) : LegalSelection(f, b.term)

\* In the end everything has a layout.
FinallyLegal(f) == \A x \in DOMAIN f.types : IsLayout(f.types[x])

-----------------------------------------------------------------------------
(* Functions nothing calls are dropped.                                    *)

RECURSIVE Reached(_, _)
Reached(functions, live) ==
    LET more == live \cup (UNION {Range(functions[g].calls) : g \in live} \cap DOMAIN functions)
    IN  IF more = live THEN live ELSE Reached(functions, more)

Roots == {"main", "gloin_process_arguments_push", "gloin_process_arguments_pop"}
PruneGloinFunctions(functions) == [g \in Reached(functions, Roots \cap DOMAIN functions) |-> functions[g]]

-----------------------------------------------------------------------------
(* Preparation.                                                            *)

\* The value an array is filled with, and its types.
RECURSIVE Innermost(_, _)
Innermost(f, o) ==
    LET d == Definition(f, o.of[1])
    IN  IF d.op = "repeat_array" THEN Innermost(f, d) ELSE [of |-> o.of[1], esrc |-> o.src.of, elay |-> o.lay.of]

PrepareArrayStore(f, o) ==
    LET repeat == Definition(f, o.of[1])
        inner == Innermost(f, repeat)
    IN  IF o.op # "store" \/ repeat.op # "repeat_array" THEN o
        ELSE [Op("array_fill", "", <<o.of[2], inner.of>>) EXCEPT !.src = o.src, !.lay = repeat.lay, !.esrc = inner.esrc,
                                                                !.elay = inner.elay]

\* What an operation becomes: itself, a constant, or one of its operands.
Constantly(o, x) == [Op("constant", o.res, <<>>) EXCEPT !.n = x]
Copy(o, x) == Op("copy", o.res, <<x>>)

Folded(o, bits, x, y) ==
    LET a == Decode(Number(bits, x), o.signed)
        b == Decode(Number(bits, y), o.signed)
    IN  IF o.kind \in {"/", "%"}
        THEN IF b = 0 \/ (o.signed /\ a = -(2^(bits - 1)) /\ b = -1) THEN o ELSE Constantly(o, Exact(o.kind, a, b) % 2^bits)
        ELSE IF Fits(bits, o.signed, Exact(o.kind, a, b)) THEN Constantly(o, Exact(o.kind, a, b) % 2^bits) ELSE o

SimplifyCheckedIntegerBinary(f, o) ==
    LET bits == f.types[o.res].bits
        l == Definition(f, o.of[1])
        r == Definition(f, o.of[2])
        is(d, n) == d.op = "constant" /\ d.n % 2^bits = n
    IN  IF l.op = "constant" /\ r.op = "constant" THEN Folded(o, bits, l.n, r.n)
        ELSE IF (is(r, 0) /\ o.kind \in {"+", "-"}) \/ (is(r, 1) /\ o.kind \in {"*", "/"}) THEN Copy(o, o.of[1])
        ELSE IF (is(l, 0) /\ o.kind = "+") \/ (is(l, 1) /\ o.kind = "*") THEN Copy(o, o.of[2])
        ELSE IF (o.kind = "*" /\ (is(l, 0) \/ is(r, 0))) \/ (o.kind = "%" /\ is(r, 1)) THEN Constantly(o, 0)
        ELSE o

Rewritten(f, o) == IF o.op = "checked_int_binary" THEN SimplifyCheckedIntegerBinary(f, o) ELSE PrepareArrayStore(f, o)

\* A name is replaced wherever it is used.
Renamed(f, from, to) ==
    LET other(x) == IF x = from THEN to ELSE x
        all(names) == [i \in DOMAIN names |-> other(names[i])]
        edge(e) == [e EXCEPT !.with = all(@)]
        block(b) == [b EXCEPT !.ops = [i \in DOMAIN @ |-> [@[i] EXCEPT !.of = all(@)]],
                              !.term = [@ EXCEPT !.of = all(@), !.to = [i \in DOMAIN @ |-> edge(@[i])]]]
    IN  [f EXCEPT !.blocks = [b \in DOMAIN @ |-> block(@[b])]]

Places(f) == FlattenSeq([b \in DOMAIN f.blocks |-> [i \in DOMAIN f.blocks[b].ops |-> <<b, i>>]])
At(f, p) == f.blocks[p[1]].ops[p[2]]
With(f, p, o) ==
    IF o.op = "copy" THEN Renamed([f EXCEPT !.blocks[p[1]].ops[p[2]] = Gone], o.res, o.of[1])
    ELSE [f EXCEPT !.blocks[p[1]].ops[p[2]] = o]

Impure == {"abi_call", "call", "case_test", "assert", "checked_int_binary", "checked_float_binary", "require_finite", "array_fill",
           "result_value", "result_error", "arena_typed_pointer", "raw_place", "pointer_offset", "require_nonnull",
           "array_element_address", "slice_from_array", "slice_from_pointer", "slice_subrange", "slice_element_address",
           "arena_fill", "stack_alloc", "load", "store"}

Used(f) == UNION {Range(o.of) : o \in Range(Operations(f))}
           \cup UNION {Range(b.term.of) \cup UNION {Range(e.with) : e \in Range(b.term.to)} : b \in Range(f.blocks)}

\* What has no effect and is not used goes, the last first.
Trimmed(f) ==
    FoldRight(LAMBDA p, g : IF At(g, p).op \in Impure \/ At(g, p).res \in Used(g) THEN g ELSE With(g, p, Gone), Places(f), f)

PrepareGloinValues(f) == Trimmed(FoldLeft(LAMBDA g, p : With(g, p, Rewritten(g, At(g, p))), f, Places(f)))

-----------------------------------------------------------------------------
(* Layouts replace the source types.                                       *)

Laid == {"enum_constant", "array_literal", "repeat_array", "struct_literal", "zeroed_array", "string_literal", "error_literal",
         "error_message", "result_success", "result_failure", "result_value", "result_error", "slice_from_array",
         "slice_from_pointer", "slice_subrange", "load"}
Addressing == {"null", "arena_typed_pointer", "raw_place", "pointer_offset", "require_nonnull", "stack_alloc", "field_address",
               "array_element_address", "slice_element_address"}

LoweredType(f, o, r) ==
    CASE o.op \in Laid -> o.lay
      [] o.op \in Addressing -> Pointer
      [] o.op = "extract_field" -> o.lay.parts[o.n + 1]
      [] o.op = "call" -> f.functions[o.kind].layGives[1]
      [] OTHER -> r

\* The types after the pass: of results, of what a match gives and of what the function takes.
Retyped(f) ==
    LET matches == {b \in Range(f.blocks) : b.term.op = "match"}
        taken == f.blocks[1].args
        givenBy(b) == f.blocks[Last(b.term.to).to].args[1]
    IN  [x \in DOMAIN f.types |->
            IF x \in Range(taken) THEN f.functions["main"].layTakes[CHOOSE i \in DOMAIN taken : taken[i] = x]
            ELSE IF \E b \in matches : givenBy(b) = x THEN (CHOOSE b \in matches : givenBy(b) = x).term.elay
            ELSE LoweredType(f, Definition(f, x), f.types[x])]

\* A bridge between a type and its layout gives way to its operand.
Bridged(f) ==
    FoldLeft(LAMBDA g, p : IF At(g, p).op \in {"from_layout", "to_layout"} THEN With(g, p, Copy(At(g, p), At(g, p).of[1])) ELSE g,
             f, Places(f))

Live(f) == {o.res : o \in Range(Operations(f))} \cup UNION {Range(b.args) : b \in Range(f.blocks)}

Signature(g) == [g EXCEPT !.takes = g.layTakes, !.gives = g.layGives]

LowerGloinSignatures(f) ==
    LET g == Bridged([f EXCEPT !.types = Retyped(f)])
    IN  [g EXCEPT !.types = [x \in Live(g) \ {""} |-> @[x]], !.structs = <<>>,
                  !.functions = [h \in DOMAIN @ |-> Signature(@[h])]]

-----------------------------------------------------------------------------
(* Instructions.                                                           *)

\* Wrapping arithmetic, and comparison by a predicate.
ArithI(kind, signed, x, y) == Number(x.bits, Exact(kind, Decode(x, signed), Decode(y, signed)))
Overflows(kind, signed, x, y) == ~Fits(x.bits, signed, Exact(kind, Decode(x, signed), Decode(y, signed)))

CmpI(predicate, x, y) ==
    CASE predicate = "eq" -> x = y
      [] predicate = "ne" -> x # y
      [] predicate = "slt" -> Signed(x) < Signed(y)
      [] predicate = "sle" -> Signed(x) <= Signed(y)
      [] predicate = "sgt" -> Signed(x) > Signed(y)
      [] predicate = "sge" -> Signed(x) >= Signed(y)
      [] predicate = "ult" -> x.n < y.n
      [] predicate = "ule" -> x.n <= y.n
      [] predicate = "ugt" -> x.n > y.n
      [] predicate = "uge" -> x.n >= y.n

CmpF(predicate, x, y) ==
    IF NaN \in {x, y} THEN predicate = "une"
    ELSE CASE predicate = "oeq" -> x = y
           [] predicate \in {"une", "one"} -> x # y
           [] predicate = "olt" -> x.n < y.n
           [] predicate = "ole" -> x.n <= y.n
           [] predicate = "ogt" -> x.n > y.n
           [] predicate = "oge" -> x.n >= y.n

ArithF(kind, x, y) ==
    LET sum == IF kind = "-" THEN x.n - y.n ELSE x.n + y.n
    IN  IF NaN \in {x, y} \/ (kind = "/" /\ x.n = 0 /\ y.n = 0) THEN NaN
        ELSE IF IsFinite(x) /\ IsFinite(y) THEN IF kind = "/" /\ y.n = 0 THEN Infinite ELSE Real(Exact(kind, x.n, y.n))
        ELSE IF kind = "/" THEN IF IsFinite(x) THEN Real(0) ELSE IF IsFinite(y) THEN x ELSE NaN
        ELSE IF kind = "*" THEN IF x.n = 0 \/ y.n = 0 THEN NaN ELSE Infinite
        ELSE IF IsFinite(x) THEN y ELSE IF IsFinite(y) THEN x ELSE IF Real(sum) = Real(0) THEN NaN ELSE Infinite

Extract(v, i) == v.of[i + 1]
Insert(v, i, part) == [v EXCEPT !.of[i + 1] = part]

\* The place of an element, of an element of an array, of a field.
Gep(l, base, i) == Moved(base, Signed(i) * Size(l))
GepField(l, base, i) == Moved(base, Measure(l).at[i + 1])

Memset(s, a, byte, n) == Repeated(s, a, Byte, byte, n)

-----------------------------------------------------------------------------
(* Numbers.  s is the state, o the operation, v the values of its operands, *)
(* t the type of its result.                                                *)

LowerGloinConstant(s, o, t) == Bind(s, o.res, Literal(t, o.n))

\* The block ends; what follows is only reached if the condition holds.
LowerGloinAssert(s, condition, next) == IF condition THEN next ELSE Ended(s, "trap")

LowerExactIntegerWiden(s, o, v, t) ==
    Bind(s, o.res, IF o.signed THEN Number(t.bits, Signed(v[1])) ELSE Number(t.bits, v[1].n))

\* A proof spares the checks, and is only given without a sign.
LowerCheckedIntegerBinary(s, o, v, proven) ==
    LET x == v[1]
        y == v[2]
        zero == Number(y.bits, 0)
        minimum == Number(x.bits, 2^(x.bits - 1))
        minusOne == Number(y.bits, 2^y.bits - 1)
        divides == o.kind \in {"/", "%"}
    IN  IF proven THEN IF divides /\ y = zero THEN Ended(s, "fault") ELSE Bind(s, o.res, ArithI(o.kind, FALSE, x, y))
        ELSE LowerGloinAssert(s, IF divides THEN CmpI("ne", y, zero) ELSE ~Overflows(o.kind, o.signed, x, y),
             LowerGloinAssert(s, (divides /\ o.signed) => CmpI("ne", x, minimum) \/ CmpI("ne", y, minusOne),
             Bind(s, o.res, ArithI(o.kind, o.signed, x, y))))

LowerCheckedIntegerCompare(s, o, v) ==
    LET predicate == CASE o.kind = "==" -> "eq"
                       [] o.kind = "!=" -> "ne"
                       [] o.kind = "<" -> IF o.signed THEN "slt" ELSE "ult"
                       [] o.kind = "<=" -> IF o.signed THEN "sle" ELSE "ule"
                       [] o.kind = ">" -> IF o.signed THEN "sgt" ELSE "ugt"
                       [] o.kind = ">=" -> IF o.signed THEN "sge" ELSE "uge"
    IN  Bind(s, o.res, Truth(CmpI(predicate, v[1], v[2])))

\* A number is finite between the largest one and its opposite.
LowerRequireFinite(s, x, next) ==
    LowerGloinAssert(s, CmpF("oge", x, Real(-2)) /\ CmpF("ole", x, Real(2)), next)

LowerCheckedFloatBinary(s, o, v) ==
    LET result == ArithF(o.kind, v[1], v[2])
    IN  LowerGloinAssert(s, o.kind = "/" => CmpF("one", v[2], Real(0)),
                         LowerRequireFinite(s, result, Bind(s, o.res, result)))

LowerCheckedFloatCompare(s, o, v) ==
    LET predicate == CASE o.kind = "==" -> "oeq"
                       [] o.kind = "!=" -> "une"
                       [] o.kind = "<" -> "olt"
                       [] o.kind = "<=" -> "ole"
                       [] o.kind = ">" -> "ogt"
                       [] o.kind = ">=" -> "oge"
    IN  Bind(s, o.res, Truth(CmpF(predicate, v[1], v[2])))

LowerEnumConstant(s, o) == Bind(s, o.res, Insert(Zero(o.lay), 0, Number(Narrow, o.n)))

LowerEnumCompare(s, o, v) ==
    Bind(s, o.res, Truth(CmpI(IF o.kind = "!=" THEN "ne" ELSE "eq", Extract(v[1], 0), Extract(v[2], 0))))

-----------------------------------------------------------------------------
(* Errors and results.                                                     *)

LowerErrorLiteral(s, o, v) == Bind(s, o.res, Insert(Insert(Insert(Zero(o.lay), 0, v[1]), 1, v[2]), 2, v[3]))

LowerErrorMessage(s, o, v) == Bind(s, o.res, Extract(v[1], 0))

LowerErrorCode(s, o, v) == Bind(s, o.res, Extract(v[1], IF o.op = "error_code" THEN 1 ELSE 2))

LowerResultSuccess(s, o, v) == Bind(s, o.res, IF v = <<>> THEN Zero(o.lay) ELSE Insert(Zero(o.lay), 1, v[1]))

LowerResultFailure(s, o, v) ==
    Bind(s, o.res, Insert(Insert(Zero(o.lay), 0, Truth(TRUE)), Len(o.lay.parts) - 1, v[1]))

LowerResultIsError(s, o, v) == Bind(s, o.res, Extract(v[1], 0))

LowerResultValue(s, o, v) ==
    LowerGloinAssert(s, CmpI("eq", Extract(v[1], 0), Truth(FALSE)), Bind(s, o.res, Extract(v[1], 1)))

\* The error is the last part of the outcome's layout.
LowerResultError(s, o, v, outcome) ==
    LowerGloinAssert(s, Extract(v[1], 0) = Truth(TRUE), Bind(s, o.res, Extract(v[1], Len(outcome.parts) - 1)))

-----------------------------------------------------------------------------
(* Aggregates and memory.                                                  *)

LowerArrayLiteral(s, o, v) ==
    Bind(s, o.res, FoldLeft(LAMBDA value, i : Insert(value, i - 1, v[i]), Zero(o.lay), [i \in DOMAIN v |-> i]))

LowerStructLiteral(s, o, v) ==
    Bind(s, o.res, FoldLeft(LAMBDA value, i : Insert(value, o.keys[i], v[i]), Zero(o.lay), [i \in DOMAIN v |-> i]))

\* The elements are stored one by one in a place of the function's frame.
LowerRepeatArray(s, o, v) ==
    LET place == Address(o.res \o "[]", 0)
        stored == Repeated(Reserve(s, place.obj, o.lay), place, o.lay.of, v[1], o.lay.n)
    IN  Load(stored, o.res, place, o.lay)

LowerZeroedArray(s, o) == Bind(s, o.res, Zero(o.lay))

LowerStringLiteral(s, o, v) == Bind(s, o.res, Insert(Insert(Zero(o.lay), 0, v[1]), 1, v[2]))

\* The dimensions, down to the element; nothing is filled if one is none.
RECURSIVE Dimensions(_, _)
Dimensions(l, element) == IF l.n = 0 \/ l.of = element THEN <<l.n>> ELSE <<l.n>> \o Dimensions(l.of, element)
Flat(o) == FoldLeft(LAMBDA n, d : n * d, 1, Dimensions(o.lay, o.elay))

\* Only a byte is a pattern of bytes.
LowerArrayFill(s, o, v) ==
    IF o.elay = Byte THEN Memset(s, v[1], v[2], Flat(o)) ELSE Repeated(s, v[1], o.elay, v[2], Flat(o))

LowerArenaFill(s, o, v) == Repeated(s, v[1], o.elay, v[2], Signed(v[3]))

LowerStackAlloc(s, o) == Reserve(s, o.res, o.elay)

LowerLoad(s, o, v) == Load(s, o.res, v[1], o.lay)

\* An array of zeros is stored as zero bytes.
LowerStore(s, v, t, definition) ==
    IF IsRow(t) /\ definition.op = "zeroed_array" THEN Memset(s, v[2], Number(Narrow, 0), Size(t)) ELSE Store(s, v[2], t, v[1])

LowerExtractField(s, o, v) == Bind(s, o.res, Extract(v[1], o.n))

LowerAbiCall(s, o, v, t) == [(IF o.res = "" THEN s ELSE Bind(s, o.res, Zero(t))) EXCEPT !.calls = Append(@, <<o.kind, v>>)]

-----------------------------------------------------------------------------
(* Pointers and slices.                                                    *)

LowerNull(s, o) == Bind(s, o.res, Null)

LowerArenaTypedPointer(s, o, v) ==
    LowerGloinAssert(s, ~o.src.nullable => v[1] # Null, Bind(s, o.res, v[1]))

LowerRawPlace(s, o, v) ==
    LET nonnull == v[1] # Null
        enough == CmpI("sge", v[2], Count(Size(o.elay)))
        aligned == Place(s.mem, v[1]) % Measure(o.elay).align = 0
        valid == nonnull /\ enough /\ aligned
        selected == IF valid THEN v[1] ELSE Null
    IN  Bind(IF valid THEN Store(s, selected, o.elay, v[3]) ELSE s, o.res, selected)

LowerRawPadding(s, o, v) ==
    LET alignment == Measure(o.elay).align
    IN  Bind(s, o.res, Count((alignment - (Place(s.mem, v[1]) % alignment)) % alignment))

LowerPointerOffset(s, o, v) == LowerGloinAssert(s, v[1] # Null, Bind(s, o.res, Gep(o.elay, v[1], v[2])))

LowerRequireNonNull(s, o, v) == LowerGloinAssert(s, v[1] # Null, Bind(s, o.res, v[1]))

LowerPointerCompare(s, o, v) == Bind(s, o.res, Truth(CmpI(IF o.kind = "!=" THEN "ne" ELSE "eq", v[1], v[2])))

LowerArrayElementAddress(s, o, v, proven) ==
    LowerGloinAssert(s, proven \/ CmpI("ult", v[2], Count(o.lay.n)), Bind(s, o.res, Gep(o.lay.of, v[1], v[2])))

LowerFieldAddress(s, o, v) == Bind(s, o.res, GepField(o.lay, v[1], o.n))

checked_slice_range(s, start, end, length, next) ==
    LowerGloinAssert(s, CmpI("ule", start, end), LowerGloinAssert(s, CmpI("ule", end, length), next))

slice_descriptor(pointer, length) == Insert(Insert(Zero(Pair), 0, pointer), 1, length)
Difference(end, start) == ArithI("-", FALSE, end, start)

LowerSliceFromArray(s, o, v) ==
    checked_slice_range(s, v[2], v[3], Count(o.elay.n),
        Bind(s, o.res, slice_descriptor(Gep(o.elay.of, v[1], v[2]), Difference(v[3], v[2]))))

LowerSliceSubrange(s, o, v) ==
    checked_slice_range(s, v[2], v[3], Extract(v[1], 1),
        Bind(s, o.res, slice_descriptor(Gep(o.elay, Extract(v[1], 0), v[2]), Difference(v[3], v[2]))))

LowerSliceFromPointer(s, o, v) ==
    LET length == Difference(v[3], v[2])
    IN  LowerGloinAssert(s, CmpI("sge", v[2], Count(0)) /\ CmpI("sge", v[3], Count(0)) /\ CmpI("ule", v[2], v[3]),
        LowerGloinAssert(s, v[1] # Null \/ length = Count(0),
        Bind(s, o.res, slice_descriptor(Gep(o.elay, v[1], v[2]), length))))

LowerSliceElementAddress(s, o, v, proven) ==
    LowerGloinAssert(s, proven \/ CmpI("ult", v[2], Extract(v[1], 1)), Bind(s, o.res, Gep(o.elay, Extract(v[1], 0), v[2])))

LowerSliceLength(s, o, v) == Bind(s, o.res, Extract(v[1], 1))

-----------------------------------------------------------------------------
(* Selection.                                                              *)

LowerCaseTest(s, v, src, key) ==
    CASE src = String ->
           /\ Extract(v, 1) = Count(Len(key.text))
           /\ \A i \in DOMAIN key.text : Stored(s, Gep(Byte, Extract(v, 0), Count(i - 1)), Byte) = Number(Narrow, key.text[i])
      [] src = Enum \/ IsResult(src) -> Extract(v, 0) = Number(key.type.bits, key.n)
      [] OTHER -> v = Number(key.type.bits, key.n)

\* One test after the other, to the last block if none holds.
dispatch(s, v, e) ==
    Least({i \in DOMAIN e.keys : e.keys[i] = Default \/ LowerCaseTest(s, v, e.src, e.keys[i])} \cup {Len(e.keys) + 1})

\* Where the control goes: an arm, or what follows the switch; nothing follows a match without one.
LowerSwitch(s, v, e) == dispatch(s, v, e)
LowerMatch(s, v, e) == dispatch(s, v, e)

-----------------------------------------------------------------------------

\* A failure to lower an operation: what is filled or placed has no size.
Unsized(o) ==
    \/ o.op = "array_fill" /\ Flat(o) >= 2^(Word - 1)
    \/ o.op = "raw_place" /\ Size(o.elay) >= 2^(Word - 1)

LowerNumber(s, o, v, t, proven) ==
    CASE o.op = "constant" -> LowerGloinConstant(s, o, t)
      [] o.op = "assert" -> LowerGloinAssert(s, v[1] = Truth(TRUE), s)
      [] o.op = "exact_int_widen" -> LowerExactIntegerWiden(s, o, v, t)
      [] o.op = "checked_int_binary" -> LowerCheckedIntegerBinary(s, o, v, proven)
      [] o.op = "checked_int_compare" -> LowerCheckedIntegerCompare(s, o, v)
      [] o.op = "checked_float_binary" -> LowerCheckedFloatBinary(s, o, v)
      [] o.op = "require_finite" -> LowerRequireFinite(s, v[1], s)
      [] o.op = "checked_float_compare" -> LowerCheckedFloatCompare(s, o, v)
      [] o.op = "enum_constant" -> LowerEnumConstant(s, o)
      [] o.op = "enum_compare" -> LowerEnumCompare(s, o, v)
      [] o.op = "case_test" -> Bind(s, o.res, Truth(LowerCaseTest(s, v[1], o.src, o.keys[1])))
      [] o.op = "xor" -> Bind(s, o.res, Truth(v[1] # v[2]))

LowerAggregate(s, o, v, a) ==
    CASE o.op = "array_literal" -> LowerArrayLiteral(s, o, v)
      [] o.op = "repeat_array" -> LowerRepeatArray(s, o, v)
      [] o.op = "zeroed_array" -> LowerZeroedArray(s, o)
      [] o.op = "struct_literal" -> LowerStructLiteral(s, o, v)
      [] o.op = "extract_field" -> LowerExtractField(s, o, v)
      [] o.op = "string_literal" -> LowerStringLiteral(s, o, v)
      [] o.op = "error_literal" -> LowerErrorLiteral(s, o, v)
      [] o.op = "error_message" -> LowerErrorMessage(s, o, v)
      [] o.op \in {"error_code", "error_os_error"} -> LowerErrorCode(s, o, v)
      [] o.op = "result_success" -> LowerResultSuccess(s, o, v)
      [] o.op = "result_failure" -> LowerResultFailure(s, o, v)
      [] o.op = "result_is_error" -> LowerResultIsError(s, o, v)
      [] o.op = "result_value" -> LowerResultValue(s, o, v)
      [] o.op = "result_error" -> LowerResultError(s, o, v, a[1])
      [] o.op = "slice_length" -> LowerSliceLength(s, o, v)

LowerPointer(s, o, v, proven) ==
    CASE o.op = "null" -> LowerNull(s, o)
      [] o.op = "arena_typed_pointer" -> LowerArenaTypedPointer(s, o, v)
      [] o.op = "raw_place" -> LowerRawPlace(s, o, v)
      [] o.op = "raw_padding" -> LowerRawPadding(s, o, v)
      [] o.op = "pointer_offset" -> LowerPointerOffset(s, o, v)
      [] o.op = "require_nonnull" -> LowerRequireNonNull(s, o, v)
      [] o.op = "pointer_compare" -> LowerPointerCompare(s, o, v)
      [] o.op = "array_element_address" -> LowerArrayElementAddress(s, o, v, proven)
      [] o.op = "field_address" -> LowerFieldAddress(s, o, v)
      [] o.op = "slice_from_array" -> LowerSliceFromArray(s, o, v)
      [] o.op = "slice_subrange" -> LowerSliceSubrange(s, o, v)
      [] o.op = "slice_from_pointer" -> LowerSliceFromPointer(s, o, v)
      [] o.op = "slice_element_address" -> LowerSliceElementAddress(s, o, v, proven)

LowerEffect(s, o, v, t, a, definition) ==
    CASE o.op = "stack_alloc" -> LowerStackAlloc(s, o)
      [] o.op = "load" -> LowerLoad(s, o, v)
      [] o.op = "store" -> LowerStore(s, v, a[1], definition)
      [] o.op = "array_fill" -> LowerArrayFill(s, o, v)
      [] o.op = "arena_fill" -> LowerArenaFill(s, o, v)
      [] o.op \in {"abi_call", "call"} -> LowerAbiCall(s, o, v, t)

\* An operation without its check lowers the flag of its version, if that has one and the result is not finite.
Lowered(s, x, flag) ==
    [s EXCEPT !.env = [y \in Range(flag) |-> Truth(@[y] = Truth(TRUE) /\ CmpF("oge", @[x], Real(-2)) /\ CmpF("ole", @[x], Real(2)))] @@ @]

\* The patterns, by operation: a are the types of the operands, the definition that of the first one.
LowerGloinCore(s, o, v, t, a, proven, definition) ==
    CASE o.op \in OfNumbers -> LowerNumber(s, o, v, t, proven)
      [] o.op \in OfPointers -> LowerPointer(s, o, v, proven)
      [] o.op \in OfEffects -> LowerEffect(s, o, v, t, a, definition)
      [] o.op = "arith" -> Lowered(Bind(s, o.res, ArithF(o.kind, v[1], v[2])), o.res, o.keys)
      [] o.op = "gone" -> s
      [] OTHER -> LowerAggregate(s, o, v, a)

=============================================================================
