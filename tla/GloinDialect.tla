------------------------------ MODULE GloinDialect ------------------------------
(***************************************************************************)
(* What the dialect accepts (src/src/dialect/GloinDialect.cpp): the        *)
(* verifier of every operation.  A value has a source type before the      *)
(* signatures are lowered, and a layout afterwards or in a raw module, so  *)
(* most operations may be typed or untyped.                                *)
(***************************************************************************)
EXTENDS Gir

IsRecord(l) == l.k = "llvm.struct"
IsRow(l) == l.k = "llvm.array"
Wide(t) == t \in {Byte, Long}
IsFloat(t) == t = Float

RECURSIVE matches_storage(_, _)

\* A layout may hold the values of a source type.
matches_storage(source, storage) ==
    CASE source.k = "ptr" -> storage = Pointer
      [] source.k = "array" -> IsRow(storage) /\ source.n = storage.n /\ matches_storage(source.of, storage.of)
      [] source.k \in {"slice", "string"} -> storage = Pair
      [] source.k = "enum" -> IsRecord(storage) /\ storage.parts = <<Byte>>
      [] source.k = "struct" -> IsRecord(storage)
      [] source.k = "error" -> storage = Failure
      [] source.k = "result" ->
           /\ IsRecord(storage)
           /\ Len(storage.parts) = (IF source.of = None THEN 2 ELSE 3)
           /\ storage.parts[1] = Bool /\ Last(storage.parts) = Failure
           /\ source.of = None \/ matches_storage(source.of, storage.parts[2])
      [] OTHER -> source = storage

\* A pointer or a slice may lose rights, and nothing else changes.
canWeakenSourceValue(actual, requested) ==
    \/ actual = requested
    \/ /\ IsPtr(actual) /\ IsPtr(requested) /\ actual.of = requested.of
       /\ actual.nullable => requested.nullable
       /\ actual.readOnly => requested.readOnly
    \/ /\ actual.k = "slice" /\ requested.k = "slice" /\ actual.of = requested.of
       /\ actual.readOnly => requested.readOnly

StructDefinition(d) ==
    IsRecord(d.lay) /\ Len(d.fields) = Len(d.lay.parts) /\ \A i \in DOMAIN d.fields : matches_storage(d.fields[i], d.lay.parts[i])

\* A pointer to a type.
To(t, type, nullable) == IsPtr(t) /\ t.of = type /\ (t.nullable => nullable)
Writable(t, type, nullable) == To(t, type, nullable) /\ ~t.readOnly

-----------------------------------------------------------------------------
(* Numbers.  r is the type of the result, a those of the operands.         *)

ExactIntegerWiden(r, a) == Wide(a[1]) /\ Wide(r) /\ a[1].bits < r.bits

CheckedIntegerBinary(o, r, a) == Wide(r) /\ a = <<r, r>> /\ o.kind \in {"+", "-", "*", "/", "%"}

CheckedFloatBinary(o, r, a) == r = Float /\ a = <<Float, Float>> /\ o.kind \in {"+", "-", "*", "/"}

RequireFinite(a) == a = <<Float>>

CheckedIntegerCompare(o, r, a) ==
    /\ r = Bool /\ a[1] = a[2] /\ (Wide(a[1]) \/ a[1] = Bool)
    /\ o.kind \in (IF a[1] = Bool THEN {"==", "!="} ELSE {"==", "!=", "<", "<=", ">", ">="})

CheckedFloatCompare(o, r, a) == r = Bool /\ a = <<Float, Float>> /\ o.kind \in {"==", "!=", "<", "<=", ">", ">="}

Constant(r) == r.k = "int" \/ r = Float

EnumConstant(o, r) == o.src = Enum /\ o.lay = Record(<<Byte>>) /\ r \in {o.src, o.lay}

EnumCompare(o, r, a) == r = Bool /\ a[1] = a[2] /\ o.src = Enum /\ a[1] \in {Enum, Record(<<Byte>>)}

-----------------------------------------------------------------------------
(* Errors and results.                                                     *)

ErrorLiteral(o, r, a) ==
    /\ o.lay = Failure /\ a[2] = Byte /\ a[3] = Byte
    /\ (r = Error /\ a[1] = String) \/ (r = o.lay /\ a[1] = Pair)

ErrorMessage(o, r, a) == o.lay = Pair /\ ((a[1] = Error /\ r = String) \/ (a[1] = Failure /\ r = o.lay))

ErrorCode(r, a) == r = Byte /\ a[1] \in {Error, Failure}

Outcomes(l) == IsRecord(l) /\ Len(l.parts) \in {2, 3}
IsResult(t) == t.k = "result"

ResultSuccess(o, r, a) ==
    /\ IF IsResult(r) THEN matches_storage(r, o.lay) ELSE r = o.lay
    /\ IsRecord(o.lay) /\ Len(a) = (IF Len(o.lay.parts) = 2 THEN 0 ELSE 1)
    /\ a = <<>> \/ a[1] = (IF IsResult(r) THEN r.of ELSE o.lay.parts[2])

ResultFailure(o, r, a) ==
    /\ Outcomes(o.lay) /\ Last(o.lay.parts) = Failure
    /\ IF IsResult(r) THEN matches_storage(r, o.lay) /\ a[1] = Error ELSE r = o.lay /\ a[1] = Last(o.lay.parts)

ResultIsError(r, a) == r = Bool /\ (IsResult(a[1]) \/ (Outcomes(a[1]) /\ a[1].parts[1] = Bool))

ResultValue(o, r, a) ==
    \/ IsResult(a[1]) /\ a[1].of # None /\ r = a[1].of /\ matches_storage(r, o.lay)
    \/ IsRecord(a[1]) /\ Len(a[1].parts) = 3 /\ r = a[1].parts[2] /\ o.lay = r

ResultError(o, r, a) ==
    \/ IsResult(a[1]) /\ r = Error /\ o.lay = Failure
    \/ Outcomes(a[1]) /\ r = Last(a[1].parts) /\ o.lay = r

-----------------------------------------------------------------------------
(* Aggregates.                                                             *)

ArrayOf(o) == IsRow(o.lay) /\ o.src.k = "array" /\ matches_storage(o.src, o.lay)
ElementOf(o, r) == IF r = o.src THEN o.src.of ELSE o.lay.of

ArrayLiteral(o, r, a) ==
    /\ ArrayOf(o) /\ r \in {o.src, o.lay}
    /\ Len(a) = o.lay.n /\ \A i \in DOMAIN a : a[i] = ElementOf(o, r)

RepeatArray(o, r, a) == ArrayOf(o) /\ r \in {o.src, o.lay} /\ a[1] = ElementOf(o, r)

ZeroedArray(o, r) == ArrayOf(o) /\ r \in {o.src, o.lay}

RECURSIVE Nested(_, _, _)

\* An element of an array, or of its elements.
Nested(source, storage, o) ==
    source.k = "array" /\ ((source.of = o.esrc /\ storage.of = o.elay) \/ Nested(source.of, storage.of, o))

ArrayFill(o, a) ==
    /\ \/ Writable(a[1], o.src, FALSE) /\ a[2] = o.esrc
       \/ a[1] = Pointer /\ a[2] = o.elay
    /\ matches_storage(o.src, o.lay) /\ matches_storage(o.esrc, o.elay)
    /\ Nested(o.src, o.lay, o)

\* The definition of a struct has its layout.
Defined(o, structs) == o.src.name \in DOMAIN structs /\ o.lay = structs[o.src.name].lay
IsField(o) == o.src.k = "struct" /\ IsRecord(o.lay) /\ o.n \in 0..Len(o.lay.parts) - 1

StructLiteral(o, r, a, structs) ==
    /\ o.src.k = "struct" /\ IsRecord(o.lay)
    /\ Len(a) = Len(o.lay.parts) /\ Len(o.keys) = Len(a) /\ Len(o.esrc) = Len(a)
    /\ \/ r = o.src /\ Defined(o, structs) /\ o.esrc = structs[o.src.name].fields
       \/ r = o.lay
    /\ \A i \in DOMAIN a : matches_storage(o.esrc[i], o.lay.parts[i])
    /\ \A i, j \in DOMAIN a : o.keys[i] = o.keys[j] => i = j
    /\ \A i \in DOMAIN a : /\ o.keys[i] \in 0..Len(a) - 1
                           /\ a[i] = (IF r = o.src THEN o.esrc ELSE o.lay.parts)[o.keys[i] + 1]

ExtractField(o, r, a, structs) ==
    /\ IsField(o) /\ matches_storage(o.esrc, o.lay.parts[o.n + 1])
    /\ \/ /\ a[1] = o.src /\ r = o.esrc /\ Defined(o, structs)
          /\ canWeakenSourceValue(structs[o.src.name].fields[o.n + 1], o.esrc)
       \/ a[1] = o.lay /\ r = o.lay.parts[o.n + 1]

StringLiteral(o, r, a) == o.src = String /\ o.lay = Pair /\ a = <<Pointer, Long>> /\ r \in {o.src, o.lay}

-----------------------------------------------------------------------------
(* Pointers, slices and memory.                                            *)

NullOp(o, r) == IsPtr(o.src) /\ o.src.nullable /\ r \in {o.src, Pointer}

ArenaTypedPointer(o, r, a) ==
    /\ IsPtr(o.src) /\ matches_storage(o.src.of, o.elay)
    /\ (Writable(a[1], Byte, TRUE) /\ ~o.src.readOnly /\ r = o.src) \/ (a[1] = Pointer /\ r = Pointer)

RawBytes(t) == Writable(t, Byte, TRUE) /\ t.nullable

RawPlace(o, r, a) ==
    /\ IsPtr(o.src) /\ o.src.nullable /\ matches_storage(o.src.of, o.elay) /\ o.src.of = o.esrc /\ a[2] = Long
    /\ \/ RawBytes(a[1]) /\ ~o.src.readOnly /\ r = o.src /\ a[3] = o.esrc
       \/ a[1] = Pointer /\ r = Pointer /\ a[3] = o.elay

RawPadding(r, a) == r = Long /\ (RawBytes(a[1]) \/ a[1] = Pointer)

PointerOffset(o, r, a) ==
    /\ IsPtr(o.src) /\ matches_storage(o.src.of, o.elay) /\ a[2] = Long
    /\ a[1] \in {o.src, Pointer} /\ r = a[1]

RequireNonNull(o, r, a) ==
    /\ IsPtr(o.src) /\ o.src.nullable
    /\ (a[1] = Pointer /\ r = Pointer) \/ (a[1] = o.src /\ r = [o.src EXCEPT !.nullable = FALSE])

PointerCompare(o, r, a) == r = Bool /\ IsPtr(o.src) /\ a[1] = a[2] /\ a[1] \in {o.src, Pointer}

ArrayElementAddress(o, r, a) ==
    /\ ArrayOf(o) /\ a[2] = Long
    /\ \/ To(a[1], o.src, FALSE) /\ To(r, o.src.of, FALSE) /\ r.readOnly = a[1].readOnly
       \/ a[1] = Pointer /\ r = Pointer

IsSlice(o) == o.src.k = "slice" /\ o.lay = Pair

SliceFromArray(o, r, a) ==
    /\ IsSlice(o) /\ IsRow(o.elay) /\ matches_storage(o.src.of, o.elay.of) /\ a[2] = Long /\ a[3] = Long
    /\ \/ To(a[1], Array(o.src.of, o.elay.n), FALSE) /\ o.src.readOnly = a[1].readOnly /\ r = o.src
       \/ a[1] = Pointer /\ r = o.lay

SliceSubrange(o, r, a) ==
    /\ IsSlice(o) /\ matches_storage(o.src.of, o.elay) /\ a[2] = Long /\ a[3] = Long
    /\ r \in {o.src, o.lay} /\ a[1] = r

SliceFromPointer(o, r, a) ==
    /\ IsSlice(o) /\ matches_storage(o.src.of, o.elay) /\ a[2] = Long /\ a[3] = Long
    /\ \/ To(a[1], o.src.of, TRUE) /\ a[1].readOnly = o.src.readOnly /\ r = o.src
       \/ a[1] = Pointer /\ r = o.lay

SliceElementAddress(o, r, a) ==
    /\ IsSlice(o) /\ matches_storage(o.src.of, o.elay) /\ a[2] = Long
    /\ \/ a[1] = o.src /\ To(r, o.src.of, FALSE) /\ r.readOnly = o.src.readOnly
       \/ a[1] = o.lay /\ r = Pointer

SliceLength(o, r, a) == r = Long /\ IsSlice(o) /\ a[1] \in {o.src, o.lay}

ArenaFill(o, a) ==
    /\ Writable(o.src, o.esrc, FALSE) /\ matches_storage(o.esrc, o.elay) /\ a[3] = Long
    /\ (a[1] = o.src /\ a[2] = o.esrc) \/ (a[1] = Pointer /\ a[2] = o.elay)

StackAlloc(o, r) == (Writable(r, o.src, FALSE) \/ r = Pointer) /\ matches_storage(o.src, o.elay)

LoadOp(o, r, a) ==
    /\ matches_storage(o.src, o.lay)
    /\ (To(a[1], o.src, FALSE) /\ r = o.src) \/ (a[1] = Pointer /\ r = o.lay)

StoreOp(o, a) ==
    \/ Writable(a[2], o.src, FALSE) /\ a[1] = o.src
    \/ a[2] = Pointer /\ IsLayout(a[1]) /\ matches_storage(o.src, a[1])

FieldAddress(o, r, a, structs) ==
    /\ IsField(o) /\ matches_storage(o.esrc, o.lay.parts[o.n + 1])
    /\ \/ /\ To(a[1], o.src, FALSE) /\ To(r, o.esrc, FALSE) /\ (a[1].readOnly => r.readOnly)
          /\ Defined(o, structs) /\ canWeakenSourceValue(structs[o.src.name].fields[o.n + 1], o.esrc)
       \/ a[1] = Pointer /\ r = Pointer

\* from is the source type of what was a source value before.
FromLayout(r, a, from) == matches_storage(r, a[1]) /\ (from # None => canWeakenSourceValue(from, r))

AbiCall(o, r, a, runtime) ==
    /\ o.kind \in DOMAIN runtime
    /\ a = runtime[o.kind].takes /\ r = runtime[o.kind].gives

Call(o, r, a, functions) ==
    o.kind \in DOMAIN functions /\ a = functions[o.kind].takes /\ functions[o.kind].gives = (IF o.res = "" THEN <<>> ELSE <<r>>)

-----------------------------------------------------------------------------
(* Selection.                                                              *)

case_key_matches(source, key) ==
    IF source = String THEN key.k = "text"
    ELSE /\ key.k = "number"
         /\ key.type = (IF source = Enum THEN Byte ELSE IF IsResult(source) THEN Bool ELSE source)
         /\ Wide(key.type) \/ key.type = Bool

Domain(source) == source = Bool \/ source = Enum \/ IsResult(source)
Same(k, l) == k.k = l.k /\ (k.k = "number" => k.n = l.n) /\ (k.k = "text" => k.text = l.text)

verify_cases(e, subject, exhaustive) ==
    LET keys == e.keys
        seen == Cardinality({i \in DOMAIN keys : keys[i] # Default})
    IN  /\ Domain(e.src) \/ e.src = String \/ Wide(e.src)
        /\ subject = e.src \/ matches_storage(e.src, subject)
        /\ IF Domain(e.src) THEN e.n > 0 /\ (e.src # Enum => e.n = 2) ELSE e.n = 0
        /\ \A i \in DOMAIN keys :
              IF keys[i] = Default THEN i = Len(keys) /\ (e.n > 0 => seen # e.n)
              ELSE case_key_matches(e.src, keys[i]) /\ (Domain(e.src) => keys[i].n < e.n)
        /\ \A i, j \in DOMAIN keys : Same(keys[i], keys[j]) => i = j
        /\ exhaustive => Default \in Range(keys) \/ (e.n > 0 /\ seen = e.n)

CaseTest(o, r, a) ==
    r = Bool /\ case_key_matches(o.src, o.keys[1]) /\ (a[1] = o.src \/ matches_storage(o.src, a[1]))

SwitchOp(e, a) == ~IsResult(e.src) /\ Len(e.to) = Len(e.keys) + 1 /\ verify_cases(e, a[1], FALSE)

\* The value of a match is what its arms yield.
MatchOp(e, a, value) ==
    /\ Len(e.keys) >= 2 /\ Len(e.to) = Len(e.keys) + 1
    /\ e.esrc # None /\ matches_storage(e.esrc, e.elay) /\ value \in {e.esrc, e.elay}
    /\ verify_cases(e, a[1], TRUE)

-----------------------------------------------------------------------------

\* An operation of a module m, with its structs and the functions of the runtime.
Verified(o, r, a, m, from) ==
    CASE o.op = "constant" -> Constant(r)
      [] o.op = "assert" -> a = <<Bool>>
      [] o.op = "exact_int_widen" -> ExactIntegerWiden(r, a)
      [] o.op = "checked_int_binary" -> CheckedIntegerBinary(o, r, a)
      [] o.op = "checked_float_binary" -> CheckedFloatBinary(o, r, a)
      [] o.op = "require_finite" -> RequireFinite(a)
      [] o.op = "checked_int_compare" -> CheckedIntegerCompare(o, r, a)
      [] o.op = "checked_float_compare" -> CheckedFloatCompare(o, r, a)
      [] o.op = "enum_constant" -> EnumConstant(o, r)
      [] o.op = "enum_compare" -> EnumCompare(o, r, a)
      [] o.op = "error_literal" -> ErrorLiteral(o, r, a)
      [] o.op = "error_message" -> ErrorMessage(o, r, a)
      [] o.op \in {"error_code", "error_os_error"} -> ErrorCode(r, a)
      [] o.op = "result_success" -> ResultSuccess(o, r, a)
      [] o.op = "result_failure" -> ResultFailure(o, r, a)
      [] o.op = "result_is_error" -> ResultIsError(r, a)
      [] o.op = "result_value" -> ResultValue(o, r, a)
      [] o.op = "result_error" -> ResultError(o, r, a)
      [] o.op = "array_literal" -> ArrayLiteral(o, r, a)
      [] o.op = "repeat_array" -> RepeatArray(o, r, a)
      [] o.op = "zeroed_array" -> ZeroedArray(o, r)
      [] o.op = "array_fill" -> ArrayFill(o, a)
      [] o.op = "struct_literal" -> StructLiteral(o, r, a, m.structs)
      [] o.op = "extract_field" -> ExtractField(o, r, a, m.structs)
      [] o.op = "string_literal" -> StringLiteral(o, r, a)
      [] o.op = "null" -> NullOp(o, r)
      [] o.op = "arena_typed_pointer" -> ArenaTypedPointer(o, r, a)
      [] o.op = "raw_place" -> RawPlace(o, r, a)
      [] o.op = "raw_padding" -> RawPadding(r, a)
      [] o.op = "pointer_offset" -> PointerOffset(o, r, a)
      [] o.op = "require_nonnull" -> RequireNonNull(o, r, a)
      [] o.op = "pointer_compare" -> PointerCompare(o, r, a)
      [] o.op = "array_element_address" -> ArrayElementAddress(o, r, a)
      [] o.op = "slice_from_array" -> SliceFromArray(o, r, a)
      [] o.op = "slice_subrange" -> SliceSubrange(o, r, a)
      [] o.op = "slice_from_pointer" -> SliceFromPointer(o, r, a)
      [] o.op = "slice_element_address" -> SliceElementAddress(o, r, a)
      [] o.op = "slice_length" -> SliceLength(o, r, a)
      [] o.op = "arena_fill" -> ArenaFill(o, a)
      [] o.op = "stack_alloc" -> StackAlloc(o, r)
      [] o.op = "load" -> LoadOp(o, r, a)
      [] o.op = "store" -> StoreOp(o, a)
      [] o.op = "field_address" -> FieldAddress(o, r, a, m.structs)
      [] o.op = "from_layout" -> FromLayout(r, a, from)
      [] o.op = "to_layout" -> matches_storage(a[1], r)
      [] o.op = "abi_call" -> AbiCall(o, r, a, m.runtime)
      [] o.op = "case_test" -> CaseTest(o, r, a)
      [] o.op = "xor" -> r = Bool /\ a = <<Bool, Bool>>
      [] o.op = "call" -> Call(o, r, a, m.functions)
      [] o.op = "gone" -> TRUE

=============================================================================
