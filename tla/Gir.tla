---------------------------------- MODULE Gir ----------------------------------
(***************************************************************************)
(* The compiler's intermediate representation (src/src/dialect): functions *)
(* of blocks of operations over typed values, and what every operation     *)
(* means in the language.                                                  *)
(*                                                                         *)
(* Every type has a storage layout.  Storage is counted in bytes of Narrow *)
(* bits; the widest integer and a pointer take two, all other scalars one. *)
(***************************************************************************)
EXTENDS Integers, Sequences, FiniteSets, SequencesExt, TLC

CONSTANTS
    Narrow, Word        \* widths: of the small integers, and of the widest one and of lengths

ASSUME WidthsAssumption == {Narrow, Word} \subseteq Nat /\ 1 < Narrow /\ Narrow < Word /\ Word <= 2 * Narrow

-----------------------------------------------------------------------------
(* Types and layouts. *)

Integer(bits) == [k |-> "int", bits |-> bits]
Bool == Integer(1)
Byte == Integer(Narrow)
Long == Integer(Word)
Float == [k |-> "float"]
Ptr(to, nullable, readOnly) == [k |-> "ptr", of |-> to, nullable |-> nullable, readOnly |-> readOnly]
Slice(of, readOnly) == [k |-> "slice", of |-> of, readOnly |-> readOnly]
Array(of, n) == [k |-> "array", of |-> of, n |-> n]
Struct(name) == [k |-> "struct", name |-> name]
Result(of) == [k |-> "result", of |-> of]
Enum == [k |-> "enum"]
String == [k |-> "string"]
Error == [k |-> "error"]
None == [k |-> "none"]

Pointer == [k |-> "llvm.ptr"]
Row(of, n) == [k |-> "llvm.array", of |-> of, n |-> n]
Record(parts) == [k |-> "llvm.struct", parts |-> parts]

IsInt(t) == t.k = "int"
IsPtr(t) == t.k = "ptr"
IsScalar(l) == l.k \in {"int", "float", "llvm.ptr"}
IsLayout(l) == IsScalar(l) \/ l.k \in {"llvm.array", "llvm.struct"}

Pair == Record(<<Pointer, Long>>)
Failure == Record(<<Pair, Byte, Byte>>)

RECURSIVE Layout(_, _)

\* The storage of a type, given the layouts of the structs.
Layout(t, structs) ==
    CASE t.k = "ptr" -> Pointer
      [] t.k = "array" -> Row(Layout(t.of, structs), t.n)
      [] t.k \in {"slice", "string"} -> Pair
      [] t.k = "enum" -> Record(<<Byte>>)
      [] t.k = "struct" -> structs[t.name].lay
      [] t.k = "error" -> Failure
      [] t.k = "result" -> Record(<<Bool>> \o (IF t.of = None THEN <<>> ELSE <<Layout(t.of, structs)>>) \o <<Failure>>)
      [] OTHER -> t

RoundUp(n, to) == ((n + to - 1) \div to) * to

RECURSIVE Measure(_)

\* Size, alignment and the places of the parts.
Measure(l) ==
    CASE l.k \in {"int", "float", "llvm.ptr"} ->
           LET n == IF l \in {Long, Pointer} THEN 2 ELSE 1 IN [size |-> n, align |-> n, at |-> <<>>]
      [] l.k = "llvm.array" ->
           LET one == Measure(l.of) IN [one EXCEPT !.size = l.n * @, !.at = [i \in 1..l.n |-> (i - 1) * one.size]]
      [] l.k = "llvm.struct" ->
           LET after(m, f) ==
                   LET part == Measure(f)
                       at == RoundUp(m.size, part.align)
                   IN  [size |-> at + part.size, align |-> IF part.align > m.align THEN part.align ELSE m.align,
                        at |-> Append(m.at, at)]
               m == FoldLeft(after, [size |-> 0, align |-> 1, at |-> <<>>], l.parts)
           IN  [m EXCEPT !.size = RoundUp(@, m.align)]

Size(l) == Measure(l).size
Part(l, i) == IF l.k = "llvm.array" THEN l.of ELSE l.parts[i]
Parts(l) == IF l.k = "llvm.array" THEN l.n ELSE Len(l.parts)

-----------------------------------------------------------------------------
(* Values. *)

Number(bits, x) == [k |-> "int", bits |-> bits, n |-> x % 2^bits]
Truth(b) == Number(1, IF b THEN 1 ELSE 0)
Count(x) == Number(Word, x)
Signed(v) == IF v.n >= 2^(v.bits - 1) THEN v.n - 2^v.bits ELSE v.n
Decode(v, signed) == IF signed THEN Signed(v) ELSE v.n
Fits(bits, signed, x) == IF signed THEN -(2^(bits - 1)) <= x /\ x < 2^(bits - 1) ELSE 0 <= x /\ x < 2^bits

\* A number that is not finite is kept apart by its name.
Real(x) == [k |-> "float", n |-> x, is |-> IF x \in -2..2 THEN "finite" ELSE "infinite"]
Infinite == Real(3)
NaN == [k |-> "float", n |-> 0, is |-> "nan"]
IsFinite(v) == v.is = "finite"
Literal(t, x) == IF t = Float THEN Real(x) ELSE Number(t.bits, x)

Address(obj, at) == [k |-> "addr", obj |-> obj, at |-> at]
Null == Address("null", 0)
IsNull(v) == v = Null
Moved(v, bytes) == [v EXCEPT !.at = @ + bytes]
List(of) == [k |-> "list", of |-> of]
Sliced(base, n) == List(<<base, Count(n)>>)

RECURSIVE Zero(_)
Zero(l) ==
    CASE l.k = "int" -> Number(l.bits, 0)
      [] l.k = "float" -> Real(0)
      [] l.k = "llvm.ptr" -> Null
      [] OTHER -> List([i \in 1..Parts(l) |-> Zero(Part(l, i))])

RECURSIVE Shaped(_, _)
Shaped(v, l) ==
    CASE l.k = "int" -> v.k = "int" /\ v.bits = l.bits
      [] l.k = "float" -> v.k = "float"
      [] l.k = "llvm.ptr" -> v.k = "addr"
      [] OTHER -> v.k = "list" /\ Len(v.of) = Parts(l) /\ \A i \in 1..Parts(l) : Shaped(v.of[i], Part(l, i))

-----------------------------------------------------------------------------
(* Memory: objects of bytes.  What is not a number is kept as its parts.   *)

Blank == [k |-> "blank"]
Bits(x) == [k |-> "byte", n |-> x % 2^Narrow]
Piece(v, i) == [k |-> "piece", of |-> v, i |-> i]
Object(base, cells) == [base |-> base, cells |-> cells]
Inside(mem, a, bytes) == a.obj \in DOMAIN mem /\ 0 <= a.at /\ a.at + bytes <= Len(mem[a.obj].cells)
Place(mem, a) == IF a.obj = "null" THEN a.at ELSE mem[a.obj].base + a.at

RECURSIVE Bytes(_, _), Read(_, _)

\* The bytes of a value; there is nothing between its parts.
Bytes(l, v) ==
    CASE l.k = "int" -> [i \in 1..Size(l) |-> Bits(v.n \div 2^(Narrow * (i - 1)))]
      [] l.k \in {"float", "llvm.ptr"} -> [i \in 1..Size(l) |-> IF v = Zero(l) THEN Bits(0) ELSE Piece(v, i)]
      [] OTHER ->
           LET m == Measure(l)
           IN  FoldLeft(LAMBDA cells, i :
                            LET part == Bytes(Part(l, i), v.of[i])
                            IN  [j \in 1..m.size |-> IF j - m.at[i] \in DOMAIN part THEN part[j - m.at[i]] ELSE cells[j]],
                        [j \in 1..m.size |-> Blank], [i \in 1..Parts(l) |-> i])

\* The value some bytes stand for; Blank if none.
Read(l, bytes) ==
    CASE l.k = "int" ->
           IF \E b \in Range(bytes) : b.k # "byte" THEN Blank
           ELSE Number(l.bits, FoldRight(LAMBDA b, x : b.n + 2^Narrow * x, bytes, 0))
      [] l.k \in {"float", "llvm.ptr"} ->
           IF bytes = Bytes(l, Zero(l)) THEN Zero(l)
           ELSE IF \E i \in DOMAIN bytes : bytes[i].k # "piece" \/ bytes[i] # Piece(bytes[1].of, i) THEN Blank
           ELSE bytes[1].of
      [] OTHER ->
           LET m == Measure(l)
               parts == [i \in 1..Parts(l) |-> Read(Part(l, i), SubSeq(bytes, m.at[i] + 1, m.at[i] + Size(Part(l, i))))]
           IN  IF Blank \in Range(parts) THEN Blank ELSE List(parts)

-----------------------------------------------------------------------------
(* Operations, blocks and functions. *)

\* An operation: what it is, its result, its operands; its source type and layout and
\* those of its element or field; a number, an operator and a sign, keys or places.
Plain == [op |-> "", res |-> "", of |-> <<>>, src |-> None, lay |-> None, esrc |-> None, elay |-> None,
          n |-> 0, kind |-> "", signed |-> FALSE, keys |-> <<>>]
Op(op, res, of) == [Plain EXCEPT !.op = op, !.res = res, !.of = of]

\* A terminator goes to one of its blocks, each with the values it passes: the last
\* one of a switch is for what no key fits.  A match is the terminator of what comes
\* before it; its arms yield to its last block.
Edge(to, with) == [to |-> to, with |-> with]
End(op, of, to) == [op |-> op, of |-> of, to |-> to, src |-> None, keys |-> <<>>, n |-> 0, esrc |-> None, elay |-> None]
Goto(to, with) == End("br", <<>>, <<Edge(to, with)>>)
Branch(cond, yes, no) == End("cond_br", <<cond>>, <<yes, no>>)
Return(of) == End("return", of, <<>>)

Block(args, ops, term) == [args |-> args, ops |-> ops, term |-> term]

\* A key is a number of a type or a text, or fits everything.
Default == [k |-> "default"]
Key(type, x) == [k |-> "number", type |-> type, n |-> x]
Spelled(text) == [k |-> "text", text |-> text]

-----------------------------------------------------------------------------
(* Running: values, memory, the calls so far, and how it ended.            *)

Start(inputs, mem) == [env |-> inputs, mem |-> mem, at |-> <<1, 1>>, calls |-> <<>>, end |-> ""]
Ended(s, how) == [s EXCEPT !.end = how]
Bind(s, x, v) == [s EXCEPT !.env = (x :> v) @@ @]
Check(s, holds, next) == IF holds THEN next ELSE Ended(s, "trap")

Store(s, a, l, v) ==
    IF ~Inside(s.mem, a, Size(l)) THEN Ended(s, "undefined")
    ELSE [s EXCEPT !.mem[a.obj].cells = LET b == Bytes(l, v)
                                        IN  [i \in DOMAIN @ |-> IF i - a.at \in DOMAIN b THEN b[i - a.at] ELSE @[i]]]

Stored(s, a, l) ==
    IF ~Inside(s.mem, a, Size(l)) THEN Blank ELSE Read(l, SubSeq(s.mem[a.obj].cells, a.at + 1, a.at + Size(l)))

Load(s, x, a, l) == LET v == Stored(s, a, l) IN IF v = Blank THEN Ended(s, "undefined") ELSE Bind(s, x, v)

\* n copies, one behind the other.
Repeated(s, a, l, v, n) == FoldLeft(LAMBDA t, i : IF t.end # "" THEN t ELSE Store(t, Moved(a, (i - 1) * Size(l)), l, v),
                                    s, [i \in 1..n |-> i])

Reserve(s, x, l) == [Bind(s, x, Address(x, 0)) EXCEPT !.mem = (x :> Object(2, [i \in 1..Size(l) |-> Blank])) @@ @]

-----------------------------------------------------------------------------
(* What the operations mean. *)

Magnitude(x) == IF x < 0 THEN -x ELSE x
Quotient(a, b) == LET q == Magnitude(a) \div Magnitude(b) IN IF (a < 0) # (b < 0) THEN -q ELSE q

Exact(kind, a, b) ==
    CASE kind = "+" -> a + b
      [] kind = "-" -> a - b
      [] kind = "*" -> a * b
      [] kind = "/" -> Quotient(a, b)
      [] kind = "%" -> a - b * Quotient(a, b)

\* A remainder is only there if its quotient is.
Representable(kind, bits, signed, a, b) ==
    IF kind \in {"/", "%"} THEN b # 0 /\ Fits(bits, signed, Quotient(a, b)) ELSE Fits(bits, signed, Exact(kind, a, b))

Compare(kind, a, b) ==
    CASE kind = "==" -> a = b
      [] kind = "!=" -> a # b
      [] kind = "<" -> a < b
      [] kind = "<=" -> a <= b
      [] kind = ">" -> a > b
      [] kind = ">=" -> a >= b

\* The result is finite, which it also is if a number is divided by infinity; nothing is divided by zero.
Computable(kind, a, b) ==
    IsFinite(a) /\ (IsFinite(b) \/ kind = "/") /\ (kind = "/" => b.n # 0) /\ IsFinite(Real(Exact(kind, a.n, b.n)))

\* Nothing compares with what is not a number, but it is unequal.
Ordered(kind, a, b) == IF NaN \in {a, b} THEN kind = "!=" ELSE Compare(kind, a.n, b.n)

\* The elements of an array, down to those of a type.
RECURSIVE Elements(_, _)
Elements(l, element) == IF l = element THEN 1 ELSE l.n * Elements(l.of, element)

\* The numbers of a text; Blank if it is not all there.
Text(s, v) == IF v.of[2].n = 0 THEN List(<<>>) ELSE Stored(s, v.of[1], Row(Byte, v.of[2].n))
Readable(s, v, src) == src # String \/ Text(s, v) # Blank
Matching(s, v, src, key) ==
    CASE key = Default -> TRUE
      [] src = String -> Text(s, v).of = [i \in DOMAIN key.text |-> Number(Narrow, key.text[i])]
      [] src = Enum \/ src.k = "result" -> v.of[1].n = key.n
      [] OTHER -> v.n = key.n

-----------------------------------------------------------------------------

Least(S) == CHOOSE x \in S : \A y \in S : x <= y
Within(start, end, length) == start.n <= end.n /\ end.n <= length

\* An operation with its operands' values, and the layout of its result, or of what it stores.
Numeric(s, o, v, t) ==
    CASE o.op = "constant" -> Bind(s, o.res, Literal(t, o.n))
      [] o.op = "assert" -> Check(s, v[1].n = 1, s)
      [] o.op = "exact_int_widen" -> Bind(s, o.res, Number(t.bits, Decode(v[1], o.signed)))
      [] o.op = "checked_int_binary" ->
           LET a == Decode(v[1], o.signed)
               b == Decode(v[2], o.signed)
           IN  IF Representable(o.kind, t.bits, o.signed, a, b) THEN Bind(s, o.res, Number(t.bits, Exact(o.kind, a, b)))
               ELSE Ended(s, "trap")
      [] o.op = "checked_int_compare" ->
           Bind(s, o.res, Truth(Compare(o.kind, Decode(v[1], o.signed), Decode(v[2], o.signed))))
      [] o.op = "checked_float_binary" ->
           IF Computable(o.kind, v[1], v[2]) THEN Bind(s, o.res, Real(Exact(o.kind, v[1].n, v[2].n))) ELSE Ended(s, "trap")
      [] o.op = "require_finite" -> Check(s, IsFinite(v[1]), s)
      [] o.op = "checked_float_compare" -> Bind(s, o.res, Truth(Ordered(o.kind, v[1], v[2])))
      [] o.op = "enum_constant" -> Bind(s, o.res, List(<<Number(Narrow, o.n)>>))
      [] o.op = "enum_compare" -> Bind(s, o.res, Truth((v[1] = v[2]) # (o.kind = "!=")))
      [] o.op = "xor" -> Bind(s, o.res, Truth(v[1] # v[2]))
      [] o.op = "case_test" ->
           IF Readable(s, v[1], o.src) THEN Bind(s, o.res, Truth(Matching(s, v[1], o.src, o.keys[1])))
           ELSE Ended(s, "undefined")

Aggregate(s, o, v) ==
    CASE o.op = "array_literal" -> Bind(s, o.res, List(v))
      [] o.op = "repeat_array" -> Bind(s, o.res, List([i \in 1..o.lay.n |-> v[1]]))
      [] o.op = "zeroed_array" -> Bind(s, o.res, Zero(o.lay))
      [] o.op = "struct_literal" ->
           Bind(s, o.res, List([i \in DOMAIN v |-> v[CHOOSE j \in DOMAIN v : o.keys[j] = i - 1]]))
      [] o.op = "extract_field" -> Bind(s, o.res, v[1].of[o.n + 1])
      [] o.op \in {"string_literal", "error_literal"} -> Bind(s, o.res, List(v))
      [] o.op = "error_message" -> Bind(s, o.res, v[1].of[1])
      [] o.op = "error_code" -> Bind(s, o.res, v[1].of[2])
      [] o.op = "error_os_error" -> Bind(s, o.res, v[1].of[3])
      [] o.op = "result_success" -> Bind(s, o.res, List(<<Truth(FALSE)>> \o v \o <<Zero(Failure)>>))
      [] o.op = "result_failure" ->
           Bind(s, o.res, List([i \in DOMAIN o.lay.parts |-> CASE i = 1 -> Truth(TRUE)
                                                            [] i = Len(o.lay.parts) -> v[1]
                                                            [] OTHER -> Zero(o.lay.parts[i])]))
      [] o.op = "result_is_error" -> Bind(s, o.res, v[1].of[1])
      [] o.op = "result_value" -> Check(s, v[1].of[1].n = 0, Bind(s, o.res, v[1].of[2]))
      [] o.op = "result_error" -> Check(s, v[1].of[1].n = 1, Bind(s, o.res, Last(v[1].of)))
      [] o.op \in {"from_layout", "to_layout"} -> Bind(s, o.res, v[1])
      [] o.op = "slice_length" -> Bind(s, o.res, v[1].of[2])

Fitting(s, o, v) == ~IsNull(v[1]) /\ Size(o.elay) <= Signed(v[2]) /\ Place(s.mem, v[1]) % Measure(o.elay).align = 0

Pointed(s, o, v) ==
    CASE o.op = "null" -> Bind(s, o.res, Null)
      [] o.op = "arena_typed_pointer" -> Check(s, o.src.nullable \/ ~IsNull(v[1]), Bind(s, o.res, v[1]))
      [] o.op = "raw_place" ->
           IF Fitting(s, o, v) THEN Bind(Store(s, v[1], o.elay, v[3]), o.res, v[1]) ELSE Bind(s, o.res, Null)
      [] o.op = "raw_padding" ->
           Bind(s, o.res, Count(Least({p \in 0..1 : (Place(s.mem, v[1]) + p) % Measure(o.elay).align = 0})))
      [] o.op = "pointer_offset" -> Check(s, ~IsNull(v[1]), Bind(s, o.res, Moved(v[1], Signed(v[2]) * Size(o.elay))))
      [] o.op = "require_nonnull" -> Check(s, ~IsNull(v[1]), Bind(s, o.res, v[1]))
      [] o.op = "pointer_compare" -> Bind(s, o.res, Truth((v[1] = v[2]) # (o.kind = "!=")))
      [] o.op = "array_element_address" ->
           Check(s, v[2].n < o.lay.n, Bind(s, o.res, Moved(v[1], v[2].n * Size(o.lay.of))))
      [] o.op = "field_address" -> Bind(s, o.res, Moved(v[1], Measure(o.lay).at[o.n + 1]))
      [] o.op = "slice_from_array" ->
           Check(s, Within(v[2], v[3], o.elay.n), Bind(s, o.res, Sliced(Moved(v[1], v[2].n * Size(o.elay.of)), v[3].n - v[2].n)))
      [] o.op = "slice_subrange" ->
           Check(s, Within(v[2], v[3], v[1].of[2].n),
                 Bind(s, o.res, Sliced(Moved(v[1].of[1], v[2].n * Size(o.elay)), v[3].n - v[2].n)))
      [] o.op = "slice_from_pointer" ->
           Check(s, /\ 0 <= Signed(v[2]) /\ Signed(v[2]) <= Signed(v[3])
                    /\ (v[2] = v[3] \/ ~IsNull(v[1])),
                 Bind(s, o.res, Sliced(Moved(v[1], v[2].n * Size(o.elay)), v[3].n - v[2].n)))
      [] o.op = "slice_element_address" ->
           Check(s, v[2].n < v[1].of[2].n, Bind(s, o.res, Moved(v[1].of[1], v[2].n * Size(o.elay))))

\* What the memory and the world see.
Effect(s, o, v, t) ==
    CASE o.op = "stack_alloc" -> Reserve(s, o.res, o.elay)
      [] o.op = "load" -> Load(s, o.res, v[1], o.lay)
      [] o.op = "store" -> Store(s, v[2], t, v[1])
      [] o.op = "array_fill" -> Repeated(s, v[1], o.elay, v[2], Elements(o.lay, o.elay))
      [] o.op = "arena_fill" -> Repeated(s, v[1], o.elay, v[2], Signed(v[3]))
      [] o.op \in {"abi_call", "call"} ->
           [(IF o.res = "" THEN s ELSE Bind(s, o.res, Zero(t))) EXCEPT !.calls = Append(@, <<o.kind, v>>)]

OfNumbers == {"constant", "assert", "exact_int_widen", "checked_int_binary", "checked_int_compare", "checked_float_binary",
              "require_finite", "checked_float_compare", "enum_constant", "enum_compare", "case_test", "xor"}
OfPointers == {"null", "arena_typed_pointer", "raw_place", "raw_padding", "pointer_offset", "require_nonnull",
               "pointer_compare", "array_element_address", "field_address", "slice_from_array", "slice_subrange",
               "slice_from_pointer", "slice_element_address"}
OfEffects == {"stack_alloc", "load", "store", "array_fill", "arena_fill", "abi_call", "call"}

Meaning(s, o, v, t) ==
    CASE o.op \in OfNumbers -> Numeric(s, o, v, t)
      [] o.op \in OfPointers -> Pointed(s, o, v)
      [] o.op \in OfEffects -> Effect(s, o, v, t)
      [] OTHER -> Aggregate(s, o, v)

=============================================================================
