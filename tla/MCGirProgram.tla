------------------------------ MODULE MCGirProgram ------------------------------
EXTENDS GirProgram

\* Operations with their types and layouts.
Typed(op, res, of, src, lay) == [Op(op, res, of) EXCEPT !.src = src, !.lay = lay]
Element(op, res, of, src, lay, esrc, elay) == [Typed(op, res, of, src, lay) EXCEPT !.esrc = esrc, !.elay = elay]
Arith(op, res, of, kind, signed) == [Op(op, res, of) EXCEPT !.kind = kind, !.signed = signed]
Const(res, x) == [Op("constant", res, <<>>) EXCEPT !.n = x]
Field(op, res, of, src, lay, esrc, n) == [Typed(op, res, of, src, lay) EXCEPT !.esrc = esrc, !.n = n]

\* A struct with a gap between its fields.
S == Struct("S")
SLay == Record(<<Byte, Long>>)
MCStructs == [S |-> [fields |-> <<Byte, Long>>, lay |-> SLay]]
MCRuntime == [free |-> [takes |-> <<Pointer>>, gives |-> None], now |-> [takes |-> <<>>, gives |-> Long],
              write |-> [takes |-> <<Pair>>, gives |-> Long]]

LayoutOf(t) == Layout(t, MCStructs)
Laid_(ts) == [i \in DOMAIN ts |-> LayoutOf(ts[i])]
Declared(takes, gives, calls) ==
    [takes |-> takes, gives |-> gives, layTakes |-> Laid_(takes), layGives |-> Laid_(gives), calls |-> calls]

Module(takes, gives, types, blocks, inputs) ==
    [code |-> [structs |-> MCStructs, runtime |-> MCRuntime, types |-> types, blocks |-> blocks,
               functions |-> [main |-> Declared(takes, gives, <<"used">>), used |-> Declared(<<Byte>>, <<S>>, <<"deep">>),
                              deep |-> Declared(<<>>, <<>>, <<"used">>), unused |-> Declared(<<S>>, <<>>, <<"deep">>)]],
     inputs |-> inputs]
Line(takes, gives, types, args, ops, ret, inputs) == Module(takes, gives, types, <<Block(args, ops, Return(ret))>>, inputs)
Input(env, mem) == [env |-> env, mem |-> mem]
Bytes2 == {Number(Narrow, x) : x \in 0..2^Narrow - 1}
Longs == {Number(Word, x) : x \in 0..2^Word - 1}
Few == {Number(Word, x) : x \in {0, 1, 2, 3, 15}}
Reals == {Real(x) : x \in -2..2}

-----------------------------------------------------------------------------
(* Numbers. *)

Arithmetics ==
    {Line(<<Byte, Byte>>, <<Long>>, [a |-> Byte, b |-> Byte, c |-> Byte, d |-> Long, e |-> Bool], <<"a", "b">>,
          <<Arith("checked_int_binary", "c", <<"a", "b">>, kind, signed), Arith("exact_int_widen", "d", <<"c">>, "", signed),
            Arith("checked_int_compare", "e", <<"a", "b">>, test, signed), Op("assert", "", <<"e">>)>>, <<"d">>,
          {Input([a |-> a, b |-> b], <<>>) : a \in Bytes2, b \in Bytes2})
     : signed \in BOOLEAN,
       <<kind, test>> \in {<<"+", "<=">>, <<"-", ">=">>, <<"*", "!=">>, <<"/", ">">>, <<"%", "<">>, <<"+", "==">>}}

Foldings ==
    {Line(<<Byte>>, <<Byte>>, [a |-> Byte, b |-> Byte, c |-> Byte, d |-> Byte], <<"a">>,
          <<Const("b", x), Arith("checked_int_binary", "c", of, kind, signed),
            Arith("checked_int_binary", "d", <<"c", "b">>, "-", signed)>>, <<"c">>,
          {Input([a |-> a], <<>>) : a \in Bytes2})
     : signed \in BOOLEAN, kind \in {"+", "-", "*", "/", "%"}, x \in -1..2, of \in {<<"a", "b">>, <<"b", "a">>, <<"b", "b">>}}

Floats ==
    {Line(<<Float, Float>>, <<Bool>>, [a |-> Float, b |-> Float, c |-> Float, d |-> Bool], <<"a", "b">>,
          <<Arith("checked_float_binary", "c", <<"a", "b">>, kind, FALSE), Op("require_finite", "", <<"c">>),
            Arith("checked_float_compare", "d", <<"c", "b">>, test, FALSE)>>, <<"d">>,
          {Input([a |-> a, b |-> b], <<>>) : a \in Reals, b \in Reals})
     : <<kind, test>> \in {<<"+", "<=">>, <<"-", ">=">>, <<"*", "!=">>, <<"/", ">">>, <<"+", "==">>, <<"-", "<">>}}
    \cup
    {Line(<<Float>>, <<Bool>>, [a |-> Float, d |-> Bool], <<"a">>,
          <<Arith("checked_float_compare", "d", <<"a", "a">>, test, FALSE), Op("require_finite", "", <<"a">>)>>, <<"d">>,
          {Input([a |-> a], <<>>) : a \in {Infinite, NaN, Real(0)}}) : test \in {"==", "!="}}

-----------------------------------------------------------------------------
(* Selection: a value of each kind, tested in order. *)

EnumLay == Record(<<Byte>>)
Tag(x) == List(<<Number(Narrow, x)>>)
Chars(xs) == [i \in DOMAIN xs |-> Bits(xs[i])]
Texts == {Input([a |-> Sliced(Address("t", 0), n)], [t |-> Object(2, Chars(cells))]) : n \in 0..2, cells \in {<<1, 2>>, <<1, 3>>}}

Subjects == {[type |-> Enum, n |-> 3, keys |-> <<Key(Byte, 2), Key(Byte, 0), Key(Byte, 1)>>, inputs |-> {Input([a |-> Tag(x)], <<>>) : x \in 0..2}],
             [type |-> Enum, n |-> 3, keys |-> <<Key(Byte, 2), Key(Byte, 0), Default>>, inputs |-> {Input([a |-> Tag(x)], <<>>) : x \in 0..2}],
             [type |-> Bool, n |-> 2, keys |-> <<Key(Bool, 1), Key(Bool, 0)>>, inputs |-> {Input([a |-> Truth(x)], <<>>) : x \in BOOLEAN}],
             [type |-> Long, n |-> 0, keys |-> <<Key(Long, 7), Key(Long, 1), Default>>, inputs |-> {Input([a |-> x], <<>>) : x \in Longs}],
             [type |-> Long, n |-> 0, keys |-> <<Key(Long, 7), Key(Long, 1)>>, inputs |-> {Input([a |-> x], <<>>) : x \in Longs}],
             [type |-> String, n |-> 0, keys |-> <<Spelled(<<1, 2>>), Spelled(<<>>), Default>>, inputs |-> Texts],
             [type |-> Result(Byte), n |-> 2, keys |-> <<Key(Bool, 0), Key(Bool, 1)>>,
              inputs |-> {Input([a |-> List(<<Truth(x), Number(Narrow, 1), Zero(Failure)>>)], <<>>) : x \in BOOLEAN}]}

Select(op, e, to) == [End(op, <<"a">>, [i \in DOMAIN to |-> Edge(to[i], <<>>)]) EXCEPT
                         !.src = e.type, !.keys = e.keys, !.n = e.n, !.esrc = Byte, !.elay = Byte]
Arms(n) == [i \in 1..n |-> i + 1]
Arm(i, term) == Block(<<>>, <<Const("k" \o ToString(i), i)>>, term)
Test(e) == [Typed("case_test", "t", <<"a">>, e.type, None) EXCEPT !.keys = <<e.keys[2]>>]
SelectTypes(e) == [a |-> e.type, t |-> Bool, k1 |-> Byte, k2 |-> Byte, k3 |-> Byte, v |-> Byte]

Selections ==
    {Module(<<e.type>>, <<Byte>>, SelectTypes(e),
            <<Block(<<"a">>, <<Test(e)>>, Select("switch", e, Arms(Len(e.keys) + 1)))>>
              \o [i \in 1..Len(e.keys) |-> Arm(i, Goto(Len(e.keys) + 3, <<"k" \o ToString(i)>>))]
              \o <<Arm(3, Goto(Len(e.keys) + 3, <<"k3">>)), Block(<<"v">>, <<>>, Return(<<"v">>))>>, e.inputs) : e \in Subjects}
    \cup
    {Module(<<e.type>>, <<Byte>>, SelectTypes(e),
            <<Block(<<"a">>, <<Test(e)>>, Select("match", e, Arms(Len(e.keys) + 1)))>>
              \o [i \in 1..Len(e.keys) |-> Arm(i, End("match_yield", <<"k" \o ToString(i)>>, <<Edge(Len(e.keys) + 2, <<"k" \o ToString(i)>>)>>))]
              \o <<Block(<<"v">>, <<>>, Return(<<"v">>))>>, e.inputs) : e \in Subjects}

Enums ==
    {Line(<<Enum>>, <<Bool>>, [a |-> Enum, b |-> Enum, c |-> Bool], <<"a">>,
          <<[Typed("enum_constant", "b", <<>>, Enum, EnumLay) EXCEPT !.n = 1],
            [Typed("enum_compare", "c", <<"a", "b">>, Enum, EnumLay) EXCEPT !.kind = kind]>>, <<"c">>,
          {Input([a |-> Tag(x)], <<>>) : x \in 0..2}) : kind \in {"==", "!="}}

-----------------------------------------------------------------------------
(* Errors, results and aggregates. *)

RLay == Record(<<Bool, Byte, Failure>>)
VLay == Record(<<Bool, Failure>>)
AByte == Array(Byte, 2)
ALay == Row(Byte, 2)
Word8 == Input([p |-> Address("t", 0), n |-> Count(1), x |-> Number(Narrow, 2), y |-> Count(9)], [t |-> Object(2, Chars(<<1, 2>>))])

Outcomes_ ==
    {Line(<<Pointer, Long, Byte>>, <<Byte>>,
          [p |-> Pointer, n |-> Long, x |-> Byte, m |-> String, e |-> Error, g |-> String, c |-> Byte, o |-> Byte,
           r |-> Result(Byte), w |-> Result(None), b |-> Bool, v |-> Byte, f |-> Error, u |-> Bool],
          <<"p", "n", "x">>,
          <<Typed("string_literal", "m", <<"p", "n">>, String, Pair), Typed("error_literal", "e", <<"m", "x", "x">>, Error, Failure),
            Typed("error_message", "g", <<"e">>, Error, Pair), Op("error_code", "c", <<"e">>), Op("error_os_error", "o", <<"e">>),
            made, Typed("result_success", "w", <<>>, Result(None), VLay), Op("result_is_error", "b", <<"r">>),
            Op("result_is_error", "u", <<"w">>)>> \o asked, <<"x">>, {Word8})
     : made \in {Typed("result_success", "r", <<"x">>, Result(Byte), RLay), Typed("result_failure", "r", <<"e">>, Result(Byte), RLay)},
       asked \in {<<Typed("result_value", "v", <<"r">>, Result(Byte), Byte)>>, <<Typed("result_error", "f", <<"r">>, Result(Byte), Failure)>>,
                  <<>>}}

SPtr == Ptr(S, FALSE, FALSE)
SConst == Ptr(S, FALSE, TRUE)
Aggregates ==
    {Line(<<Byte, Long>>, <<Long>>,
          [x |-> Byte, y |-> Long, s |-> S, a |-> Ptr(S, FALSE, FALSE), f |-> Ptr(Long, FALSE, FALSE), z |-> Long, l |-> S,
           g |-> Byte, q |-> AByte, b |-> Ptr(AByte, FALSE, FALSE), h |-> Ptr(Byte, FALSE, FALSE), w |-> Byte],
          <<"x", "y">>,
          <<[Typed("struct_literal", "s", of, S, SLay) EXCEPT !.keys = keys, !.esrc = <<Byte, Long>>],
            Element("stack_alloc", "a", <<>>, S, None, None, SLay), Typed("store", "", <<"s", "a">>, S, None),
            Field("field_address", "f", <<"a">>, S, SLay, Long, 1), Typed("load", "z", <<"f">>, Long, Long),
            Typed("load", "l", <<"a">>, S, SLay), Field("extract_field", "g", <<"l">>, S, SLay, Byte, 0),
            Typed("array_literal", "q", <<"x", "g">>, AByte, ALay), Element("stack_alloc", "b", <<>>, AByte, None, None, ALay),
            Typed("store", "", <<"q", "b">>, AByte, None), Typed("array_element_address", "h", <<"b", "y">>, AByte, ALay),
            Typed("load", "w", <<"h">>, Byte, Byte)>>, <<"z">>,
          {Input([x |-> Number(Narrow, 3), y |-> y], <<>>) : y \in Few})
     : <<of, keys>> \in {<<<<"x", "y">>, <<0, 1>>>>, <<<<"y", "x">>, <<1, 0>>>>, <<<<"x", "x">>, <<0, 0>>>>}}

\* Arrays of one element are stored as fills, of zeros as bytes.
Fill(element, lay) ==
    LET inner == Array(element, 2)
        outer == Array(inner, 2)
        innerLay == Row(lay, 2)
        outerLay == Row(innerLay, 2)
    IN  Line(<<element>>, <<element>>,
             [x |-> element, i |-> inner, o |-> outer, a |-> Ptr(outer, FALSE, FALSE), z |-> outer, l |-> outer,
              b |-> Ptr(outer, FALSE, FALSE), c |-> outer], <<"x">>,
             <<Typed("repeat_array", "i", <<"x">>, inner, innerLay), Typed("repeat_array", "o", <<"i">>, outer, outerLay),
               Element("stack_alloc", "a", <<>>, outer, None, None, outerLay),
               Element("stack_alloc", "b", <<>>, outer, None, None, outerLay),
               Typed("store", "", <<"o", "a">>, outer, None), Typed("load", "l", <<"a">>, outer, outerLay),
               Typed("zeroed_array", "z", <<>>, outer, outerLay), Typed("store", "", <<"z", "a">>, outer, None),
               Typed("load", "c", <<"a">>, outer, outerLay)>>,
             <<"x">>, {Input([x |-> v], <<>>) : v \in {Zero(lay), IF lay = SLay THEN List(<<Number(Narrow, 1), Count(2)>>)
                                                                  ELSE IF lay = Float THEN Real(1) ELSE Number(lay.bits, 1)}})
Fills == {Fill(Byte, Byte), Fill(Bool, Bool), Fill(Float, Float)}

-----------------------------------------------------------------------------
(* Pointers and slices. *)

BPtr == Ptr(Byte, TRUE, FALSE)
LPtr == Ptr(Long, TRUE, FALSE)
LSafe == Ptr(Long, FALSE, FALSE)
HPtr == Ptr(Byte, FALSE, FALSE)
APtr == Ptr(AByte, FALSE, FALSE)
Memory == [t |-> Object(1, Chars(<<1, 2, 3, 0, 1, 2>>))]
Somewhere == {Null, Address("t", 0), Address("t", 1)}

Places_ ==
    {Line(<<BPtr, Long>>, <<Long>>,
          [p |-> BPtr, n |-> Long, x |-> Long, r |-> LPtr, d |-> Long, c |-> Bool, k |-> LSafe, o |-> BPtr, l |-> Long, i |-> Long,
           z |-> LPtr], <<"p", "n">>,
          <<Const("x", 6), Const("i", 1), Typed("null", "z", <<>>, LPtr, None),
            [Op("raw_padding", "d", <<"p">>) EXCEPT !.elay = Long],
            Element("raw_place", "r", <<"p", "n", "x">>, LPtr, None, Long, Long),
            [Typed("pointer_compare", "c", <<"r", "z">>, LPtr, None) EXCEPT !.kind = kind],
            Element("pointer_offset", "o", <<"p", "i">>, BPtr, None, None, Byte),
            Typed("require_nonnull", "k", <<"r">>, LPtr, None), Typed("load", "l", <<"k">>, Long, Long)>>, <<"d">>,
          {Input([p |-> p, n |-> n], Memory) : p \in Somewhere, n \in Few}) : kind \in {"==", "!="}}

Allocations ==
    {LET q == Ptr(Long, nullable, FALSE)
     IN  Line(<<BPtr, Long, Long>>, <<>>, [p |-> BPtr, n |-> Long, x |-> Long, q |-> q, k |-> LSafe], <<"p", "n", "x">>,
              <<Element("arena_typed_pointer", "q", <<"p">>, q, None, None, Long)>>
                \o (IF nullable THEN <<Typed("require_nonnull", "k", <<"q">>, LPtr, None)>> ELSE <<>>)
                \o <<Element("arena_fill", "", <<IF nullable THEN "k" ELSE "q", "x", "n">>, LSafe, None, Long, Long)>>, <<>>,
              {Input([p |-> p, n |-> n, x |-> Count(9)], Memory) : p \in {Null, Address("t", 1)}, n \in Few}) : nullable \in BOOLEAN}

ASlice == Slice(Byte, FALSE)
Length(res, of) == Typed("slice_length", res, <<of>>, ASlice, Pair)
ElementAt(res, of) == Element("slice_element_address", res, of, ASlice, Pair, None, Byte)

Slices ==
    {Line(<<APtr, Long, Long>>, <<Long>>,
          [a |-> APtr, i |-> Long, j |-> Long, s |-> ASlice, u |-> ASlice, n |-> Long, h |-> HPtr, x |-> Byte], <<"a", "i", "j">>,
          <<Element("slice_from_array", "s", <<"a", "i", "j">>, ASlice, Pair, None, ALay),
            Element("slice_subrange", "u", of, ASlice, Pair, None, Byte), Length("n", "u"), ElementAt("h", <<"u", "i">>),
            Typed("load", "x", <<"h">>, Byte, Byte)>>,
          <<"n">>, {Input([a |-> Address("t", 0), i |-> i, j |-> j], Memory) : i \in Few, j \in Few})
     : of \in {<<"s", "i", "j">>, <<"s", "j", "i">>}}
    \cup
    {Line(<<BPtr, Long, Long>>, <<Long>>,
          [p |-> BPtr, i |-> Long, j |-> Long, s |-> ASlice, n |-> Long, o |-> Long, h |-> HPtr, c |-> Long],
          <<"p", "i", "j">>,
          <<Element("slice_from_pointer", "s", <<"p", "i", "j">>, ASlice, Pair, None, Byte), Length("n", "s"), Const("c", 1),
            Arith("checked_int_binary", "o", <<"n", "c">>, "-", FALSE), ElementAt("h", <<"s", "o">>)>>,
          <<"n">>, {Input([p |-> p, i |-> i, j |-> j], Memory) : p \in {Null, Address("t", 1)}, i \in Few, j \in Few})}

Calls ==
    {Line(<<String, BPtr>>, <<Long>>,
          [s |-> String, p |-> BPtr, t |-> Pair, r |-> Pointer, w |-> Long, x |-> Byte, v |-> S, y |-> Long, l |-> Long, m |-> Long],
          <<"s", "p">>,
          <<Op("to_layout", "t", <<"s">>), Op("to_layout", "r", <<"p">>),
            [Op("abi_call", "w", <<"t">>) EXCEPT !.kind = "write"], [Op("abi_call", "", <<"r">>) EXCEPT !.kind = "free"], Const("x", 2),
            [Op("call", "v", <<"x">>) EXCEPT !.kind = callee], Field("extract_field", "y", <<"v">>, S, SLay, Long, 1),
            [Op("abi_call", "l", <<>>) EXCEPT !.kind = "now"], Op("from_layout", "m", <<"l">>)>>, <<"m">>,
          {Input([s |-> Sliced(Address("t", 0), 1), p |-> Address("t", 0)], Memory)}) : callee \in {"used", "unknown"}}

-----------------------------------------------------------------------------
(* Checks that are proved: a loop over a slice or an array, and guarded arithmetic. *)

Bounded(kind, bound, step) ==
    Module(<<ASlice, Long>>, <<Long>>,
           [s |-> ASlice, e |-> Long, z |-> Long, o |-> Long, n |-> Long, i |-> Long, t |-> Bool, h |-> HPtr,
            x |-> Byte, j |-> Long, r |-> Long],
           <<Block(<<"s", "e">>, <<Const("z", 0), Const("o", step), Length("n", "s")>>, Goto(2, <<"z">>)),
             Block(<<"i">>, <<Arith("checked_int_compare", "t", <<"i", bound>>, kind, FALSE)>>,
                   Branch("t", Edge(3, <<>>), Edge(4, <<"i">>))),
             Block(<<>>, <<ElementAt("h", <<"s", "i">>), Typed("load", "x", <<"h">>, Byte, Byte),
                           Arith("checked_int_binary", "j", <<"i", "o">>, "+", FALSE)>>, Goto(2, <<"j">>)),
             Block(<<"r">>, <<>>, Return(<<"r">>))>>,
           {Input([s |-> Sliced(Address("t", 0), n), e |-> Count(2)], Memory) : n \in 0..3})

Guarded(kind, test, truth) ==
    Module(<<Byte, Byte, APtr>>, <<Byte>>,
           [a |-> Byte, b |-> Byte, t |-> Bool, n |-> Bool, y |-> Bool, c |-> Byte, d |-> Byte, p |-> APtr, w |-> Long,
            h |-> HPtr, k |-> Long, g |-> Long],
           <<Block(<<"a", "b", "p">>,
                   <<Arith("checked_int_compare", "t", <<"a", "b">>, test, FALSE), Const("y", 1), Op("xor", "n", <<"t", "y">>),
                     Arith("exact_int_widen", "w", <<"a">>, "", FALSE), Const("k", 2),
                     Arith("checked_int_binary", "g", <<"w", "k">>, "%", FALSE)>>,
                   Branch(truth, Edge(2, <<>>), Edge(3, <<>>))),
             Block(<<>>, <<Arith("checked_int_binary", "c", <<"b", "a">>, kind, FALSE),
                           Typed("array_element_address", "h", <<"p", "g">>, AByte, ALay)>>, Return(<<"c">>)),
             Block(<<>>, <<Arith("checked_int_binary", "d", <<"a", "b">>, kind, FALSE)>>, Return(<<"d">>))>>,
           {Input([a |-> a, b |-> b, p |-> Address("t", 0)], Memory) : a \in Bytes2, b \in Bytes2})

Proofs == {Bounded(kind, bound, step) : kind \in {"<", "<=", "!="}, bound \in {"n", "e"}, step \in {1, 2}}
          \cup {Guarded(kind, test, truth) : kind \in {"-", "/"}, test \in {"<", "<=", ">", "==", "!="}, truth \in {"t", "n"}}

-----------------------------------------------------------------------------
(* Loops with their counters in storage: over two slices, or over groups of their elements. *)

Slot(res, lay) == Element("stack_alloc", res, <<>>, lay, None, None, lay)
ReadLong(res, of) == Typed("load", res, <<of>>, Long, Long)
WriteLong(x, at) == Typed("store", "", <<x, at>>, Long, None)
Plus(res, x, y, signed) == Arith("checked_int_binary", res, <<x, y>>, "+", signed)
Cells(n) == Object(1, Chars([i \in 1..n |-> i]))
Slots == [i |-> LSafe, k |-> LSafe, v |-> Long, w |-> Long, y |-> Long, a |-> Long, b |-> Long, n |-> Long, t |-> Bool,
          z |-> Long, o |-> Long, p |-> Long, h |-> HPtr, g |-> HPtr, x |-> Byte, j |-> Long, l |-> Long, r |-> Long, m |-> Long, c |-> HPtr,
          s |-> ASlice, u |-> ASlice, e |-> Long, q |-> Pointer]
Over(lengths, others, bounds) ==
    {Input([s |-> Sliced(Address("f", 0), n), u |-> Sliced(Address("g", 0), m), e |-> Count(e)], [f |-> Cells(7), g |-> Cells(7)])
     : n \in lengths, m \in others, e \in bounds}

\* for i in start..bound: u[index] = s[i], with a step, and perhaps what sees the counter.
Loop(signed, kind, start, step, bound, index, seen, after) ==
    Module(<<ASlice, ASlice, Long>>, <<Long>>, Slots,
           <<Block(<<"s", "u", "e">>,
                   <<Const("z", start), Const("o", step), Slot("i", Long), WriteLong("z", "i"), Length("n", "s")>>
                     \o (IF seen THEN <<Op("to_layout", "q", <<"i">>), [Op("abi_call", "", <<"q">>) EXCEPT !.kind = "free"]>> ELSE <<>>),
                   Goto(2, <<>>)),
             Block(<<>>, <<ReadLong("v", "i"), Arith("checked_int_compare", "t", <<"v", bound>>, kind, signed)>>,
                   Branch("t", Edge(3, <<>>), Edge(4, <<>>))),
             Block(<<>>, <<ReadLong("w", "i"), ElementAt("h", <<"s", "w">>), Typed("load", "x", <<"h">>, Byte, Byte),
                           ElementAt("g", <<"u", index>>), Typed("store", "", <<"x", "g">>, Byte, None),
                           ReadLong("y", "i"), Plus("j", "y", "o", signed), WriteLong("j", "i")>>, Goto(2, <<>>)),
             Block(<<>>, <<ReadLong("r", "i")>>, Return(<<IF after THEN "r" ELSE "e">>))>>,
           Over({0, 3, 7}, {1, 7}, {3, 7, 15}))

Loops == {Loop(signed, "<", start, step, bound, "v", FALSE, FALSE)
          : signed \in BOOLEAN, start \in {0, -1}, step \in {1, 2}, bound \in {"e", "n"}}
         \cup {Loop(signed, "<=", 0, 1, "e", "v", FALSE, FALSE) : signed \in BOOLEAN}
         \cup {Loop(FALSE, "<", 0, 1, "e", index, seen, after) : index \in {"v", "e"}, seen \in BOOLEAN, after \in BOOLEAN}

\* while i + stride <= bound: u[k + offset], perhaps s[i], k += second, i += step, and what is left behind.
Groups(stride, step, offset, second, bound, behind) ==
    Module(<<ASlice, ASlice, Long>>, <<Long>>, Slots,
           <<Block(<<"s", "u", "e">>,
                   <<Const("z", 0), Const("o", stride), Slot("i", Long), Slot("k", Long), WriteLong("z", "i"), WriteLong("z", "k")>>,
                   Goto(2, <<>>)),
             Block(<<>>, <<ReadLong("v", "i"), Plus("a", "v", "o", FALSE), Length("n", "u"),
                           Arith("checked_int_compare", "t", <<"a", bound>>, "<=", FALSE)>>,
                   Branch("t", Edge(3, <<>>), Edge(4, <<>>))),
             Block(<<>>, <<Const("p", second), Const("b", offset), ReadLong("w", "k"), Plus("l", "w", "b", FALSE), ElementAt("g", <<"u", "l">>),
                           Typed("load", "x", <<"g">>, Byte, Byte)>>
                         \o (IF step = 0 THEN <<ElementAt("h", <<"s", "v">>), Typed("store", "", <<"x", "h">>, Byte, None)>> ELSE <<>>)
                         \o <<Plus("y", "w", "p", FALSE), WriteLong("y", "k"), Const("m", step), Plus("j", "v", "m", FALSE),
                              WriteLong(IF step = 0 THEN "a" ELSE "j", "i")>>, Goto(2, <<>>)),
             Block(<<>>, IF behind THEN <<ReadLong("r", "i"), ElementAt("c", <<"s", "r">>)>> ELSE <<ReadLong("r", "k")>>, Return(<<"r">>))>>,
           Over({0, 5}, {3, 7}, {3, 4, 15}))

Groupings == {Groups(stride, step, offset, second, bound, behind)
              : stride \in {1, 2}, step \in {0, 1, 2}, offset \in {0, 1}, second \in {1, 2}, bound \in {"e", "n"}, behind \in BOOLEAN}

\* A chain of float operations with storage, and perhaps an operation between.
Chained(kinds, of, between) ==
    Line(<<Float, Float>>, <<Float>>,
         [a |-> Float, b |-> Float, m |-> Ptr(Float, FALSE, FALSE), c |-> Float, d |-> Float, e |-> Float, f |-> Float, g |-> Float],
         <<"a", "b">>,
         <<Slot("m", Float), Typed("store", "", <<"a", "m">>, Float, None), Arith("checked_float_binary", "c", <<"a", "b">>, kinds[1], FALSE), Typed("store", "", <<"c", "m">>, Float, None)>>
           \o (IF between THEN <<Const("e", 1)>> ELSE <<>>)
           \o <<Typed("load", "f", <<"m">>, Float, Float), Arith("checked_float_binary", "d", <<"f", of>>, kinds[2], FALSE),
                Arith("checked_float_binary", "g", <<"b", "d">>, kinds[3], FALSE)>>, <<"g">>,
         {Input([a |-> a, b |-> b], <<>>) : a \in Reals, b \in Reals})
Chains == {Chained(kinds, of, between)
           : kinds \in {<<"+", "-", "*">>, <<"*", "*", "+">>, <<"*", "/", "+">>, <<"+", "*", "/">>}, of \in {"a", "f", "c"}, between \in BOOLEAN}

-----------------------------------------------------------------------------
(* Float operations in loops, behind conditions and over arrays. *)

FSlice == Slice(Float, FALSE)
FArray == Array(Float, 2)
FRow == Row(Float, 2)
FPtr == Ptr(Float, FALSE, FALSE)
FCells == Ptr(FArray, FALSE, FALSE)
ReadFloat(res, at) == Typed("load", res, <<at>>, Float, Float)
FAt(res, of) == Typed("array_element_address", res, of, FArray, FRow)
Filled(res, op, of, at) == <<Element("stack_alloc", at, <<>>, FArray, None, None, FRow), Typed(op, res, of, FArray, FRow),
                           Typed("store", "", <<res, at>>, FArray, None)>>
FloatOp(kind, res, x, y) == Arith("checked_float_binary", res, <<x, y>>, kind, FALSE)

\* for i in start..e: sum += x[i] * y[i], with what else is done to the sum.
Summed(first, start, step, sliced, other, factors) ==
    Module(<<Float, Float, Long>>, <<Float>>,
           [a |-> Float, b |-> Float, e |-> Long, z |-> Long, o |-> Long, f |-> Float, k |-> Float, s |-> FPtr, x |-> FCells, y |-> FCells,
            q |-> FArray, w |-> FArray, v |-> FSlice, n |-> Long, i |-> Long, t |-> Bool, h |-> FPtr, g |-> FPtr, c |-> Float, d |-> Float,
            m |-> Float, l |-> Float, p |-> Float, j |-> Long, r |-> Float, u |-> Long],
           <<Block(<<"a", "b", "e">>,
                   <<Const("z", start), Const("o", step), Const("f", 0), Const("k", 2), Slot("s", Float)>>
                     \o Filled("q", "array_literal", <<"a", "b">>, "x") \o Filled("w", "repeat_array", <<"b">>, "y")
                     \o <<Typed("store", "", <<first, "s">>, Float, None), Const("n", 2)>>
                     \o (IF sliced THEN <<Element("slice_from_array", "v", <<"y", "o", "n">>, FSlice, Pair, None, FRow)>> ELSE <<>>),
                   Goto(2, <<"z">>)),
             Block(<<"i">>, <<Arith("checked_int_compare", "t", <<"i", "e">>, "<", FALSE)>>, Branch("t", Edge(3, <<>>), Edge(4, <<>>))),
             Block(<<>>,
                   <<FAt("h", <<"x", "i">>),
                     IF sliced THEN Element("slice_element_address", "g", <<"v", "i">>, FSlice, Pair, None, Float) ELSE FAt("g", <<"y", "i">>),
                     ReadFloat("c", "h"), ReadFloat("d", "g"), FloatOp("*", "m", factors[1], factors[2]), ReadFloat("l", "s"),
                     FloatOp("+", "p", "l", "m"), Typed("store", "", <<"p", "s">>, Float, None)>>
                     \o (CASE other = "store" -> <<Typed("store", "", <<"c", "h">>, Float, None)>>
                           [] other = "call" -> <<[Op("abi_call", "u", <<>>) EXCEPT !.kind = "now"]>>
                           [] other = "" -> <<>>)
                     \o <<Plus("j", "i", "o", FALSE)>>, Goto(2, <<"j">>)),
             Block(<<>>, <<ReadFloat("r", "s")>>, Return(<<"r">>))>>,
           {Input([a |-> a, b |-> b, e |-> Count(e)], <<>>) : a \in {Real(1), Real(-2), Infinite}, b \in {Real(1), Real(2)}, e \in 0..3})

Sums == {Summed(first, start, 1, FALSE, other, factors)
         : first \in {"f", "k", "a"}, start \in {0, 1}, other \in {"", "store"}, factors \in {<<"c", "d">>, <<"d", "c">>, <<"c", "k">>}}
        \cup {Summed("f", 0, step, sliced, other, <<"c", "d">>) : step \in {1, 2}, sliced \in BOOLEAN, other \in {"", "store", "call"}}

\* Two conditions on an element of an array, and an operation where both were met.
Gated(tests, numbers, last, truth, swapped, stored, around) ==
    Module(<<Float, Float>>, <<Float>>,
           [a |-> Float, b |-> Float, c |-> Float, k |-> Float, l |-> Float, o |-> Float, x |-> FCells, q |-> FArray, z |-> Long, h |-> FPtr,
            e |-> Long, g |-> FPtr, r |-> Float, v |-> Float, y |-> Bool, t |-> Bool, n |-> Bool, u |-> Bool, w |-> Float, d |-> Float],
           <<Block(<<"a", "b">>,
                   <<FloatOp("+", "c", "a", "b"), Const("k", numbers[1]), Const("l", numbers[2]), Const("o", 1), Const("z", 1), Const("e", 0), Const("y", 1)>>
                     \o Filled("q", "array_literal", <<"k", IF stored THEN "k" ELSE "c">>, "x") \o <<FAt("h", <<"x", "z">>)>>
                     \o (IF stored THEN <<Typed("store", "", <<"c", "h">>, Float, None)>>
                         ELSE <<FAt("g", <<"x", "e">>), Typed("store", "", <<"k", "g">>, Float, None)>>)
                     \o <<ReadFloat("r", "h"), FloatOp("*", "v", "r", "o"), Arith("checked_float_compare", "t", <<"v", "k">>, tests[1], FALSE), Op("xor", "n", <<"t", "y">>)>>,
                   IF swapped THEN Branch(truth, Edge(4, <<>>), Edge(2, <<>>)) ELSE Branch(truth, Edge(2, <<>>), Edge(4, <<>>))),
             Block(<<>>, <<Arith("checked_float_compare", "u", <<"l", "v">>, tests[2], FALSE)>>, Branch("u", Edge(3, <<>>), Edge(5, <<>>))),
             Block(<<>>, <<FloatOp("*", "w", "v", "o"), FloatOp(last, "d", "w", "w")>>, Return(<<"d">>)),
             Block(<<>>, <<>>, IF around THEN Goto(2, <<>>) ELSE Return(<<"v">>)),
             Block(<<>>, <<>>, Return(<<"v">>))>>,
           {Input([a |-> a, b |-> b], <<>>) : a \in Reals \cup {NaN}, b \in {Real(1), Real(-1)}})

Kinds == {"<", "<=", ">", ">=", "==", "!="}
Gates == {Gated(tests, <<1, -1>>, "+", truth, swapped, truth = "t", FALSE)
          : tests \in {<<kind, "<=">> : kind \in Kinds} \cup {<<"<=", kind>> : kind \in Kinds}, truth \in {"t", "n"}, swapped \in BOOLEAN}
         \cup {Gated(<<"<=", kind>>, <<1, number>>, last, "t", FALSE, TRUE, FALSE) : kind \in Kinds, last \in {"-", "*", "/"}, number \in -1..1}
         \cup {Gated(<<">=", kind>>, <<-1, 1>>, "+", "t", FALSE, TRUE, around) : kind \in Kinds, around \in BOOLEAN}

\* A value that every round of a loop multiplies or adds to, kept in an array or not.
Rounds(first, kind, by, kept) ==
    Module(<<Float, Long>>, <<Float>>,
           [a |-> Float, e |-> Long, z |-> Long, o |-> Long, f |-> Float, k |-> Float, x |-> FCells, q |-> FArray, h |-> FPtr, s |-> FPtr,
            i |-> Long, t |-> Bool, v |-> Float, p |-> Float, j |-> Long, r |-> Float, d |-> Float],
           <<Block(<<"a", "e">>,
                   <<Const("z", 0), Const("o", 1), Const("f", first), Const("k", by), Slot("s", Float), Typed("store", "", <<"f", "s">>, Float, None)>>
                     \o (IF kept = "" THEN <<>> ELSE Filled("q", kept, IF kept = "zeroed_array" THEN <<>> ELSE <<"f">>, "x") \o <<FAt("h", <<"x", "o">>)>>),
                   Goto(2, <<"z">>)),
             Block(<<"i">>, <<Arith("checked_int_compare", "t", <<"i", "e">>, "<", FALSE)>>, Branch("t", Edge(3, <<>>), Edge(4, <<>>))),
             Block(<<>>, <<ReadFloat("v", IF kept = "" THEN "s" ELSE "h"), FloatOp(kind, "p", "v", IF by = 0 THEN "a" ELSE "k"),
                           Typed("store", "", <<"p", IF kept = "" THEN "s" ELSE "h">>, Float, None), Plus("j", "i", "o", FALSE)>>,
                   Goto(2, <<"j">>)),
             Block(<<>>, <<ReadFloat("r", IF kept = "" THEN "s" ELSE "h"), FloatOp(kind, "d", "r", "k")>>, Return(<<"d">>))>>,
           {Input([a |-> a, e |-> Count(e)], <<>>) : a \in {Real(-1), Real(2), Infinite}, e \in 0..3})

Growing == {Rounds(first, kind, by, kept)
            : first \in {0, 1}, kind \in {"*", "+", "-", "/"}, by \in {-1, 0, 2}, kept \in {"", "zeroed_array", "repeat_array"}}

\* for i in start..bound: one of two results from x[i] goes to y[i], perhaps in a slice of it.
Batched(p) ==
    LET written == IF p.other = "outside" THEN "y" ELSE "w"
        length == CASE p.bound = "length" -> <<Element("slice_length", "n", <<"s">>, FSlice, Pair, None, None)>>
                    [] p.bound = "number" -> <<Const("n", 2)>>
                    [] p.bound = "e" -> <<>>
        more == CASE p.other = "read" -> <<Typed("store", "", <<"d", "h">>, Float, None)>>
                  [] p.other = "call" -> <<[Op("abi_call", "now", <<>>) EXCEPT !.kind = "now"]>>
                  [] p.other = "aside" -> <<FAt("l", <<written, "u">>), Typed("store", "", <<"d", "l">>, Float, None)>>
                  [] OTHER -> <<>>
        result == IF p.other = "covering" THEN <<FloatOp("+", "r", "b", "b"), Typed("store", "", <<"r", "g">>, Float, None), FloatOp("*", "f", "r", "m")>> ELSE <<FloatOp(p.last, "f", "c", "c")>>
        elements == IF p.other = "covering" THEN <<FloatOp("*", "p", "a", "a")>> \o Filled("q", "array_literal", <<"p", "p">>, "x")
                    ELSE Filled("q", "array_literal", <<"a", "b">>, "x")
        enough == Arith("checked_int_compare", "enter", <<"e", "o">>, ">", FALSE)
    IN  Module(<<Float, Float, Long, FCells>>, <<Float>>,
           [a |-> Float, b |-> Float, e |-> Long, z |-> Long, o |-> Long, u |-> Long, k |-> Float, x |-> FCells, w |-> FCells, y |-> FCells,
            zero |-> Long, q |-> FArray, v |-> FArray, s |-> FSlice, n |-> Long, i |-> Long, t |-> Bool, h |-> FPtr, g |-> FPtr, c |-> Float,
            m |-> Float, d |-> Float, truth |-> Bool, f |-> Float, j |-> Long, l |-> FPtr, r |-> Float, p |-> Float, enter |-> Bool, now |-> Long],
           <<Block(<<"a", "b", "e", "y">>,
                   <<Const("z", p.start), Const("o", p.step), Const("u", 2), Const("zero", 0), Const("k", p.number)>>
                     \o elements \o Filled("v", "repeat_array", <<"b">>, "w")
                     \o <<Element("slice_from_array", "s", <<written, IF p.slice = "rest" THEN "o" ELSE "zero", "u">>, FSlice, Pair, None, FRow)>>
                     \o (IF p.gated THEN <<enough>> ELSE <<>>),
                   IF p.gated THEN Branch("enter", Edge(2, <<"z">>), Edge(7, <<>>)) ELSE Goto(2, <<"z">>)),
             Block(<<"i">>, length \o <<Arith("checked_int_compare", "t", <<"i", IF p.bound = "e" THEN "e" ELSE "n">>, "<", p.signed)>>,
                   Branch("t", Edge(3, <<>>), Edge(7, <<>>))),
             Block(<<>>,
                   <<FAt("h", <<"x", "i">>),
                     IF p.slice = "" THEN FAt("g", <<written, "i">>) ELSE Element("slice_element_address", "g", <<"s", "i">>, FSlice, Pair, None, Float),
                     ReadFloat("c", "h"), FloatOp(p.kinds[1], "m", "c", "b"), FloatOp(p.kinds[2], "d", "c", "m")>>
                     \o more \o <<Arith("checked_float_compare", "truth", <<IF p.other = "covering" THEN "m" ELSE "c", "k">>, p.test, FALSE)>>,
                   Branch("truth", Edge(4, <<>>), Edge(5, <<>>))),
             Block(<<>>, result \o <<Typed("store", "", <<"f", "g">>, Float, None)>>, Goto(6, <<>>)),
             Block(<<>>, <<Typed("store", "", <<"d", "g">>, Float, None)>>, Goto(6, <<>>)),
             Block(<<>>, <<Plus("j", "i", "o", p.signed)>>, Goto(2, <<"j">>)),
             Block(<<>>, <<>>, Return(<<"a">>))>>,
           {Input([a |-> a, b |-> b, e |-> Count(e), y |-> Address("y", 0)], [y |-> Object(1, [i \in 1..2 |-> Piece(Real(1), 1)])])
            : a \in {Real(0), Real(1), Infinite}, b \in {Real(1), Real(2)}, e \in 0..3})

Plainly == [signed |-> FALSE, start |-> 0, step |-> 1, bound |-> "e", kinds |-> <<"+", "+">>, number |-> 1, test |-> "==", last |-> "+",
            slice |-> "", other |-> "", gated |-> FALSE]
Batches == {Batched(p) : p \in
    {[Plainly EXCEPT !.bound = bound, !.kinds = <<kind, "-">>, !.slice = slice, !.gated = gated]
     : bound \in {"e", "length", "number"}, kind \in {"+", "*"}, slice \in {"", "all", "rest"}, gated \in BOOLEAN}
    \cup {[Plainly EXCEPT !.signed = signed, !.start = start, !.step = step] : signed \in BOOLEAN, start \in {0, -1}, step \in {1, 2}}
    \cup {[Plainly EXCEPT !.kinds[2] = kind, !.last = last, !.test = "<="] : kind \in {"*", "/"}, last \in {"*", "/"}}
    \cup {[Plainly EXCEPT !.other = other, !.number = 0, !.kinds[1] = "*", !.slice = slice]
          : other \in {"read", "call", "aside", "covering", "outside"}, slice \in {"", "all"}}}

-----------------------------------------------------------------------------
(* A module with one operand or one type changed. *)

Scope(m, i) == Range(m.code.blocks[1].args) \cup ({m.code.blocks[1].ops[j].res : j \in 1..i - 1} \ {""})
Replaced(m, i, o) == [m EXCEPT !.code.blocks[1].ops[i] = o]
Rewired(m) ==
    UNION {{Replaced(m, i, [m.code.blocks[1].ops[i] EXCEPT !.of[k] = x]) : k \in DOMAIN m.code.blocks[1].ops[i].of, x \in Scope(m, i)}
           : i \in DOMAIN m.code.blocks[1].ops}
Retypings(m) == {[m EXCEPT !.code.types[x] = t] : x \in DOMAIN m.code.types, t \in Range(m.code.types) \cup {SConst, Float, Pointer, Pair}}

Base == Arithmetics \cup Foldings \cup Floats \cup Selections \cup Enums \cup Outcomes_ \cup Aggregates \cup Fills
        \cup Places_ \cup Allocations \cup Slices \cup Calls \cup Proofs
        \cup Loops \cup Groupings \cup Chains \cup Sums \cup Gates \cup Growing \cup Batches
Changed == UNION {Rewired(m) \cup Retypings(m) : m \in Outcomes_ \cup Aggregates \cup Places_ \cup Allocations \cup Slices \cup Calls \cup Enums}
MCPrograms == Base \cup Changed
================================================================================
