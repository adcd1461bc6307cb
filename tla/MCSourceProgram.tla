--------------------------- MODULE MCSourceProgram ---------------------------
(* Instances: every short text over the bytes that numbers, quotes, scalar    *)
(* values and operators are made of; every short expression over the words of *)
(* the expression grammar; programs with every statement and definition.      *)
EXTENDS SourceProgram

Bytes == [b \in {"C2", "E0", "ED", "F0", "F4", "80", "A0"} |->
             CASE b = "C2" -> 194 [] b = "E0" -> 224 [] b = "ED" -> 237 [] b = "F0" -> 240
               [] b = "F4" -> 244 [] b = "80" -> 128 [] b = "A0" -> 160]

Upto(S, n) == UNION {[1..k -> S] : k \in 0..n}
Numbers == Upto({"0", "1", "8", "x", "b", "e", ".", "+"}, 4)
Quotes == Upto({"\"", "'", "\\", "n", "x", "\n", "\t", "C2", "80"}, 4)
Scalars == Upto({"C2", "E0", "ED", "F0", "F4", "80", "A0"}, 4)
Marked == Upto({"<", ">", "=", "-", ".", "&", "|", ":", "/", "*", "!", "\r", "\n", " ", "#", "1", "_", Nul}, 3)
Worded == {Chars(t) : t \in {"if x", "iffy", "u8 u7 u", "be_i16", "be_u3_le", "i0x", "_", "__", "le_i8 //c",
                            "//a\n//b\nin", "/* a */ x", "/* a", "a/b//c", "1..2", "1.5..x", "0x1G", "1e+", ".5.5"}}
Smallest == Numbers \cup Quotes \cup Scalars \cup Marked \cup Worded

\* Words joined by blanks, in the place of a value.
Phrase(words) == FoldLeft(LAMBDA a, b : a \o b \o " ", "", words)
Assigned(string) == "def f() -> void { x = " \o string \o "; }"
Every == {"x", "1", "+", "*", "==", "-", "(", ")", ".", "[", "]", "{", "}", ":", "<", ",", "&&", ".."}
Operators == {"||", "&&", "==", "<", "-", "*"}
Chains == {<<"x", o, "y", q, "z", r, "w">> : o, q, r \in Operators} \cup
          {<<"x", o, "(", "y", q, "z", ")", r, "w">> : o, q, r \in Operators} \cup
          {<<"-", "x", o, "!", "y", ".", "e", q, "*", "z", "[", "w", "]">> : o, q \in Operators} \cup
          {<<"f", "(", "x", o, "y", ",", "z", ")", "[", "x", q, "y", "..", "]">> : o, q \in Operators}
Single == {"P { a: 1 + 2, b: {1, 2}, }", "m.P { a: {0; 4} }", "P<i32> { a: x }", "f<P<i32>>(x)", "f < i32 > (x)",
           "a.b<i32>.c(x)", "P<*const u8, [i32; 4]>.make<bool>(1)", "match x { case 1 => P { a: 2 }; default => y; }",
           "match r { case value(v) => v; case error() => 0; }", "{}", "{x}", "zeroed", "null", "error", "self",
           "\"a\\n\\0b\"", "'c'", "[1, 2]", "run f(x)", "spawn f(x)", "x = y", "1.5e3", "r.error", "(P { a: 1 }).a"}
Expressions == {Phrase(s) : s \in Upto(Every, 3) \cup Chains} \cup Single

Bodies == {"if x { y = 1; } else if z { return; } else { }", "unless x == P { a: 1 } { }", "if (P { a: 1 }).b { }",
           "while x { defer f(x); }", "for ; ; { }", "for def mut i: i32 = 0; i < n; i = i + 1 { x[i] = *p; }",
           "for x = 1; ; f(P { }) { }", "for def g() -> i32 { } ; ; { }", "for ; x; y { } = 1 { }",
           "switch x { case 1 { } case E.a { return; } default { } }", "switch x { default => 1; }",
           "def x: i32;", "def const c: *const [const u8] = null;", "def mut v: &&Box<Box<i32>> = x;",
           "def a: [Box<i32; 4>; N] = {0; 4};", "def p: m.Box<i32,>;", "def q: A<B<C>>;", "def b: [const u8; 4];",
           "def pub x: i32 = 1;", "def g() -> void { }", "def struct S { }", "import \"a\";", "return x", "{ { } x; }",
           "x = y = z;", "1 = x;", "*p = 1;", "-p = 1;", "def const mut x: i32 = 1;", "if x y;", "}", "a b;"}
Tops == {"def const a: i32 = 1;", "def pub const a: i32 = 1; def f() -> void { }", "def a: i32 = 1;", "def const a: i32;",
         "import \"a\\\\b\"; import \"c\";", "x = 1;", "def pub enum E { a, b, }", "def enum E { }", "def enum E { a b }",
         "def pub f<T, U; const N: usize>(a: T, b: [U; N],) -> void { }", "def f<T;; const N: u64>() -> i32 { }",
         "def f<T; const N: i32>() -> void { }", "def f(self: S) -> void { }", "def f() { }",
         "def struct S<T> { def pub mut a: T, def b: *S<T> }", "def struct S { def a: i32 def b: i32 }",
         "def pub struct S { def m(self: *S) -> void { } def static n() -> i32 { return 1; } def priv x: i32, }",
         "def struct S { def mut m() -> void { } }", "def struct S { def static x: i32 }", "def struct S { def mut static x: i32 }",
         "def struct S { def a: i32 at 3 }", "def packed struct S { def a: i32 at 3, def b: u8 at 0x1, }",
         "def packed struct(u32) S { }", "def deferred f() -> void { }", "def spawnable f() -> void { spawn g(); }",
         "def struct S { def deferred m() -> void { } }", "def pub priv x: i32 = 1;", "\n// only\n", "def f() -> void { def g"}

Programs == {Chars(Assigned(e)) : e \in Expressions} \cup
            {Chars("def f() -> void { " \o b \o " }") : b \in Bodies} \cup
            {Chars(t) : t \in Tops}
AllInputs == [text : Smallest, mode : {"core"}] \cup [text : Programs, mode : {"core", "syntax"}]
=============================================================================
