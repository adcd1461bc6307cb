---------------------------- MODULE SourceProgram ----------------------------
(***************************************************************************)
(* The way of a source text through the front end (src/src/compiler.cpp):  *)
(* it is cut into tokens, parsed, and printed and copied from its tree.    *)
(***************************************************************************)
EXTENDS Parser

CONSTANTS
    Inputs         \* a text, as a sequence of bytes, and its grammar, "core" or "syntax"

VARIABLES
    text, mode,    \* the input
    tokens,        \* the tokens, once the lexer has run
    tree,          \* the tree, Missing if there is none
    phase          \* "text", "lexed", "parsed" or "refused"

vars == <<text, mode, tokens, tree, phase>>

Given(input) ==
    /\ text = input.text /\ mode = input.mode
    /\ tokens = <<>>
    /\ tree = Missing
    /\ phase = "text"

Init == \E input \in Inputs : Given(input)

Tokenize ==
    /\ phase = "text"
    /\ tokens' = Tokens(text)
    /\ phase' = "lexed"
    /\ UNCHANGED <<text, mode, tree>>

\* compile_source: no tree if anything was diagnosed.
Parse ==
    /\ phase = "lexed"
    /\ \E result \in {Checked(text, tokens, mode)} :
           /\ tree' = IF result.p.ok THEN result.node ELSE Missing
           /\ phase' = IF result.p.ok THEN "parsed" ELSE "refused"
    /\ UNCHANGED <<text, mode, tokens>>

Next == Tokenize \/ Parse

Spec == Init /\ [][Next]_vars

-----------------------------------------------------------------------------
(* Properties. *)

RECURSIVE Nodes(_), Bare(_)

Nodes(n) == {n} \cup UNION {Nodes(n.parts[i]) : i \in 1..Len(n.parts)}

\* A tree without its places.
Bare(n) == [kind |-> n.kind, text |-> n.text, parts |-> [i \in 1..Len(n.parts) |-> Bare(n.parts[i])]]

Blanks == {"NEWLINE", "EOF"}
Covered(n) == SelectSeq(tokens, LAMBDA t : n.from <= t.from /\ t.to <= n.to /\ t.type \notin Blanks)

\* The whole of an expression stands in parentheses.
Grouped(n) ==
    LET inside == Covered(n)
        deep[i \in 0..Len(inside)] ==
            IF i = 0 THEN 0
            ELSE deep[i - 1] + IF inside[i].type \in {"(", "[", "{"} THEN 1
                               ELSE IF inside[i].type \in {")", "]", "}"} THEN -1 ELSE 0
    IN  /\ inside[1].type = "(" /\ inside[Len(inside)].type = ")"
        /\ \A i \in 1..Len(inside) - 1 : deep[i] > 0

Tightest == {"CallExpression", "IndexExpression", "SliceExpression", "MemberAccessExpression"}

\* The order in which the language applies its operators, the loosest first.
Levels == <<{"||"}, {"&&"}, {"==", "!="}, {"<", "<=", ">", ">="}, {"+", "-"}, {"*", "/", "%"}>>
Level(n) == IF n.kind = "InfixExpression" THEN CHOOSE i \in 1..Len(Levels) : n.text \in Levels[i]
            ELSE IF n.kind \in {"PrefixExpression", "SpawnExpression"} THEN 7
            ELSE 8

\* What an operator takes on its left binds at least as tightly, on its right more
\* tightly, unless it stands in parentheses.
BindsTightly(n) ==
    LET open(i) == IF Grouped(n.parts[i]) THEN 9 ELSE Level(n.parts[i])
    IN  /\ n.kind = "InfixExpression" => open(1) >= Level(n) /\ open(2) > Level(n)
        /\ n.kind = "PrefixExpression" => open(1) >= 7
        /\ n.kind \in Tightest => open(1) >= 8

Expression == Tightest \cup
    {"IntegerLiteral", "FloatLiteral", "BooleanLiteral", "NullLiteral", "ZeroedLiteral", "StringLiteral",
     "ArrayLiteral", "PrefixExpression", "InfixExpression", "AssignmentExpression", "StructLiteral",
     "MatchExpression", "SpawnExpression"}

\* The words of a node's span alone are that node: it holds its own delimiters and
\* nothing that follows (a member that takes type arguments needs what follows).
StandsAlone(n) ==
    LET own == Covered(n)
        p == GloinParser(Append(own, [tokens[Len(tokens)] EXCEPT !.from = n.to, !.to = n.to]), mode)
    IN  \A r \in {Rule(IF n.kind \in Expression THEN "assignment" ELSE "statement", p, 0)} :
            r.p.ok /\ at_end(r.p) /\ r.node = n

Applied(n) == n.kind = "MemberAccessExpression" /\ n.parts[2].to # Covered(n.parts[2])[1].to

\* The tree is the one the grammar gives its text: operators apply in their order,
\* and the place of every node is exactly its text (docs/parser.md).
TreesExact ==
    phase = "parsed" =>
        \A n \in Nodes(tree) :
            /\ n.kind \in Expression => BindsTightly(n)
            /\ (n.kind \in Expression /\ ~Applied(n)) \/ n.kind \in Statement => StandsAlone(n)

\* What to_string prints otherwise than it was written: strings, imports, type
\* parameters, methods (behind the fields), offsets, grouped literals, members of numbers.
Printable ==
    \A n \in Nodes(tree) :
        /\ n.kind \notin {"StringLiteral", "ImportStatement", "SpawnExpression", "at"}
        /\ n.kind \in {"generics", "methods"} => n.parts = <<>>
        /\ n.kind = "StructLiteral" => ~Grouped(n)
        /\ n.kind = "MemberAccessExpression" => n.parts[1].kind \notin {"IntegerLiteral", "FloatLiteral"}

Chars(string) == [i \in 1..Len(string) |-> SubSeq(string, i, i)]
Words(list) == LET kept == SelectSeq(list, LAMBDA t : t.type \notin Blanks \cup {"(", ")", ",", "priv"})
               IN  [i \in 1..Len(kept) |-> kept[i].spelling]

\* Nothing a program says is lost or invented: its tree prints with the same words,
\* groups and commas aside, and reads back as the same tree (assignments are
\* printed in parentheses, which no statement takes); every function is copied whole.
ProgramsKept ==
    phase = "parsed" =>
        /\ Printable =>
               /\ Words(Tokens(Chars(Shown(tree)))) = Words(tokens)
               /\ \/ \E n \in Nodes(tree) : n.kind = "AssignmentExpression"
                  \/ Bare(Parsed(Chars(Shown(tree)), mode).node) = Bare(tree)
        /\ \A n \in Nodes(tree) :
               mode = "core" /\ n.kind = "FunctionDefinition" => clone_function(n) = n

\* Tokens are the longest words, nothing between them but blanks and comments, and
\* errors are reported at exactly the bytes and tokens at fault.
TokensExact ==
    phase = "lexed" => LexesExactly(text, tokens) /\ BytesExactly(text)

=============================================================================
