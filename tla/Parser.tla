------------------------------- MODULE Parser -------------------------------
(***************************************************************************)
(* The parser (src/src/parser.cpp, src/src/AST.h): a recursive descent     *)
(* over the tokens of Lexer, the text a tree prints as, and its clone.     *)
(*                                                                         *)
(* A parser is a record with the fields of GloinParser: its place `at`,    *)
(* whether the first half of a two-character token is consumed (`half`),   *)
(* where the last consumed token ends, and the flags of the grammar.  A    *)
(* failure unwinds every caller: `ok` is FALSE from then on and no token   *)
(* is current.  Every parse_... returns the parser behind what it consumed *)
(* and the node.  The nesting limit of 512 nodes is not modelled.          *)
(***************************************************************************)
EXTENDS Lexer

-----------------------------------------------------------------------------
(* The parser and its nodes. *)

\* The constructor; the lexer's newlines are not seen.
GloinParser(tokens, mode) ==
    [tokens |-> SelectSeq(tokens, LAMBDA t : t.type # "NEWLINE"), mode |-> mode, at |-> 1, half |-> FALSE,
     ok |-> TRUE, consumed |-> 1, block_depth |-> 0, literals |-> TRUE, in_method |-> FALSE]

current(p) == p.tokens[p.at]

\* The type of the current token, or of what is left of it.
type(p) == IF ~p.ok THEN "FAILED"
           ELSE IF ~p.half THEN current(p).type
           ELSE IF current(p).type = ">>" THEN ">" ELSE "&"
literal(p) == IF p.half THEN type(p) ELSE Spelling(current(p).spelling)
begin(p) == current(p).from + IF p.half THEN 1 ELSE 0
Ahead(p, n) == IF p.ok /\ p.at + n <= Len(p.tokens) THEN p.tokens[p.at + n].type ELSE "FAILED"
at_end(p) == type(p) \in {"EOF", "FAILED"}

advance_token(p) ==
    [p EXCEPT !.consumed = current(p).to, !.at = Min({@ + 1, Len(p.tokens)}), !.half = FALSE]

fail(p) == [p EXCEPT !.ok = FALSE]
accept(p, t) == IF type(p) = t THEN advance_token(p) ELSE p
expect(p, t) == IF type(p) = t THEN advance_token(p) ELSE fail(p)
Require(p, condition) == IF condition THEN p ELSE fail(p)
require_extended(p) == Require(p, p.mode = "syntax")

\* A node, of which every field of the AST's classes is a text or a part.
Node(kind, text, parts) == [kind |-> kind, text |-> text, parts |-> parts, from |-> 0, to |-> 0]
Missing == Node("missing", "", <<>>)
Result(p, node) == [p |-> p, node |-> node]
Spanned(node, from, to) == [node EXCEPT !.from = from, !.to = to]

\* parse_node: the span starts at the current token of p.
Located(p, r) == Result(r.p, Spanned(r.node, begin(p), Max({current(p).to, r.p.consumed})))

\* located_node, and the token it stands for consumed.
Leaf(p, kind, text) ==
    Result(advance_token(p), Spanned(Node(kind, text, <<>>), begin(p), current(p).to))

parse_name(p, receiver) ==
    IF type(p) = "IDENTIFIER" \/ (receiver /\ type(p) = "self") THEN Leaf(p, "Identifier", literal(p))
    ELSE Result(fail(p), Missing)

decode_string_literal(bytes) ==
    LET decode[i \in 1..Len(bytes) + 1] ==
            IF i > Len(bytes) THEN ""
            ELSE IF bytes[i] # "\\" THEN bytes[i] \o decode[i + 1]
            ELSE (IF bytes[i + 1] = "n" THEN "\n" ELSE IF bytes[i + 1] = "r" THEN "\r"
                  ELSE IF bytes[i + 1] = "t" THEN "\t" ELSE IF bytes[i + 1] = "0" THEN Nul
                  ELSE bytes[i + 1]) \o decode[i + 2]
    IN  decode[1]

String(p) == LET bytes == current(p).spelling IN decode_string_literal(SubSeq(bytes, 2, Len(bytes) - 1))

get_binding_power(t) ==
    IF t = "||" THEN 10 ELSE IF t = "&&" THEN 20
    ELSE IF t \in {"==", "!="} THEN 30
    ELSE IF t \in {"<", "<=", ">", ">="} THEN 40
    ELSE IF t \in {"+", "-"} THEN 50
    ELSE IF t \in {"*", "/", "%"} THEN 60
    ELSE IF t \in {"(", ".", "["} THEN 80 ELSE 0

\* generic_type_prefix_ahead: balanced type arguments before a literal, a member
\* or, written without blanks, a call.
generic_type_prefix_ahead(p) ==
    LET tokens == p.tokens
        n == Len(tokens)
        open[i \in p.at + 1..n + 2] ==
            IF i < n /\ tokens[i].type = "." /\ tokens[i + 1].type = "IDENTIFIER" THEN open[i + 2] ELSE i
        inside == TypeTokens \cup {"IDENTIFIER", ",", ".", "*", "&", "const", "[", "]", ";", "NUMBER"}
        adjacent(i) == tokens[i].to = tokens[i + 1].from
        closed(i) == \/ p.literals /\ tokens[i + 1].type = "{"
                     \/ /\ tokens[i + 1].type = "(" /\ open[p.at + 1] = p.at + 1
                        /\ adjacent(p.at) /\ adjacent(i)
                     \/ i + 2 <= n /\ tokens[i + 1].type = "." /\ tokens[i + 2].type = "IDENTIFIER"
        balance[i \in p.at + 1..n, depth \in -1..n] ==
            LET t == tokens[i].type
                after == IF t = "<" THEN depth + 1 ELSE IF t = ">" THEN depth - 1
                         ELSE IF t = ">>" THEN depth - 2 ELSE depth
            IN  /\ i < n
                /\ t \in inside \cup {"<", ">", ">>"}
                /\ IF after > 0 THEN balance[i + 1, after] ELSE after = 0 /\ closed(i)
    IN  /\ type(p) = "IDENTIFIER" /\ ~p.half
        /\ open[p.at + 1] <= n
        /\ tokens[open[p.at + 1]].type = "<"
        /\ balance[open[p.at + 1], 0]

\* A name of several parts before `{`.
QualifiedLiteral(p) ==
    LET end[i \in p.at..Len(p.tokens) + 2] ==
            IF i + 2 <= Len(p.tokens) /\ p.tokens[i + 1].type = "." /\ p.tokens[i + 2].type = "IDENTIFIER"
            THEN end[i + 2] ELSE i
    IN  p.literals /\ end[p.at] # p.at /\ end[p.at] < Len(p.tokens) /\ p.tokens[end[p.at] + 1].type = "{"

-----------------------------------------------------------------------------
(* Types. *)

\* A rule of the grammar at p, by its name: all recursion between rules is through here.
RECURSIVE Rule(_, _, _)

parse_type(p) == Rule("type", p, 0)
parse_expression(p, power) == Rule("expression", p, power)
parse_match(p) == Rule("match", p, 0)
parse_assignment(p) == Rule("assignment", p, 0)
parse_block_statement(p) == Rule("block", p, 0)
parse_generic_params(p) == Rule("generics", p, 0)
parse_function_definition(p, modifiers) == Rule("function", p, modifiers)
parse_struct_definition(p, modifiers) == Rule("struct", p, modifiers)
parse_def_statement(p) == Rule("def", p, 0)
parse_statement(p) == Rule("statement", p, 0)

RECURSIVE TypeArguments(_, _), ModuleNames(_, _), TypeMarks(_, _)

\* consume_type_close: the first half of `>>` may close the type.
consume_type_close(p) ==
    IF type(p) = ">>" THEN [p EXCEPT !.half = TRUE, !.consumed = begin(p) + 1] ELSE expect(p, ">")

TypeMarks(p, text) ==
    IF type(p) = "&&" THEN TypeMarks([p EXCEPT !.half = TRUE], text \o "&")
    ELSE IF type(p) \in {"*", "&"}
         THEN LET q == advance_token(p)
              IN  IF type(q) = "const" THEN TypeMarks(advance_token(q), text \o literal(p) \o "const ")
                  ELSE TypeMarks(q, text \o literal(p))
    ELSE Result(p, Node("text", text, <<>>))

ModuleNames(p, text) ==
    IF type(p) # "." THEN Result(p, Node("text", text, <<>>))
    ELSE LET name == parse_name(advance_token(p), FALSE)
         IN  ModuleNames(name.p, text \o "." \o name.node.text)

\* The arguments behind `<`; a semicolon starts those that are sizes.
TypeArguments(p, text) ==
    LET one == IF type(p) = "NUMBER" THEN Leaf(p, "Identifier", literal(p)) ELSE parse_type(p)
        more == text \o one.node.text
        comma == advance_token(one.p)
    IN  IF type(one.p) = ";" THEN TypeArguments(advance_token(one.p), more \o "; ")
        ELSE IF type(one.p) = "," /\ type(comma) \notin {">", ">>"} THEN TypeArguments(comma, more \o ", ")
        ELSE Result(consume_type_close(accept(one.p, ",")), Node("text", more \o ">", <<>>))

\* An array or a slice of `element`, behind the `[`.
Sequence(element, const, text) ==
    LET size == expect(Require(element.p, ~const), ";")
        sequence(p, inside) == Result(p, Node("Identifier", text \o "[" \o inside \o "]", <<>>))
    IN  IF type(element.p) = "]"
        THEN sequence(advance_token(element.p), (IF const THEN "const " ELSE "") \o element.node.text)
        ELSE IF type(size) \in {"NUMBER", "IDENTIFIER"}
        THEN sequence(expect(advance_token(size), "]"), element.node.text \o "; " \o literal(size))
        ELSE Result(fail(size), Missing)

Generic(path) ==
    IF type(path.p) # "<" THEN Result(path.p, Node("Identifier", path.node.text, <<>>))
    ELSE LET arguments == TypeArguments(advance_token(path.p), path.node.text \o "<")
         IN  Result(arguments.p, Node("Identifier", arguments.node.text, <<>>))

\* Behind the marks of pointers and references.
Unmarked(p, text) ==
    LET inside == advance_token(p)
    IN  IF type(p) = "["
        THEN Sequence(parse_type(accept(inside, "const")), type(inside) = "const", text)
        ELSE IF type(p) = "IDENTIFIER" \/ type(p) \in TypeTokens
        THEN Generic(ModuleNames(advance_token(p), text \o literal(p)))
        ELSE Result(fail(p), Missing)

TypeRule(p) == LET marks == TypeMarks(p, "") IN Located(p, Unmarked(marks.p, marks.node.text))

-----------------------------------------------------------------------------
(* Expressions. *)

RECURSIVE Arms(_, _, _), Infixes(_, _), Listed(_, _, _), Fields(_, _), Statements(_, _), parse_if_statement(_)

\* Restore: an expression parsed with the flag for struct literals set so.
Within(p, literals, power) ==
    LET e == parse_expression([p EXCEPT !.literals = literals], power)
    IN  Result([e.p EXCEPT !.literals = p.literals], e.node)

parse_condition(p) == Within(p, FALSE, 0)

\* parse_expression_list behind its opening token; a last comma is allowed.
Listed(p, close, parts) ==
    IF type(p) = close \/ ~p.ok THEN Result(expect(p, close), parts)
    ELSE LET e == parse_expression(p, 0)
             list == Append(parts, e.node)
         IN  IF type(e.p) = "," THEN Listed(advance_token(e.p), close, list)
             ELSE Result(expect(e.p, close), list)

\* The fields of a struct literal behind its `{`.
Fields(p, parts) ==
    IF type(p) = "}" \/ ~p.ok THEN Result(expect(p, "}"), parts)
    ELSE LET name == parse_name(p, FALSE)
             e == parse_expression(expect(name.p, ":"), 0)
             list == Append(parts, Node("field", name.node.text, <<e.node>>))
         IN  IF type(e.p) = "," THEN Fields(advance_token(e.p), list)
             ELSE Result(expect(e.p, "}"), list)

\* A braced array: its elements, or one value and how often it is repeated.
Braced(p) ==
    LET first == parse_expression(p, 0)
        count == parse_expression(advance_token(first.p), 0)
        rest == IF type(first.p) = "," THEN Listed(advance_token(first.p), "}", <<first.node>>)
                ELSE Result(expect(first.p, "}"), <<first.node>>)
    IN  IF type(p) = "}" THEN Result(advance_token(p), Node("ArrayLiteral", "{}", <<>>))
        ELSE IF type(first.p) = ";"
             THEN Result(expect(count.p, "}"), Node("ArrayLiteral", "{;}", <<first.node, count.node>>))
        ELSE Result(rest.p, Node("ArrayLiteral", "{}", rest.node))

\* A name, or a struct literal where the flag allows one.
Named(p) ==
    LET name == IF generic_type_prefix_ahead(p) \/ QualifiedLiteral(p) THEN parse_type(p)
                ELSE parse_name(p, FALSE)
        fields == Fields(advance_token(name.p), <<>>)
    IN  IF p.literals /\ type(name.p) = "{"
        THEN Result(fields.p, Node("StructLiteral", "", <<name.node>> \o fields.node))
        ELSE name

parse_prefix(p) ==
    LET t == type(p)
        operand == parse_expression(advance_token(p), 70)
        group == Within(advance_token(p), TRUE, 0)
        array == Listed(advance_token(require_extended(p)), "]", <<>>)
        run == parse_expression(advance_token(require_extended(p)), 70)
    IN  Located(p,
            IF t = "match" THEN parse_match(p)
            ELSE IF t = "NUMBER" THEN Leaf(p, "IntegerLiteral", literal(p))
            ELSE IF t = "FLOAT" THEN Leaf(p, "FloatLiteral", literal(p))
            ELSE IF t \in {"true", "false"} THEN Leaf(p, "BooleanLiteral", t)
            ELSE IF t = "null" THEN Leaf(p, "NullLiteral", t)
            ELSE IF t = "zeroed" THEN Leaf(p, "ZeroedLiteral", t)
            ELSE IF t = "STRING_LITERAL" THEN Leaf(p, "StringLiteral", String(p))
            ELSE IF t = "[" THEN Result(array.p, Node("ArrayLiteral", "[]", array.node))
            ELSE IF t = "{" THEN Braced(advance_token(p))
            ELSE IF t \in {"self", "error"} THEN Leaf(p, "Identifier", t)
            ELSE IF t = "IDENTIFIER" THEN Named(p)
            ELSE IF t = "run" THEN Result(run.p, Node("SpawnExpression", t, <<run.node>>))
            ELSE IF t \in {"&", "*", "-", "!"}
                 THEN Result(operand.p, Node("PrefixExpression", t, <<operand.node>>))
            ELSE IF t = "(" THEN Result(expect(group.p, ")"), group.node)
            ELSE Result(fail(p), Missing))

\* Mutant: an operator also takes what binds as tightly on its right.
Operand_Right(power) == power - 1

\* What an infix operator of this power leaves to its caller.
Operand(power) == power

AccessedName(p) ==
    IF type(p) = "error" THEN Leaf(p, "Identifier", "error")
    ELSE IF generic_type_prefix_ahead(p) THEN parse_type(p) ELSE parse_name(p, FALSE)

\* An operator's node: where its left side starts, to what it consumed.
Behind(r, kind, text, left, parts) ==
    Result(r, Spanned(Node(kind, text, <<left>> \o parts), left.from, Max({left.to, r.consumed})))

Postfix(p, r, kind, left) == Behind([r.p EXCEPT !.literals = p.literals], kind, "", left, r.node)

\* An index, or a slice with its ends or without.
Indexed(p, inner, left) ==
    LET first == IF type(inner) = ".." THEN Result(inner, Missing) ELSE parse_expression(inner, 0)
        behind == advance_token(first.p)
        last == IF type(behind) = "]" THEN Result(behind, Missing) ELSE parse_expression(behind, 0)
    IN  IF type(first.p) = ".."
        THEN Postfix(p, Result(expect(last.p, "]"), <<first.node, last.node>>), "SliceExpression", left)
        ELSE Postfix(p, Result(expect(first.p, "]"), <<first.node>>), "IndexExpression", left)

parse_infix(p, left) ==
    LET t == type(p)
        q == advance_token(p)
        inner == [q EXCEPT !.literals = TRUE]
        binary(r) == Behind(r.p, "InfixExpression", t, left, <<r.node>>)
        member(r) == Behind(r.p, "MemberAccessExpression", "", left, <<r.node>>)
    IN  IF t = "(" THEN Postfix(p, Listed(inner, ")", <<>>), "CallExpression", left)
        ELSE IF t = "[" THEN Indexed(p, inner, left)
        ELSE IF t = "." THEN member(AccessedName(q))
        ELSE binary(parse_expression(q, Operand(get_binding_power(t))))

Infixes(left, power) ==
    IF get_binding_power(type(left.p)) > power THEN Infixes(parse_infix(left.p, left.node), power) ELSE left

ExpressionRule(p, power) == Located(p, Infixes(parse_prefix(p), power))

\* parse_case_pattern: a result's variant and its binding, or a value.
Patterned(p, matching) ==
    LET q == expect(p, "case")
        variant == /\ matching /\ Ahead(q, 1) = "("
                   /\ type(q) = "error" \/ (type(q) = "IDENTIFIER" /\ literal(q) = "value")
        inside == advance_token(advance_token(q))
        binding == IF type(inside) = ")" THEN Result(inside, Missing) ELSE parse_name(inside, FALSE)
        value == parse_condition(q)
    IN  IF type(p) = "default" THEN Result(advance_token(p), Node("pattern", "default", <<>>))
        ELSE IF variant THEN Result(expect(binding.p, ")"), Node("pattern", literal(q), <<binding.node>>))
        ELSE Result(value.p, Node("pattern", "case", <<value.node>>))

\* An arm behind its pattern, and those that follow.
Arm(pattern, matching, parts) ==
    LET value == Within(expect(pattern.p, "=>"), TRUE, 0)
        body == parse_block_statement(pattern.p)
        arm(r) == Append(parts, Node("arm", "", <<pattern.node, r.node>>))
    IN  IF matching THEN Arms(expect(value.p, ";"), matching, arm(value))
        ELSE Arms(body.p, matching, arm(body))

\* The arms of a switch or a match, behind the `{`.
Arms(p, matching, parts) ==
    IF type(p) = "}" \/ at_end(p) THEN Result(expect(p, "}"), parts)
    ELSE Arm(Patterned(p, matching), matching, parts)

Subject(kind, subject, arms) == Result(arms.p, Node(kind, "", <<subject.node>> \o arms.node))

Armed(kind, subject, matching) == Subject(kind, subject, Arms(expect(subject.p, "{"), matching, <<>>))

MatchRule(p) == Armed("MatchExpression", parse_condition(advance_token(p)), TRUE)

Assignable(node) ==
    \/ node.kind \in {"Identifier", "MemberAccessExpression", "IndexExpression"}
    \/ node.kind = "PrefixExpression" /\ node.text = "*"

AssignmentRule(p) ==
    LET left == parse_expression(p, 0)
        right == parse_expression(Require(advance_token(left.p), Assignable(left.node)), 0)
    IN  IF type(left.p) # "=" THEN left
        ELSE Result(Require(right.p, type(right.p) # "="),
                    Spanned(Node("AssignmentExpression", "", <<left.node, right.node>>),
                            left.node.from, right.p.consumed))

-----------------------------------------------------------------------------
(* Statements. *)

parse_expression_statement(p) ==
    LET e == parse_assignment(p)
    IN  Located(p, Result(expect(e.p, ";"), Node("ExpressionStatement", "", <<e.node>>)))

\* The binding of a declaration or a loop; `const` and visibility are its callers'.
parse_variable_declaration(p, modifiers) ==
    LET name == parse_name(accept(p, "mut"), FALSE)
        kind == parse_type(expect(name.p, ":"))
        value == IF type(kind.p) = "=" THEN parse_expression(advance_token(kind.p), 0)
                 ELSE Result(kind.p, Missing)
    IN  Located(p, Result(expect(value.p, ";"),
            Node("VariableDeclaration", modifiers \o (IF type(p) = "mut" THEN "mut " ELSE ""),
                 <<name.node, kind.node, value.node>>)))

RECURSIVE GenericParameters(_, _, _), Parameters(_, _), Members(_, _, _, _), Variants(_, _)

\* parse_generic_params behind `<`: names, and behind one semicolon the sizes.
GenericParameters(p, sizes, parts) ==
    LET name == parse_name(IF sizes THEN expect(p, "const") ELSE p, FALSE)
        kind == parse_type(expect(name.p, ":"))
        q == IF sizes THEN Require(kind.p, kind.node.text \in {"usize", "u64"}) ELSE name.p
        list == Append(parts, [name.node EXCEPT !.text = IF sizes THEN "#" \o @ ELSE @])
    IN  IF type(q) = ";" THEN GenericParameters(Require(advance_token(q), ~sizes), TRUE, list)
        ELSE IF type(q) = "," /\ type(advance_token(q)) # ">"
             THEN GenericParameters(advance_token(q), sizes, list)
        ELSE Result(expect(accept(q, ","), ">"), list)

GenericsRule(p) ==
    IF type(p) = "<" THEN GenericParameters(advance_token(p), FALSE, <<>>) ELSE Result(p, <<>>)

Parameters(p, parts) ==
    IF type(p) = ")" \/ ~p.ok THEN Result(expect(p, ")"), parts)
    ELSE LET name == parse_name(p, p.in_method)
             kind == parse_type(expect(name.p, ":"))
             list == Append(parts, Node("parameter", "", <<name.node, kind.node>>))
         IN  IF type(kind.p) = "," THEN Parameters(advance_token(kind.p), list)
             ELSE Result(expect(kind.p, ")"), list)

\* A function behind its modifiers; parts: name, generics, parameters, result, body.
FunctionRule(p, modifiers) ==
    LET name == parse_name(p, FALSE)
        generics == parse_generic_params(name.p)
        parameters == Parameters(expect(generics.p, "("), <<>>)
        result == parse_type(expect(parameters.p, "->"))
        body == parse_block_statement(result.p)
    IN  Located(p, Result(body.p, Node("FunctionDefinition", modifiers,
            <<name.node, Node("generics", "", generics.node), Node("parameters", "", parameters.node),
              result.node, body.node>>)))

Statements(p, parts) ==
    IF type(p) = "}" \/ at_end(p) THEN Result(expect(p, "}"), parts)
    ELSE LET s == parse_statement(p) IN Statements(s.p, Append(parts, s.node))

BlockRule(p) ==
    LET inner == Statements([expect(p, "{") EXCEPT !.block_depth = @ + 1], <<>>)
    IN  Located(p, Result([inner.p EXCEPT !.block_depth = p.block_depth],
                          Node("BlockStatement", "", inner.node)))

\* std::stoi reads decimal digits only; an offset beyond 32 bits is not modelled.
Offset(word) == IF Len(word) > 1 /\ word[2] \notin Digit THEN "0" ELSE Spelling(word)

\* A member of a struct: a field, a method, and at most one modifier.
Method(p, one, given, shown) ==
    LET concurrent == given \cap {"deferred", "spawnable"} # {}
        method == parse_function_definition(
            [Require(one, "mut" \notin given /\ (concurrent => one.mode = "syntax")) EXCEPT !.in_method = TRUE],
            shown \o (IF given = {} THEN "" ELSE (CHOOSE m \in given : TRUE) \o " "))
    IN  Result([method.p EXCEPT !.in_method = p.in_method], method.node)

FieldOffset(kind, packed) ==
    LET place == Require(advance_token(kind.p), packed)
    IN  IF type(kind.p) # "at" THEN Result(kind.p, Missing)
        ELSE IF type(place) = "NUMBER" THEN Leaf(place, "at", Offset(current(place).spelling))
        ELSE Result(fail(place), Missing)

FieldEnd(name, kind, offset, modifiers) ==
    Result(IF type(offset.p) = "," THEN advance_token(offset.p) ELSE Require(offset.p, type(offset.p) = "}"),
           Node("field", modifiers, <<name.node, kind.node, offset.node>>))

Field(one, packed, given, shown) ==
    LET name == parse_name(Require(one, given \subseteq {"mut"}), FALSE)
        kind == parse_type(expect(name.p, ":"))
    IN  FieldEnd(name, kind, FieldOffset(kind, packed), shown \o (IF given = {} THEN "" ELSE "mut "))

\* Behind `def`, `pub` and the modifiers given: a method or a field.
Member(p, one, packed, given, shown, fields, methods) ==
    LET method == Method(p, one, given, shown)
        field == Field(one, packed, given, shown)
    IN  IF type(p) = "}" \/ ~p.ok
        THEN Result(expect(p, "}"), <<Node("fields", "", fields), Node("methods", "", methods)>>)
        ELSE IF type(one) = "IDENTIFIER" /\ Ahead(one, 1) \in {"(", "<"}
        THEN Members(method.p, packed, fields, Append(methods, method.node))
        ELSE Members(field.p, packed, Append(fields, field.node), methods)

Modifiers == <<"mut", "static", "deferred", "spawnable">>

\* At most one of the modifiers.
Modified(p, v, packed, shown, fields, methods) ==
    LET taken == FoldLeft(LAMBDA q, m : accept(q, m), v, Modifiers)
        given == {t.type : t \in {taken.tokens[i] : i \in v.at..taken.at - 1}}
    IN  Member(p, Require(taken, Cardinality(given) <= 1), packed, given, shown, fields, methods)

Members(p, packed, fields, methods) ==
    LET q == expect(p, "def")
    IN  Modified(p, IF type(q) \in {"pub", "priv"} THEN advance_token(q) ELSE q, packed,
                 IF type(q) = "pub" THEN "pub " ELSE "", fields, methods)

Backing(p, packed) ==
    LET inside == parse_type(advance_token(p))
    IN  IF packed /\ type(p) = "(" THEN Result(expect(inside.p, ")"), inside.node) ELSE Result(p, Missing)

StructBody(packed, modifiers, backing, name) ==
    LET generics == parse_generic_params(name.p)
        members == Members(expect(generics.p, "{"), packed, <<>>, <<>>)
    IN  Result(members.p, Node("StructDefinition", modifiers \o (IF packed THEN "packed " ELSE ""),
            <<name.node, Node("generics", "", generics.node), backing.node>> \o members.node))

StructNamed(packed, modifiers, backing) ==
    StructBody(packed, modifiers, backing, parse_name(backing.p, FALSE))

StructRule(p, modifiers) ==
    LET packed == type(p) = "packed"
        q == IF packed THEN require_extended(advance_token(p)) ELSE p
    IN  StructNamed(packed, modifiers, Backing(expect(q, "struct"), packed))

Variants(p, parts) ==
    LET name == parse_name(p, FALSE)
    IN  IF type(p) = "}" \/ ~p.ok THEN Result(Require(expect(p, "}"), parts # <<>>), parts)
        ELSE Variants(IF type(name.p) = "," THEN advance_token(name.p)
                      ELSE Require(name.p, type(name.p) = "}"), Append(parts, name.node))

parse_enum_definition(p, modifiers) ==
    LET name == parse_name(expect(p, "enum"), FALSE)
        variants == Variants(expect(name.p, "{"), <<>>)
    IN  Result(variants.p, Node("EnumDefinition", modifiers, <<name.node>> \o variants.node))

DefRule(p) ==
    LET def == expect(p, "def")
        visible == type(def) \in {"pub", "priv"}
        shown == IF type(def) = "pub" THEN "pub " ELSE ""
        v == IF visible THEN advance_token(Require(def, p.block_depth = 0)) ELSE def
        const == type(v) = "const"
        c == accept(v, "const")
        concurrent == ~const /\ type(c) \in {"spawnable", "deferred"}
        q == IF concurrent THEN advance_token(require_extended(c)) ELSE c
        outer == Require(q, p.block_depth = 0)
        struct == Require(q, p.mode = "core" => p.block_depth = 0)
        bare == ~const /\ ~concurrent
        variable == parse_variable_declaration(
            Require(q, ~(const /\ type(q) = "mut") /\ (visible => const)), shown \o (IF const THEN "const " ELSE ""))
    IN  Located(p,
            IF bare /\ type(q) \in {"struct", "packed"}
            THEN parse_struct_definition(struct, shown)
            ELSE IF bare /\ type(q) = "enum" THEN parse_enum_definition(outer, shown)
            ELSE IF concurrent \/ (bare /\ type(q) = "IDENTIFIER" /\ Ahead(q, 1) \in {"(", "<"})
            THEN parse_function_definition(outer, shown \o (IF concurrent THEN type(c) \o " " ELSE ""))
            ELSE Result(Require(variable.p, const => variable.node.parts[3].kind # "missing"), variable.node))

parse_return_statement(p) ==
    LET q == expect(p, "return")
        value == IF type(q) = ";" THEN Result(q, Missing) ELSE parse_expression(q, 0)
    IN  Located(p, Result(expect(value.p, ";"), Node("ReturnStatement", "", <<value.node>>)))

parse_if_statement(p) ==
    LET condition == parse_condition(expect(p, "if"))
        consequence == parse_block_statement(condition.p)
        q == advance_token(consequence.p)
        alternative == IF type(consequence.p) # "else" THEN Result(consequence.p, Missing)
                       ELSE IF type(q) = "if" THEN parse_if_statement(q) ELSE parse_block_statement(q)
    IN  Located(p, Result(alternative.p,
            Node("IfStatement", "", <<condition.node, consequence.node, alternative.node>>)))

\* `while` and `unless`.
parse_conditional(p, word, kind) ==
    LET condition == parse_condition(expect(p, word))
        body == parse_block_statement(condition.p)
    IN  Located(p, Result(body.p, Node(kind, "", <<condition.node, body.node>>)))

ForInit(p, q) ==
    LET deep == [q EXCEPT !.block_depth = @ + 1]
        binding == IF type(q) = "def" THEN parse_def_statement(deep) ELSE parse_expression_statement(deep)
    IN  IF type(q) = ";" THEN Result(advance_token(q), Missing)
        ELSE Result([Require(binding.p, binding.node.kind \in {"VariableDeclaration", "ExpressionStatement"})
                        EXCEPT !.block_depth = p.block_depth], binding.node)

ForUpdate(p, r) ==
    LET assigned == parse_assignment([r EXCEPT !.literals = FALSE])
    IN  IF type(r) = "{" THEN Result(r, Missing)
        ELSE Result([assigned.p EXCEPT !.literals = p.literals], assigned.node)

ForBody(p, init, condition, update) ==
    LET body == parse_block_statement(update.p)
    IN  Located(p, Result(body.p,
            Node("ForStatement", "", <<init.node, condition.node, update.node, body.node>>)))

ForCondition(p, init) ==
    LET condition == IF type(init.p) = ";" THEN Result(init.p, Missing) ELSE parse_condition(init.p)
    IN  ForBody(p, init, condition, ForUpdate(p, expect(condition.p, ";")))

parse_for_statement(p) == ForCondition(p, ForInit(p, expect(p, "for")))

parse_defer_statement(p) ==
    LET call == parse_expression(expect(p, "defer"), 0)
    IN  Located(p, Result(expect(call.p, ";"), Node("DeferStatement", "", <<call.node>>)))

parse_import_statement(p) ==
    LET q == expect(Require(p, p.mode = "core" => p.block_depth = 0), "import")
    IN  Located(p, IF type(q) = "STRING_LITERAL"
                   THEN Result(expect(advance_token(q), ";"), Node("ImportStatement", String(q), <<>>))
                   ELSE Result(fail(q), Missing))

parse_switch(p) == Armed("SwitchStatement", parse_condition(advance_token(p)), FALSE)

StatementRule(p) ==
    LET t == type(p)
    IN  Located(p,
            IF t = "switch" THEN parse_switch(p)
            ELSE IF t = "def" THEN parse_def_statement(p)
            ELSE IF t = "return" THEN parse_return_statement(p)
            ELSE IF t = "if" THEN parse_if_statement(p)
            ELSE IF t = "unless" THEN parse_conditional(p, "unless", "UnlessStatement")
            ELSE IF t = "while" THEN parse_conditional(p, "while", "WhileStatement")
            ELSE IF t = "for" THEN parse_for_statement(p)
            ELSE IF t = "defer" THEN parse_defer_statement(p)
            ELSE IF t = "import" THEN parse_import_statement(p)
            ELSE IF t = "{" THEN parse_block_statement(p)
            ELSE parse_expression_statement(p))

Rule(rule, p, given) ==
    IF rule = "type" THEN TypeRule(p)
    ELSE IF rule = "expression" THEN ExpressionRule(p, given)
    ELSE IF rule = "match" THEN MatchRule(p)
    ELSE IF rule = "assignment" THEN AssignmentRule(p)
    ELSE IF rule = "block" THEN BlockRule(p)
    ELSE IF rule = "generics" THEN GenericsRule(p)
    ELSE IF rule = "function" THEN FunctionRule(p, given)
    ELSE IF rule = "struct" THEN StructRule(p, given)
    ELSE IF rule = "def" THEN DefRule(p)
    ELSE StatementRule(p)

RECURSIVE Program(_, _)

\* In the core language only definitions, constants and imports.
Outermost(node) ==
    \/ node.kind \in {"FunctionDefinition", "StructDefinition", "EnumDefinition", "ImportStatement"}
    \/ node.kind = "VariableDeclaration" /\ node.text \in {"const ", "pub const "}

\* parse_program behind a statement.
Following(s, parts) == Program(Require(s.p, s.p.mode = "core" => Outermost(s.node)), Append(parts, s.node))

Program(p, parts) ==
    IF at_end(p) THEN Result(p, Node("Program", "", IF p.ok THEN parts ELSE <<>>))
    ELSE Following(parse_statement(Require(p, p.mode = "core" => type(p) \in {"def", "import"})), parts)

\* parse_checked_program: no program if anything was diagnosed.
Checked(text, tokens, mode) ==
    Program(Require(GloinParser(tokens, mode), Diagnostics(text, tokens) = {}), <<>>)

Parsed(text, mode) == Checked(text, Tokens(text), mode)

-----------------------------------------------------------------------------
(* to_string of the AST's classes, and the copies of ast_clone.cpp. *)

RECURSIVE Shown(_), ShownStatement(_), ShownDefinition(_)

Joined(parts, separator) ==
    FoldLeft(LAMBDA text, i : text \o (IF i = 1 THEN "" ELSE separator) \o Shown(parts[i]), "",
             [i \in 1..Len(parts) |-> i])

\* Each part followed by a separator.
Trailed(parts, separator) == FoldLeft(LAMBDA text, part : text \o Shown(part) \o separator, "", parts)

Statement == {"ExpressionStatement", "BlockStatement", "ReturnStatement", "VariableDeclaration",
              "SwitchStatement", "IfStatement", "UnlessStatement", "ForStatement", "WhileStatement",
              "DeferStatement"}
Definition == {"FunctionDefinition", "StructDefinition", "EnumDefinition", "ImportStatement"}

\* A call's or a literal's parts after its first.
Rest(n) == SubSeq(n.parts, 2, Len(n.parts))

ShownStatement(n) ==
    LET part(i) == Shown(n.parts[i])
        optional(before, i) == IF n.parts[i] = Missing THEN "" ELSE before \o part(i)
    IN  CASE n.kind = "ExpressionStatement" -> part(1) \o ";"
          [] n.kind = "BlockStatement" -> "{ " \o Trailed(n.parts, " ") \o "}"
          [] n.kind = "ReturnStatement" -> "return" \o optional(" ", 1) \o ";"
          [] n.kind = "VariableDeclaration" ->
                 "def " \o n.text \o part(1) \o ": " \o part(2) \o optional(" = ", 3) \o ";"
          [] n.kind = "SwitchStatement" -> "switch " \o part(1) \o " { " \o Trailed(Rest(n), " ") \o "}"
          [] n.kind = "IfStatement" -> "if " \o part(1) \o " " \o part(2) \o optional(" else ", 3)
          [] n.kind = "UnlessStatement" -> "unless " \o part(1) \o " " \o part(2)
          [] n.kind = "WhileStatement" -> "while " \o part(1) \o " " \o part(2)
          [] n.kind = "ForStatement" ->
                 "for " \o (IF n.parts[1] = Missing THEN ";" ELSE part(1)) \o " " \o part(2) \o "; "
                     \o part(3) \o " " \o part(4)
          [] n.kind = "DeferStatement" -> "defer " \o part(1) \o ";"

\* The generic parameters of a definition are not printed.
ShownDefinition(n) ==
    LET part(i) == Shown(n.parts[i])
    IN  CASE n.kind = "FunctionDefinition" ->
                 "def " \o n.text \o part(1) \o "(" \o Joined(n.parts[3].parts, ", ") \o ") -> "
                     \o part(4) \o " " \o part(5)
          [] n.kind = "StructDefinition" ->
                 "def " \o n.text \o "struct" \o (IF n.parts[3] = Missing THEN "" ELSE "(" \o part(3) \o ")")
                     \o " " \o part(1) \o " { " \o Trailed(n.parts[4].parts, ", ")
                     \o Trailed(n.parts[5].parts, " ") \o "}"
          [] n.kind = "EnumDefinition" -> "def " \o n.text \o "enum " \o part(1) \o " { " \o Joined(Rest(n), ", ") \o " }"
          [] n.kind = "ImportStatement" -> "import " \o n.text \o ";"

Infix(n) == "(" \o Shown(n.parts[1]) \o " " \o n.text \o " " \o Shown(n.parts[2]) \o ")"

Shown(n) ==
    LET part(i) == Shown(n.parts[i])
    IN  CASE n.kind \in Statement -> ShownStatement(n)
          [] n.kind \in Definition -> ShownDefinition(n)
          [] n.kind = "Program" -> Trailed(n.parts, " ")
          [] n.kind = "missing" -> ""
          [] n.kind = "StringLiteral" -> "\"" \o n.text \o "\""
          [] n.kind = "ArrayLiteral" ->
                 IF n.text = "{;}" THEN "{" \o part(1) \o "; " \o part(2) \o "}"
                 ELSE IF n.text = "{}" THEN "{" \o Joined(n.parts, ", ") \o "}"
                 ELSE "[" \o Joined(n.parts, ", ") \o "]"
          [] n.kind = "PrefixExpression" -> "(" \o n.text \o part(1) \o ")"
          [] n.kind = "InfixExpression" -> Infix(n)
          [] n.kind = "CallExpression" -> part(1) \o "(" \o Joined(Rest(n), ", ") \o ")"
          [] n.kind = "IndexExpression" -> "(" \o part(1) \o "[" \o part(2) \o "])"
          [] n.kind = "SliceExpression" -> "(" \o part(1) \o "[" \o part(2) \o ".." \o part(3) \o "])"
          [] n.kind = "MemberAccessExpression" -> "(" \o part(1) \o "." \o part(2) \o ")"
          [] n.kind = "AssignmentExpression" -> "(" \o part(1) \o " = " \o part(2) \o ")"
          [] n.kind = "StructLiteral" -> part(1) \o " { " \o Trailed(Rest(n), ", ") \o "}"
          [] n.kind = "MatchExpression" -> "match " \o part(1) \o " { " \o Trailed(Rest(n), "; ") \o "}"
          [] n.kind = "SpawnExpression" -> "run " \o part(1)
          [] n.kind = "pattern" ->
                 IF n.text = "default" THEN n.text ELSE IF n.text = "case" THEN "case " \o part(1)
                 ELSE "case " \o n.text \o "(" \o part(1) \o ")"
          [] n.kind = "arm" -> part(1) \o (IF n.parts[2].kind = "BlockStatement" THEN " " ELSE " => ") \o part(2)
          [] n.kind = "parameter" -> part(1) \o ": " \o part(2)
          [] n.kind = "field" ->
                 IF Len(n.parts) = 1 THEN n.text \o ": " \o part(1)
                 ELSE "def " \o n.text \o part(1) \o ": " \o part(2)
                          \o (IF n.parts[3] = Missing THEN "" ELSE " at " \o part(3))
          [] OTHER -> n.text

\* Mutant: a deferred call is not copied.
CloneKinds_Undeferred ==
    (Statement \ {"DeferStatement"}) \cup
    {"Identifier", "MatchExpression", "IntegerLiteral", "FloatLiteral", "BooleanLiteral", "NullLiteral",
     "ZeroedLiteral", "StringLiteral", "ArrayLiteral", "PrefixExpression", "InfixExpression",
     "CallExpression", "IndexExpression", "SliceExpression", "MemberAccessExpression",
     "AssignmentExpression", "StructLiteral", "SpawnExpression"}

\* The classes a clone copies, fields, spans and parts; it throws at any other.
CloneKinds ==
    Statement \cup
    {"Identifier", "MatchExpression", "IntegerLiteral", "FloatLiteral", "BooleanLiteral", "NullLiteral",
     "ZeroedLiteral", "StringLiteral", "ArrayLiteral", "PrefixExpression", "InfixExpression",
     "CallExpression", "IndexExpression", "SliceExpression", "MemberAccessExpression",
     "AssignmentExpression", "StructLiteral", "SpawnExpression"}

RECURSIVE clone(_)

clone(n) ==
    IF n.kind \in CloneKinds \cup {"arm", "pattern", "field", "missing"}
    THEN [n EXCEPT !.parts = [i \in 1..Len(n.parts) |-> clone(n.parts[i])]]
    ELSE Node("thrown", "", <<>>)

\* clone_function: the body is copied, the signature has names only.
clone_function(f) == [f EXCEPT !.parts[5] = clone(f.parts[5])]

=============================================================================
