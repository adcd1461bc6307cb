------------------------------- MODULE Lexer -------------------------------
(***************************************************************************)
(* The lexer (src/src/lexer.cpp): from the bytes of a source text to its   *)
(* tokens and the places where it reports an error.                        *)
(*                                                                         *)
(* A text is a sequence of bytes.  An ASCII byte is its one-character      *)
(* string; a byte of 0x80 and above is a name whose value HighBytes gives. *)
(* Places count from 1; a span is [from, to) with `to` behind its last     *)
(* byte.  The type of a keyword or an operator is its spelling.            *)
(***************************************************************************)
EXTENDS Naturals, Sequences, FiniteSets, FiniteSetsExt, SequencesExt

CONSTANTS
    HighBytes      \* the bytes of 0x80 and above that occur, with their values

ASSUME HighBytesAssumption ==
    \A b \in DOMAIN HighBytes : HighBytes[b] \in 128..255

-----------------------------------------------------------------------------
(* Bytes. *)

Digit == {"0", "1", "2", "3", "4", "5", "6", "7", "8", "9"}
HexLetter == {"a", "b", "c", "d", "e", "f", "A", "B", "C", "D", "E", "F"}
Letter == HexLetter \cup
    {"g", "h", "i", "j", "k", "l", "m", "n", "o", "p", "q", "r", "s", "t", "u", "v", "w", "x", "y", "z",
     "G", "H", "I", "J", "K", "L", "M", "N", "O", "P", "Q", "R", "S", "T", "U", "V", "W", "X", "Y", "Z"}
NameByte == Letter \cup Digit \cup {"_"}
High == DOMAIN HighBytes
Breaks == {"\n", "\r"}
Escapes == {"\\", "\"", "'", "n", "r", "t", "0"}

\* Every other byte below 0x20, and DEL, by its name.
Nul == "00"
Control == {"\t", "1F", "7F", Nul}

Spelling(bytes) == FoldLeft(LAMBDA word, byte : word \o byte, "", bytes)
Slice(text, from, to) == SubSeq(text, from, to - 1)
Follows(text, at, bytes) ==
    at + Len(bytes) <= Len(text) + 1 /\ Slice(text, at, at + Len(bytes)) = bytes

\* The first place from `at` on whose byte is outside `bytes`.
Past(text, at, bytes) ==
    Min({i \in at..Len(text) : text[i] \notin bytes} \cup {Len(text) + 1})

\* No overlong form, surrogate or value above the last scalar.
SecondByte(first, second) ==
    /\ first = 224 => second >= 160
    /\ first = 237 => second < 160
    /\ first = 240 => second >= 144
    /\ first = 244 => second < 144

\* The length of the scalar value encoded at a place, 0 if there is none.
utf8_width(text, at) ==
    IF text[at] \notin High THEN 1
    ELSE LET first == HighBytes[text[at]]
             width == IF first \in 194..223 THEN 2 ELSE IF first \in 224..239 THEN 3
                      ELSE IF first \in 240..244 THEN 4 ELSE 0
             byte(i) == IF text[at + i] \in High THEN HighBytes[text[at + i]] ELSE 0
         IN  IF /\ width > 0 /\ at + width - 1 <= Len(text)
                /\ \A i \in 1..width - 1 : byte(i) \in 128..191
                /\ SecondByte(first, byte(1))
             THEN width ELSE 0

\* The constructor: the places where the text is no text, trivia included.
BadBytes(text) ==
    LET step(i) == IF utf8_width(text, i) = 0 THEN 1 ELSE utf8_width(text, i)
        scan[i \in 1..Len(text) + 1] ==
            IF i > Len(text) THEN {}
            ELSE scan[Min({i + step(i), Len(text) + 1})] \cup
                 IF \/ utf8_width(text, i) = 0
                    \/ text[i] = Nul
                    \/ i = 1 /\ Follows(text, 1, <<"EF", "BB", "BF">>)
                 THEN {i} ELSE {}
    IN  scan[1]

-----------------------------------------------------------------------------
(* Words. *)

Integers8To128 == {"8", "16", "32", "64", "128"}
Signed == {"i" \o w : w \in Integers8To128}
Unsigned == {"u" \o w : w \in Integers8To128}
Endian == {e \o t : e \in {"be_", "le_"}, t \in Signed \cup Unsigned}
Keywords ==
    {"fn", "spawn", "await", "switch", "match", "case", "default", "in", "int", "usize", "char",
     "import", "extern", "def", "mut", "const", "return", "bool", "f32", "f64", "f128", "string",
     "void", "result", "error", "true", "false", "null", "zeroed", "struct", "enum", "pub", "priv",
     "static", "self", "if", "unless", "else", "for", "while", "break", "continue", "defer",
     "deferred", "spawnable", "run", "packed", "bit", "at", "_"} \cup Signed \cup Unsigned \cup Endian

\* is_type_token.
TypeTokens ==
    {"bool", "f32", "f64", "f128", "int", "usize", "char", "void", "string", "bit", "result", "error",
     "CUSTOM_WIDTH_INT"} \cup Signed \cup Unsigned \cup Endian

\* A reserved integer of any width, with one prefix and one suffix of byte order.
CustomWidth(word) ==
    LET long == Len(word) >= 3
        stem == IF long /\ Spelling(SubSeq(word, 1, 3)) \in {"be_", "le_"}
                THEN SubSeq(word, 4, Len(word)) ELSE word
        bare == IF Len(stem) >= 3 /\ Spelling(SubSeq(stem, Len(stem) - 2, Len(stem))) \in {"_be", "_le"}
                THEN SubSeq(stem, 1, Len(stem) - 3) ELSE stem
    IN  /\ Len(bare) > 1
        /\ bare[1] \in {"u", "i"}
        /\ \A i \in 2..Len(bare) : bare[i] \in Digit

get_keyword_type(word) ==
    IF Spelling(word) \in Keywords THEN Spelling(word)
    ELSE IF CustomWidth(word) THEN "CUSTOM_WIDTH_INT" ELSE "IDENTIFIER"

Pairs == {"::", "->", "=>", "..", "==", "!=", "<=", ">=", "&&", "||", "<<", ">>",
          "+=", "-=", "*=", "/=", "%=", "&=", "|=", "^="}
Marks == {"(", ")", "{", "}", "[", "]", ";", ":", ",", "=", "+", "-", "*", "/", "!", "<", ">",
          "&", "|", "^", "~", "%", "?", ".", "#", "@"}

Types == Keywords \cup Pairs \cup Marks \cup
    {"CUSTOM_WIDTH_INT", "IDENTIFIER", "NUMBER", "FLOAT", "CHAR", "STRING_LITERAL", "NEWLINE",
     "EOF", "UNKNOWN"}

\* Where blanks and comments end.
Trivia(text, at) ==
    LET skip[i \in 1..Len(text) + 1] ==
            IF i > Len(text) THEN i
            ELSE IF text[i] \in {" ", "\t"} THEN skip[i + 1]
            ELSE IF Follows(text, i, <<"/", "/">>)
                 THEN skip[Min({j \in i + 2..Len(text) : text[j] \in Breaks} \cup {Len(text) + 1})]
            ELSE i
    IN  skip[at]

\* What may not follow a number: its bytes become part of a malformed one.
Suffix(text, at, bytes) ==
    Min({i \in at..Len(text) : text[i] \notin bytes /\ ~(text[i] = "." /\ ~Follows(text, i, <<".", ".">>))}
        \cup {Len(text) + 1})

\* A scanned token: its type ("UNKNOWN" where `invalid` is called) and its end.
Scanned(type, to) == [type |-> type, to |-> to]

read_number(text, at) ==
    LET digits(i) == Past(text, i, Digit)
        prefixed == at < Len(text) /\ text[at] = "0" /\ text[at + 1] \in {"x", "X", "b", "B"}
        based == Past(text, at + 2, IF text[at + 1] \in {"x", "X"} THEN Digit \cup HexLetter ELSE {"0", "1"})
        whole == digits(at)
        point == whole <= Len(text) /\ text[whole] = "." /\ ~Follows(text, whole, <<".", ".">>)
        fraction == IF point THEN digits(whole + 1) ELSE whole
        exponent == fraction <= Len(text) /\ text[fraction] \in {"e", "E"}
        sign == IF fraction < Len(text) /\ text[fraction + 1] \in {"+", "-"} THEN 2 ELSE 1
        scaled == IF exponent THEN digits(fraction + sign) ELSE fraction
        end == IF prefixed THEN based ELSE scaled
        valid == IF prefixed THEN based # at + 2
                 ELSE /\ point => fraction # whole + 1
                      /\ exponent => scaled # fraction + sign
        tail == Suffix(text, end, NameByte \cup High)
    IN  Scanned(IF ~valid \/ tail # end THEN "UNKNOWN"
                ELSE IF ~prefixed /\ (point \/ exponent) THEN "FLOAT" ELSE "NUMBER", tail)

\* The bytes of a quoted literal behind its quote: where they end, how many
\* characters they are and whether each is allowed.
Quoted(text, at, quote) ==
    LET stop(i, ok) == [to |-> i, characters |-> 0, valid |-> ok]
        scan[i \in at..Len(text) + 1] ==
            LET next(width, ok) ==
                    LET rest == scan[i + width]
                    IN  [rest EXCEPT !.characters = @ + 1, !.valid = @ /\ ok]
            IN  IF i > Len(text) THEN stop(i, TRUE)
                ELSE IF text[i] \in Breaks \cup {quote} THEN stop(i, TRUE)
                ELSE IF text[i] = "\\"
                     THEN IF i = Len(text) THEN stop(i + 1, FALSE)
                          ELSE IF text[i + 1] \in Breaks THEN stop(i + 1, FALSE)
                          ELSE next(2, text[i + 1] \in Escapes)
                ELSE LET width == utf8_width(text, i)
                     IN  next(Max({width, 1}), width # 0 /\ text[i] \notin Control)
    IN  scan[at]

\* Mutant: a character literal may hold any number of characters.
OneCharacter_Any(quote, characters) == TRUE

OneCharacter(quote, characters) == quote = "'" => characters = 1

read_quoted(text, at) ==
    LET quote == text[at]
        body == Quoted(text, at + 1, quote)
        closed == body.to <= Len(text) /\ text[body.to] = quote
    IN  Scanned(IF ~(closed /\ body.valid /\ OneCharacter(quote, body.characters)) THEN "UNKNOWN"
                ELSE IF quote = "'" THEN "CHAR" ELSE "STRING_LITERAL",
                IF closed THEN body.to + 1 ELSE body.to)

read_word(text, at) ==
    LET to == Past(text, at, NameByte \cup High)
        word == Slice(text, at, to)
    IN  Scanned(IF \E i \in 1..Len(word) : word[i] \in High THEN "UNKNOWN" ELSE get_keyword_type(word), to)

\* The longest spelling; a block comment and a fraction without digits before
\* its point are refused as a whole.
read_operator(text, at) ==
    LET two == Spelling(Slice(text, at, at + 2))
        closes == {i \in at + 2..Len(text) - 1 : Follows(text, i, <<"*", "/">>)}
    IN  IF Follows(text, at, <<"/", "*">>)
        THEN Scanned("UNKNOWN", IF closes = {} THEN Len(text) + 1 ELSE Min(closes) + 2)
        ELSE IF at < Len(text) /\ two \in Pairs THEN Scanned(two, at + 2)
        ELSE IF text[at] = "." /\ at < Len(text) /\ text[Min({at + 1, Len(text)})] \in Digit
             THEN Scanned("UNKNOWN", Suffix(text, at + 1, NameByte))
        ELSE Scanned(IF text[at] \in Marks THEN text[at] ELSE "UNKNOWN", at + 1)

\* What stands at `start`, and where it ends.
Lexeme(text, start) ==
    IF start > Len(text) THEN Scanned("EOF", start)
    ELSE IF text[start] = "\n" THEN Scanned("NEWLINE", start + 1)
    ELSE IF Follows(text, start, <<"\r", "\n">>) THEN Scanned("NEWLINE", start + 2)
    ELSE IF text[start] \in {"\"", "'"} THEN read_quoted(text, start)
    ELSE IF text[start] \in Digit THEN read_number(text, start)
    ELSE IF text[start] \in Letter \cup {"_"} \cup High THEN read_word(text, start)
    ELSE read_operator(text, start)

\* A token, with its own error; an error of the text makes it unknown.
Token(text, bad, start, found) ==
    LET spoiled == \E i \in bad : start <= i /\ i < found.to
    IN  [type |-> IF spoiled THEN "UNKNOWN" ELSE found.type,
         spelling |-> Slice(text, start, found.to), from |-> start, to |-> found.to,
         reported |-> found.type = "UNKNOWN" /\ ~spoiled]

next_token(text, bad, start) == Token(text, bad, start, Lexeme(text, start))

\* tokenize: up to and with the end of the text.
Tokens(text) ==
    LET bad == BadBytes(text)
        rest[at \in 1..Len(text) + 1] ==
            LET from(token) == <<token>> \o IF token.type = "EOF" THEN <<>> ELSE rest[token.to]
            IN  from(next_token(text, bad, Trivia(text, at)))
    IN  rest[1]

\* The spans of the diagnostics, those of the constructor first.
Diagnostics(text, tokens) ==
    {<<i, i + Max({utf8_width(text, i), 1})>> : i \in BadBytes(text)} \cup
    {<<t.from, t.to>> : t \in {u \in ToSet(tokens) : u.reported}}

-----------------------------------------------------------------------------
(* What a text means, stated without scanning it. *)

\* The scalar value that bytes encode in their one, shortest form.
Scalar(bytes) ==
    LET n == Len(bytes)
        code(i) == HighBytes[bytes[i]]
        lead == <<0, 192, 224, 240>>[n]
        value == FoldLeft(LAMBDA v, i : 64 * v + (code(i) - 128), code(1) - lead, [j \in 1..n - 1 |-> j + 1])
        range == <<{}, 128..2047, (2048..65535) \ (55296..57343), 65536..1114111>>[n]
    IN  /\ n \in 2..4
        /\ \A i \in 1..n : bytes[i] \in High
        /\ code(1) \in lead..lead + 2 ^ (7 - n) - 1
        /\ \A i \in 2..n : code(i) \in 128..191
        /\ value \in range

Character(bytes) ==
    \/ Len(bytes) = 1 /\ bytes[1] \notin High \cup Control \cup Breaks \cup {"\\"}
    \/ Len(bytes) = 2 /\ bytes[1] = "\\" /\ bytes[2] \in Escapes
    \/ Scalar(bytes)

\* Cut in some way into characters, none of them the bare quote.
Characters(bytes, quote) ==
    LET n == Len(bytes)
        part(i, to) == Character(Slice(bytes, i, to)) /\ Slice(bytes, i, to) # <<quote>>
        cut[i \in 1..n + 1] == i = n + 1 \/ \E to \in i + 1..Min({i + 4, n + 1}) : part(i, to) /\ cut[to]
    IN  IF quote = "'" THEN part(1, n + 1) ELSE cut[1]

Number(word) ==
    LET all(from, to, bytes) == from < to /\ \A i \in from..to - 1 : word[i] \in bytes
        n == Len(word) + 1
        decimal(to) == \/ all(1, to, Digit)
                       \/ \E p \in 2..to - 2 : word[p] = "." /\ all(1, p, Digit) /\ all(p + 1, to, Digit)
    IN  \/ decimal(n)
        \/ \E e \in 2..n - 2 : /\ word[e] \in {"e", "E"} /\ decimal(e)
                               /\ \/ all(e + 1, n, Digit)
                                  \/ word[e + 1] \in {"+", "-"} /\ all(e + 2, n, Digit)
        \/ n > 3 /\ word[1] = "0" /\ \/ word[2] \in {"x", "X"} /\ all(3, n, Digit \cup HexLetter)
                                     \/ word[2] \in {"b", "B"} /\ all(3, n, {"0", "1"})

\* The words of the language.
Word(bytes) ==
    \/ bytes[1] \in Digit /\ Number(bytes)
    \/ bytes[1] \notin Digit /\ ToSet(bytes) \subseteq NameByte
    \/ Len(bytes) <= 2 /\ Spelling(bytes) \in Pairs \cup Marks
    \/ bytes \in {<<"\n">>, <<"\r", "\n">>}
    \/ /\ Len(bytes) >= 2 /\ bytes[1] \in {"\"", "'"} /\ bytes[Len(bytes)] = bytes[1]
       /\ \/ bytes = <<"\"", "\"">>
          \/ Len(bytes) > 2 /\ Characters(SubSeq(bytes, 2, Len(bytes) - 1), bytes[1])

Blank(text, from, to) ==
    \A i \in from..to - 1 :
        \/ text[i] \in {" ", "\t"}
        \/ \E j \in from..i : Follows(text, j, <<"/", "/">>) /\ \A k \in j..i : text[k] \notin Breaks

\* The bytes between the tokens are blanks and comments; a token without an error
\* is the longest word at its place, and one with an error is no word at all.
LexesExactly(text, tokens) ==
    /\ \A i \in 1..Len(tokens) :
        LET t == tokens[i]
            before == IF i = 1 THEN 1 ELSE tokens[i - 1].to
        IN  /\ before <= t.from /\ Blank(text, before, t.from)
            /\ t.type = "EOF" <=> t.from > Len(text)
            /\ t.type \notin {"UNKNOWN", "EOF"} =>
                   /\ Word(t.spelling)
                   /\ \A to \in t.to + 1..Len(text) + 1 : ~Word(Slice(text, t.from, to))
            /\ t.type = "UNKNOWN" =>
                   \/ ~Word(t.spelling)
                   \/ BadBytes(text) \cap (t.from..t.to - 1) # {}
    /\ tokens[Len(tokens)].type = "EOF"
    /\ (\E i \in 1..Len(tokens) : tokens[i].type = "UNKNOWN") => Diagnostics(text, tokens) # {}

\* The bytes at fault are those that are part of no scalar value.
BytesExactly(text) ==
    \A i \in 1..Len(text) :
        LET encoded == \E from \in 1..i, to \in i + 1..Min({i + 4, Len(text) + 1}) : Scalar(Slice(text, from, to))
        IN  /\ text[i] \in High /\ ~encoded => i \in BadBytes(text)
            /\ i \in BadBytes(text) => ~encoded \/ Follows(text, i, <<"EF", "BB", "BF">>)

=============================================================================
