----------------------------- MODULE HttpDecoder -----------------------------
(***************************************************************************)
(* ResponseDecoder of stdlib/http.gloin: one HTTP/1.1 response taken from   *)
(* bytes in wire order, in pieces of any length, with a body that is handed *)
(* out in buffers of any length.                                            *)
(*                                                                          *)
(* A byte is a record of what it means to the decoder: the last byte of a   *)
(* head says what parse_response makes of the head, the last byte of a      *)
(* chunk-size line which size chunk_length reads in it.  The syntax inside  *)
(* a line is left out; "bad" is the last byte of one that does not parse.   *)
(***************************************************************************)
EXTENDS Naturals, Sequences

CONSTANTS BodyLimit, MetadataLimit, \* limits of the whole response
          HeadRoom, LineRoom        \* of one head, of one line of chunk syntax

ASSUME Limits == {BodyLimit, MetadataLimit, HeadRoom, LineRoom} \subseteq Nat

Byte(what) == [what |-> what, code |-> 0, n |-> 0]

\* The last byte of a head with this status code; a final head has a framing.
HeadEnd(code, framing, n) == [what |-> framing, code |-> code, n |-> n]

\* The end of the line that starts a chunk of n bytes.
SizeEnd(n) == [what |-> "size", code |-> 0, n |-> n]

\* The i-th byte of the body.
Datum(i) == [what |-> "data", code |-> 0, n |-> i]

Framings == {"none", "chunked", "fixed", "close"}

create == [state |-> "head", remaining |-> 0, body |-> 0, metadata |-> 0,
           head |-> 0, line |-> 0, code |-> 0]

Failed(d) == [d EXCEPT !.state = "failed"]

-----------------------------------------------------------------------------
(* One byte.                                                               *)

InBody(d) == d.state \in {"fixed", "close", "data"}

TooLong(d) == d.body = BodyLimit \/ d.code = 205

AfterBody(d) ==
    IF d.state = "close" \/ d.remaining > 1 THEN d.state
    ELSE IF d.state = "fixed" THEN "done" ELSE "data_cr"

BodyByte(d) ==
    IF TooLong(d) THEN Failed(d)
    ELSE [d EXCEPT !.body = @ + 1, !.state = AfterBody(d),
                   !.remaining = IF d.state = "close" THEN @ ELSE @ - 1]

AfterHead(b) ==
    IF b.what = "none" \/ (b.what = "fixed" /\ b.n = 0) THEN "done"
    ELSE IF b.what = "chunked" THEN "size" ELSE b.what

EndsHead(d, b) == d.state = "head" /\ b.what \in Framings \cup {"interim", "bad"}

HeadByte(d, b) ==
    IF d.head = HeadRoom THEN Failed(d)
    ELSE IF ~EndsHead(d, b) THEN [d EXCEPT !.head = @ + 1]
    ELSE IF b.what = "bad" \/ b.code = 101 THEN Failed(d)
    ELSE IF b.code < 200 THEN [d EXCEPT !.head = 0, !.code = b.code]
    ELSE IF b.what = "fixed" /\ (b.n > BodyLimit \/ (b.code = 205 /\ b.n # 0))
         THEN Failed(d)
    ELSE [d EXCEPT !.head = @ + 1, !.code = b.code, !.remaining = b.n,
                   !.state = AfterHead(b)]

\* A chunk-size line in state "size", a trailer line in state "trailers".
LineByte(d, b) ==
    IF b.what = "size" /\ d.state = "size" THEN
        IF b.n > BodyLimit - d.body \/ (d.code = 205 /\ b.n # 0) THEN Failed(d)
        ELSE [d EXCEPT !.line = 0, !.remaining = b.n,
                       !.state = IF b.n = 0 THEN "trailers" ELSE "data"]
    ELSE IF b.what = "field" /\ d.state = "trailers" THEN [d EXCEPT !.line = 0]
    ELSE IF b.what = "end" /\ d.state = "trailers" THEN [d EXCEPT !.line = 0, !.state = "done"]
    ELSE IF b.what # "line" \/ d.line = LineRoom THEN Failed(d)
    ELSE [d EXCEPT !.line = @ + 1]

ChunkEnd(d, b) ==
    IF d.state = "data_cr" /\ b.what = "cr" THEN [d EXCEPT !.state = "data_lf"]
    ELSE IF d.state = "data_lf" /\ b.what = "lf" THEN [d EXCEPT !.state = "size"]
    ELSE Failed(d)

MetadataByte(d, b) ==
    IF d.metadata = MetadataLimit THEN Failed(d)
    ELSE LET m == [d EXCEPT !.metadata = @ + 1] IN
         IF d.state = "head" THEN HeadByte(m, b)
         ELSE IF d.state \in {"data_cr", "data_lf"} THEN ChunkEnd(m, b)
         ELSE LineByte(m, b)

-----------------------------------------------------------------------------
(* Many bytes.                                                             *)

\* Decoding stops after the final head, so that its reader sees it first.
Stops(d, b) == EndsHead(d, b) /\ b.code >= 200

Started(decoder) == [d |-> decoder, out |-> <<>>, consumed |-> 0, stop |-> FALSE]

\* The i-th byte, unless decoding is over or has stopped before it.
Taken(so, b, i, room) ==
    IF so.stop \/ so.d.state \in {"done", "failed"} THEN so
    ELSE IF ~InBody(so.d) THEN
        [d |-> MetadataByte(so.d, b), out |-> so.out, consumed |-> i, stop |-> Stops(so.d, b)]
    ELSE IF Len(so.out) = room /\ ~TooLong(so.d) THEN [so EXCEPT !.stop = TRUE]
    ELSE [d |-> BodyByte(so.d), out |-> Append(so.out, b), consumed |-> i, stop |-> FALSE]

\* What has become of the first i bytes.
Decoding(decoder, bytes, room) ==
    LET after[i \in 0..Len(bytes)] ==
          IF i = 0 THEN Started(decoder) ELSE Taken(after[i - 1], bytes[i], i, room)
    IN after

\* The bytes are taken up to the end of the response, the end of its final head
\* or the first byte of the body for which there is no room.
consume(decoder, bytes, room) == Decoding(decoder, bytes, room)[Len(bytes)]

\* eof says that nothing follows these bytes.
feed(decoder, bytes, eof, room) ==
    LET did == consume(decoder, bytes, room)
        end == eof /\ did.consumed = Len(bytes)
        d   == IF decoder.state = "failed" THEN decoder
               ELSE IF end /\ did.d.state = "close" THEN [did.d EXCEPT !.state = "done"]
               ELSE IF end /\ did.d.state # "done" THEN Failed(did.d)
               ELSE did.d
    IN  [decoder |-> d, out |-> did.out, consumed |-> did.consumed,
         complete |-> d.state = "done", head_ready |-> d.code >= 200]

=============================================================================
