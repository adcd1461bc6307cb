----------------------------- MODULE HttpExchange -----------------------------
(***************************************************************************)
(* Exchange of stdlib/http_client.gloin: one request and its response over  *)
(* a nonblocking socket, plain or with TLS.  A call of step does a bounded  *)
(* piece of work, at most one read and one write, and never waits, so it is *)
(* one action; between calls the server, the network and the clock move,    *)
(* and the application steps, supplies, consumes or cancels as it likes.    *)
(*                                                                          *)
(* The i-th byte of the request, head and content, is the number i.  What   *)
(* the sockets and the TLS library may do is taken from net.gloin,          *)
(* net_runtime.cpp and tls_runtime.cpp.                                     *)
(***************************************************************************)
EXTENDS HttpDecoder, Integers, FiniteSets

CONSTANTS
    Messages,       \* what servers send: its bytes, the length of its body,
                    \* and whether only the end of the stream ends that
    HeadLength,     \* bytes of the formatted request head
    Content,        \* Content-Length of the request
    ReceiveRoom, SendRoom, OutputRoom,  \* the caller's Buffers
    SocketRoom,     \* request bytes between the two hosts
    Transports,     \* subset of {"plain", "tls"}
    MayFail         \* native calls, the clock and allocations may fail

\* open refuses an empty buffer.
ASSUME Sizes ==
    /\ HeadLength \in Nat /\ Content \in Nat
    /\ {ReceiveRoom, SendRoom, OutputRoom, SocketRoom} \subseteq Nat \ {0}

-----------------------------------------------------------------------------
(* What a server sends.                                                    *)

IsData(wire, i) == wire[i].what = "data"
DataIn(wire, k) == {i \in 1..k : IsData(wire, i)}

\* The last byte of the first head that is not an interim one.
IsFinal(wire, h) == wire[h].what \in Framings /\ wire[h].code >= 200
IsFirstFinal(wire, h) == IsFinal(wire, h) /\ \A g \in 1..(h - 1) : ~IsFinal(wire, g)

\* Which bytes behind the final head at h are data, and how many make the body.
Framed(m, h) ==
    LET end == Len(m.wire)
        head == m.wire[h]
    IN  /\ m.closing <=> head.what = "close"
        /\ head.what = "none" => m.body = 0
        /\ head.what = "fixed" =>
             m.body = head.n /\ \A i \in (h + 1)..end : i <= h + head.n => IsData(m.wire, i)
        /\ head.what = "close" => \A i \in (h + 1)..end : IsData(m.wire, i)
        /\ head.what = "chunked" => \A i \in (h + 1)..end :
             /\ m.wire[i].what = "size" =>
                  \A j \in 1..m.wire[i].n : i + j <= end => IsData(m.wire, i + j)
             /\ m.wire[i].what = "end" => m.body = Cardinality(DataIn(m.wire, i))

Marks == Framings \cup {"interim", "bad", "size", "data", "head", "line", "field", "end", "cr", "lf"}

\* A message may be cut, broken, too long or forbidden; but its bytes are called
\* what they are.  The data are numbered, and follow a final head that frames them.
ASSUME Answers ==
    \A m \in Messages :
        /\ m.wire \in Seq([what : Marks, code : Nat, n : Nat])
        /\ m.closing \in BOOLEAN /\ m.body \in Nat
        /\ \A i \in 1..Len(m.wire) :
             /\ m.wire[i].what = "interim" => m.wire[i].code < 200
             /\ IsData(m.wire, i) =>
                  /\ m.wire[i] = Datum(Cardinality(DataIn(m.wire, i)))
                  /\ \E h \in 1..(i - 1) : IsFinal(m.wire, h)
             /\ IsFirstFinal(m.wire, i) => Framed(m, i)

VARIABLES
    phase,              \* ExchangeState.phase
    socket, tls,        \* "open"; "none" or "active"; and "closed"
    decoder, receive, receiveOffset, eof, headReady, complete, body, bodyOffset, readWait,
    supplied, headOffset, send, sendOffset, writeWait,
    transport, reached, \* plain or with TLS; the connection is established
    message, arrived, taken, ended, \* what is on its way to the client
    uploaded, accepted, \* request bytes the transport took, and the server
    calls, pending,     \* native calls of the last step; the write that must come again
    late,               \* the deadline has passed
    delivered,          \* body bytes the application has consumed
    last                \* what step returned last

connVars == <<phase, socket, tls>>
downVars == <<decoder, receive, receiveOffset, eof, headReady, complete, body, bodyOffset>>
upVars   == <<supplied, headOffset, send, sendOffset>>
waitVars == <<readWait, writeWait>>
wireVars == <<transport, reached, message, arrived, ended, accepted>>
ioVars   == <<taken, uploaded, pending>>
vars == <<connVars, downVars, upVars, waitVars, wireVars, ioVars, calls, late, delivered, last>>

NONE == 0
READABLE == 1
WRITABLE == 2
Terminal == {"done", "failed", "cancelled"}
Nothing == [bytes |-> <<>>, wait |-> NONE]
Reading == [op |-> "read", bytes |-> <<>>]
Writing(bytes) == [op |-> "write", bytes |-> bytes]

Init ==
    /\ phase = "connect" /\ socket = "open" /\ tls = "none"
    /\ decoder = create /\ receive = <<>> /\ receiveOffset = 0 /\ eof = FALSE
    /\ headReady = FALSE /\ complete = FALSE /\ body = <<>> /\ bodyOffset = 0
    /\ supplied = 0 /\ headOffset = 0 /\ send = <<>> /\ sendOffset = 0
    /\ readWait = NONE /\ writeWait = NONE
    /\ transport \in Transports /\ reached = FALSE /\ message \in Messages
    /\ arrived = 0 /\ taken = 0 /\ ended = FALSE
    /\ uploaded = <<>> /\ accepted = 0
    /\ calls = <<>> /\ pending = Nothing
    /\ late = FALSE /\ delivered = <<>>
    /\ last = [state |-> "PROGRESS", wait |-> NONE]

-----------------------------------------------------------------------------
(* The transport.                                                          *)

Smaller(a, b) == IF a < b THEN a ELSE b

\* recv or SSL_read: bytes in order, the end of the stream, or a wait.
Reads ==
    LET there == arrived - taken IN
    {[n |-> n, end |-> FALSE, wait |-> NONE] : n \in 1..Smaller(there, ReceiveRoom)}
      \cup (IF there = 0 /\ ended THEN {[n |-> 0, end |-> TRUE, wait |-> NONE]} ELSE {})
      \cup (IF transport = "tls" THEN {[n |-> 0, end |-> FALSE, wait |-> w] : w \in {READABLE, WRITABLE}}
            ELSE IF there = 0 /\ ~ended THEN {[n |-> 0, end |-> FALSE, wait |-> READABLE]} ELSE {})

\* send or SSL_write of n bytes.
Writes(n) ==
    LET room == SocketRoom - (Len(uploaded) - accepted) IN
    {[n |-> k, wait |-> NONE] : k \in 1..Smaller(n, room)}
      \cup (IF transport = "tls" THEN {[n |-> 0, wait |-> w] : w \in {READABLE, WRITABLE}}
            ELSE IF room = 0 THEN {[n |-> 0, wait |-> WRITABLE]} ELSE {})

\* Transport.close: the TLS session, then the socket, whatever fails.
Close ==
    /\ socket' = "closed"
    /\ tls' = IF tls = "active" THEN "closed" ELSE tls

-----------------------------------------------------------------------------
(* What step returns.                                                      *)

event(state, wait) == last' = [state |-> state, wait |-> wait]

\* Mutant: the socket is left to the caller.
Fail_Open ==
    /\ phase' = "failed" /\ UNCHANGED <<socket, tls>>
    /\ event("ERROR", NONE)

\* Any error of advance closes the transport and stays.
Fail ==
    /\ phase' = "failed" /\ Close
    /\ event("ERROR", NONE)

Go(state, wait) == event(state, wait) /\ UNCHANGED connVars

matches(wanted, ready) == wanted = NONE \/ ready = 3 \/ wanted = ready

\* Mutant: only the write is waited for.
combine_Write(a, b) == IF b = NONE THEN a ELSE b

combine(a, b) ==
    IF a = NONE THEN b ELSE IF b = NONE \/ a = b THEN a ELSE 3

-----------------------------------------------------------------------------
(* Before the exchange.                                                    *)

Quiet == calls' = <<>> /\ UNCHANGED <<downVars, upVars, waitVars, ioVars>>

Connect ==
    /\ phase = "connect" /\ Quiet
    /\ \/ reached /\ phase' = "tls_setup" /\ event("PROGRESS", NONE) /\ UNCHANGED <<socket, tls>>
       \/ ~reached /\ phase' = "connecting" /\ event("WAIT", WRITABLE) /\ UNCHANGED <<socket, tls>>
       \/ MayFail /\ Fail

FinishConnect(ready) ==
    /\ phase = "connecting" /\ Quiet
    /\ \/ matches(WRITABLE, ready) /\ reached /\ phase' = "tls_setup"
          /\ event("PROGRESS", NONE) /\ UNCHANGED <<socket, tls>>
       \/ ~(matches(WRITABLE, ready) /\ reached) /\ Go("WAIT", WRITABLE)
       \/ matches(WRITABLE, ready) /\ MayFail /\ Fail

\* start_tls_client, and the metadata of the session; without room for it the
\* new session is closed before the error is returned.
TlsSetup ==
    /\ phase = "tls_setup" /\ Quiet
    /\ \/ /\ transport = "plain"
          /\ phase' = "exchange" /\ event("PROGRESS", NONE) /\ UNCHANGED <<socket, tls>>
       \/ /\ transport = "tls"
          /\ \/ phase' = "handshake" /\ tls' = "active" /\ event("PROGRESS", NONE) /\ UNCHANGED socket
             \/ MayFail /\ Fail
             \/ MayFail /\ phase' = "failed" /\ socket' = "closed" /\ tls' = "closed" /\ event("ERROR", NONE)

Handshake(ready) ==
    /\ phase = "handshake"
    /\ calls' = <<>> /\ UNCHANGED <<downVars, upVars, writeWait, ioVars>>
    /\ IF ~matches(readWait, ready) THEN Go("WAIT", readWait) /\ UNCHANGED readWait
       ELSE \/ /\ phase' = "exchange" /\ readWait' = NONE
               /\ event("PROGRESS", NONE) /\ UNCHANGED <<socket, tls>>
            \/ \E w \in {READABLE, WRITABLE} : readWait' = w /\ Go("WAIT", w)
            \/ MayFail /\ Fail /\ UNCHANGED readWait

-----------------------------------------------------------------------------
(* The exchange.                                                           *)

\* Mutant: the rest of a piece is dropped when the output is full.
Rest_Dropped(offset, bytes, fed) == IF fed.out = <<>> THEN offset + fed.consumed ELSE Len(bytes)

Rest(offset, bytes, fed) == offset + fed.consumed

\* decode, and what step returns after it.
decode(bytes, offset, end) ==
    LET fed == feed(decoder, SubSeq(bytes, offset + 1, Len(bytes)), end, OutputRoom) IN
    /\ decoder' = fed.decoder /\ receive' = bytes /\ eof' = end
    /\ IF fed.decoder.state = "failed" THEN
          Fail /\ receiveOffset' = offset /\ UNCHANGED <<headReady, complete, body, bodyOffset>>
       ELSE
          /\ receiveOffset' = Rest(offset, bytes, fed)
          /\ body' = fed.out /\ bodyOffset' = 0
          /\ headReady' = fed.head_ready /\ complete' = fed.complete
          /\ Go(IF fed.out # <<>> THEN "HAVE_OUTPUT" ELSE "PROGRESS", NONE)

\* write_once in a step that has made the native calls in did, and whose read
\* waits for rw.
write_once(bytes, offset, rw, did) ==
    LET offered == SubSeq(bytes, offset + 1, Len(bytes)) IN
    /\ calls' = Append(did, Writing(offered))
    /\ \E w \in Writes(Len(offered)) :
         LET done == offset + w.n = Len(bytes) IN
         /\ writeWait' = w.wait
         /\ send' = IF done THEN <<>> ELSE bytes
         /\ sendOffset' = IF done THEN 0 ELSE offset + w.n
         /\ readWait' = IF w.n > 0 THEN NONE ELSE rw
         /\ uploaded' = uploaded \o SubSeq(offered, 1, w.n)
         /\ pending' = IF w.n > 0 \/ transport = "plain" THEN Nothing
                       ELSE [bytes |-> offered, wait |-> w.wait]

\* write_once when the native call fails.
WriteFails(bytes, offset, rw, did) ==
    /\ MayFail /\ Fail
    /\ calls' = Append(did, Writing(SubSeq(bytes, offset + 1, Len(bytes))))
    /\ send' = bytes /\ sendOffset' = offset /\ readWait' = rw
    /\ UNCHANGED <<writeWait, uploaded, pending>>

\* The step returns without a write.
NoWrite(rw, did) ==
    /\ calls' = did /\ readWait' = rw
    /\ UNCHANGED <<upVars, writeWait, uploaded, pending>>

DecodeRest ==
    /\ receiveOffset < Len(receive) \/ eof
    /\ decode(receive, receiveOffset, eof)
    /\ NoWrite(readWait, <<>>) /\ UNCHANGED taken

\* Mutant: a write that waits to read is treated like one that waits to write.
Resumes_Never == FALSE

\* SSL_write wants to read: it goes on before any other operation.
Resumes == ~headReady /\ writeWait = READABLE

ResumeWrite(ready) ==
    /\ UNCHANGED <<downVars, taken, supplied, headOffset>>
    /\ IF ~matches(writeWait, ready)
       THEN /\ Go("WAIT", writeWait) /\ calls' = <<>>
            /\ UNCHANGED <<waitVars, send, sendOffset, uploaded, pending>>
       ELSE \/ /\ write_once(send, sendOffset, readWait, <<>>)
               /\ IF writeWait' = READABLE THEN Go("WAIT", READABLE) ELSE Go("PROGRESS", NONE)
            \/ WriteFails(send, sendOffset, readWait, <<>>)

\* How much of the request head is staged now.
Staged == IF send = <<>> THEN Smaller(HeadLength - headOffset, SendRoom) ELSE 0

\* Mutant: an early response does not stop the upload.
Uploads_Always == TRUE

Uploads == ~headReady

\* The rest of a step that has no bytes of the response to decode.
Upload(rw, did, ready) ==
    LET bytes == IF Staged > 0 THEN [i \in 1..Staged |-> headOffset + i] ELSE send IN
    IF Uploads /\ bytes # <<>> THEN
        /\ headOffset' = headOffset + Staged /\ UNCHANGED supplied
        /\ IF matches(writeWait, ready)
           THEN \/ /\ write_once(bytes, sendOffset, rw, did)
                   /\ IF writeWait' = NONE THEN Go("PROGRESS", NONE)
                      ELSE Go("WAIT", combine(readWait', writeWait'))
                \/ WriteFails(bytes, sendOffset, rw, did)
           ELSE /\ send' = bytes /\ readWait' = rw /\ calls' = did
                /\ Go("WAIT", combine(rw, writeWait))
                /\ UNCHANGED <<sendOffset, writeWait, uploaded, pending>>
    ELSE
        /\ NoWrite(rw, did)
        /\ Go(IF Uploads /\ supplied < Content THEN "NEED_INPUT" ELSE "WAIT", rw)

\* A read that waits to write comes before writes of the application.
AfterRead(rw, did, ready) ==
    IF rw = WRITABLE THEN NoWrite(rw, did) /\ Go("WAIT", WRITABLE)
    ELSE Upload(rw, did, ready)

Read(ready) ==
    \/ \E r \in Reads :
         /\ taken' = taken + r.n
         /\ IF r.n > 0 \/ r.end THEN
               /\ decode(SubSeq(message.wire, taken + 1, taken + r.n), 0, r.end)
               /\ NoWrite(r.wait, <<Reading>>)
            ELSE
               /\ receive' = <<>> /\ receiveOffset' = 0 /\ eof' = FALSE
               /\ UNCHANGED <<decoder, headReady, complete, body, bodyOffset>>
               /\ AfterRead(r.wait, <<Reading>>, ready)
    \/ /\ MayFail /\ Fail
       /\ NoWrite(readWait, <<Reading>>) /\ UNCHANGED <<downVars, taken>>

Exchanging(ready) ==
    /\ phase = "exchange"
    /\ IF receiveOffset < Len(receive) \/ eof THEN DecodeRest
       ELSE IF Resumes THEN ResumeWrite(ready)
       ELSE IF matches(readWait, ready) THEN Read(ready)
       ELSE AfterRead(readWait, <<>>, ready) /\ UNCHANGED <<downVars, taken>>

-----------------------------------------------------------------------------
(* Calls of the application.                                               *)

\* The response is complete and its body consumed.
Finish ==
    \/ phase' = "done" /\ Close /\ event("COMPLETE", NONE)
    \/ MayFail /\ Fail

Unread == bodyOffset < Len(body)

advance(ready) ==
    IF ready \notin 0..3 \/ late THEN Quiet /\ Fail
    ELSE IF Unread THEN Quiet /\ Go("HAVE_OUTPUT", NONE)
    ELSE IF complete THEN Quiet /\ Finish
    ELSE \/ Connect \/ FinishConnect(ready) \/ TlsSetup \/ Handshake(ready)
         \/ Exchanging(ready)
         \/ MayFail /\ Quiet /\ Fail        \* the clock

\* An exchange that is over says so again; a cancelled one then has failed.
Over ==
    /\ Quiet
    /\ phase' = IF phase = "cancelled" THEN "failed" ELSE phase
    /\ event(IF phase = "done" THEN "COMPLETE" ELSE "ERROR", NONE)
    /\ UNCHANGED <<socket, tls>>

step(ready) ==
    /\ IF phase \in Terminal THEN Over ELSE advance(ready)
    /\ UNCHANGED <<wireVars, late, delivered>>

Accepts == phase = "exchange" /\ ~headReady /\ send = <<>> /\ headOffset = HeadLength

\* Up to n bytes are staged; calls that are refused change nothing.
supply(n) ==
    /\ Accepts /\ n \in 1..(Content - supplied)
    /\ LET count == Smaller(n, SendRoom) IN
       /\ send' = [i \in 1..count |-> HeadLength + supplied + i]
       /\ supplied' = supplied + count
    /\ calls' = <<>>
    /\ UNCHANGED <<connVars, downVars, headOffset, sendOffset, waitVars, wireVars, ioVars,
                   late, delivered, last>>

consume_output(n) ==
    /\ phase = "exchange" /\ n \in 1..(Len(body) - bodyOffset)
    /\ bodyOffset' = bodyOffset + n
    /\ delivered' = delivered \o SubSeq(body, bodyOffset + 1, bodyOffset + n)
    /\ calls' = <<>>
    /\ UNCHANGED <<connVars, decoder, receive, receiveOffset, eof, headReady, complete, body,
                   upVars, waitVars, wireVars, ioVars, late, last>>

cancel ==
    /\ phase \notin Terminal
    /\ phase' = "cancelled" /\ Close
    /\ body' = <<>> /\ bodyOffset' = 0
    /\ calls' = <<>>
    /\ UNCHANGED <<decoder, receive, receiveOffset, eof, headReady, complete, upVars, waitVars,
                   wireVars, ioVars, late, delivered, last>>

\* Only an upload that is too short is cancelled.
finish_input == supplied # Content /\ ~headReady /\ cancel

-----------------------------------------------------------------------------
(* The other end, the network and the clock.                               *)

\* Bytes of the request are taken in, whether they will be answered or not.
Accept ==
    /\ accepted < Len(uploaded) /\ accepted' = accepted + 1
    /\ calls' = <<>>
    /\ UNCHANGED <<connVars, downVars, upVars, waitVars, transport, reached, message, arrived, ended,
                   ioVars, late, delivered, last>>

\* The connection is established, perhaps before the first step asks for it.
Establish ==
    /\ ~reached /\ phase \in {"connect", "connecting"} /\ reached' = TRUE
    /\ calls' = <<>>
    /\ UNCHANGED <<connVars, downVars, upVars, waitVars, transport, message, arrived, ended,
                   accepted, ioVars, late, delivered, last>>

\* The server may answer before it has read the request.
Answer ==
    /\ phase = "exchange"
    /\ ~ended /\ arrived < Len(message.wire) /\ arrived' = arrived + 1
    /\ calls' = <<>>
    /\ UNCHANGED <<connVars, downVars, upVars, waitVars, transport, reached, message, ended, accepted,
                   ioVars, late, delivered, last>>

\* The stream ends, a broken server's before all of the answer.
End ==
    /\ phase = "exchange"
    /\ MayFail \/ arrived = Len(message.wire)
    /\ ~ended /\ ended' = TRUE
    /\ calls' = <<>>
    /\ UNCHANGED <<connVars, downVars, upVars, waitVars, transport, reached, message, arrived, accepted,
                   ioVars, late, delivered, last>>

Expire ==
    /\ ~late /\ late' = TRUE
    /\ calls' = <<>>
    /\ UNCHANGED <<connVars, downVars, upVars, waitVars, wireVars, ioVars, delivered, last>>

Server == Establish \/ Accept \/ Answer \/ End

\* Any call at any time.
Application ==
    \/ \E ready \in 0..4 : step(ready)
    \/ \E n \in 1..Content : supply(n)
    \/ \E n \in 1..OutputRoom : consume_output(n)
    \/ cancel \/ finish_input

Next == Application \/ Server \/ Expire

Spec == Init /\ [][Next]_vars

-----------------------------------------------------------------------------
(* Properties.                                                             *)

\* What the application has been handed is the body so far, in order, and an
\* exchange is only complete with all of it: in whatever pieces it came, and
\* whatever the limits are, a cut or broken response is never complete, unless
\* the end of the stream is the end of its body.
BodyExact ==
    /\ \A i \in DOMAIN delivered : delivered[i] = Datum(i)
    /\ Len(delivered) <= BodyLimit
    /\ phase = "done" =>
          IF message.closing
          THEN ended /\ Len(delivered) = Cardinality(DataIn(message.wire, arrived))
          ELSE Len(delivered) = message.body

\* The transport takes the bytes of the request in order, none twice and none
\* left out, over any sequence of short writes, waits and supplies; and none
\* any more once the final head of the response has been seen.
UploadInOrder ==
    [][uploaded' # uploaded =>
          /\ ~headReady
          /\ uploaded' = [i \in 1..Len(uploaded') |-> i]
          /\ Len(uploaded') <= headOffset' + supplied]_vars

\* A write that OpenSSL wants to see again comes again with the same bytes, and
\* if it waits to read, before any other operation on the session.
RetriesSameWrite ==
    [][pending # Nothing /\ calls' # <<>> =>
          /\ \A i \in DOMAIN calls' :
               calls'[i].op = "write" => calls'[i] = Writing(pending.bytes)
          /\ pending.wait = READABLE => calls'[1].op = "write"]_vars

\* An exchange that is over, by whichever way, holds no socket and no session,
\* and stays over.
Released ==
    [][phase' \in Terminal =>
          /\ socket' = "closed" /\ tls' # "active"
          /\ phase = "done" => phase' = "done"]_vars

=============================================================================
