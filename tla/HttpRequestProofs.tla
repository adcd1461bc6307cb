-------------------------- MODULE HttpRequestProofs --------------------------
(***************************************************************************)
(* Proofs about HttpExchange and HttpRequest, for any sizes of the head,   *)
(* the content, the buffers and the sockets, any responses, and any        *)
(* application, the wrapper among them.                                     *)
(*                                                                         *)
(* UploadInv says which bytes are staged: those that follow what the       *)
(* transport has taken, up to what is formatted and supplied.  PendingInv  *)
(* says that a write which must come again is still staged whole, and, if  *)
(* it waits to read, that no received byte keeps the next step from it.    *)
(* BodyInv says that the decoder is in step with the response: it has taken *)
(* the bytes up to Position, counted the data among them, and takes the    *)
(* next byte for what the framing of the response says it is.              *)
(***************************************************************************)
EXTENDS HttpRequest, SequenceTheorems, FiniteSetTheorems, WellFoundedInduction, TLAPS

\* The first bytes of the request.
InOrder(bytes) ==
    /\ bytes \in Seq(Nat)
    /\ \A i \in 1..Len(bytes) : bytes[i] = i

\* After the bytes taken, those from offset on come next, and the last of them
\* is the number total.
Follows(took, bytes, offset, total) ==
    /\ bytes \in Seq(Nat) /\ offset \in Nat
    /\ (bytes = <<>> /\ offset = 0) \/ offset < Len(bytes)
    /\ Len(took) + Len(bytes) - offset = total
    /\ \A j \in 1..Len(bytes) : bytes[j] = Len(took) - offset + j

\* The content is staged after the whole head.
Supplied ==
    /\ headOffset \in 0..HeadLength /\ supplied \in 0..Content
    /\ supplied > 0 => headOffset = HeadLength

UploadInv ==
    /\ InOrder(uploaded) /\ accepted \in Nat
    /\ Supplied /\ Follows(uploaded, send, sendOffset, headOffset + supplied)

\* A write that waits is staged; one that must come again is the rest of what
\* is staged.
Waits(bytes, offset, wait, again) ==
    /\ wait # NONE => bytes # <<>>
    /\ again # Nothing =>
          /\ bytes # <<>> /\ again.bytes = SubSeq(bytes, offset + 1, Len(bytes))
          /\ again.wait = wait /\ wait \in {READABLE, WRITABLE}

PendingInv ==
    /\ Waits(send, sendOffset, writeWait, pending)
    /\ pending # Nothing /\ writeWait = READABLE =>
          ~headReady /\ ~(receiveOffset < Len(receive) \/ eof)

ClosedInv == phase \in Terminal => socket = "closed" /\ tls # "active"

ExchangeInv == UploadInv /\ PendingInv /\ ClosedInv

Bytes == [what : Marks, code : Nat, n : Nat]

States == {"head", "fixed", "close", "size", "data", "data_cr", "data_lf", "trailers", "done"}

Decoders ==
    [state : States \cup {"failed"}, remaining : Nat, body : Nat, metadata : Nat,
     head : Nat, line : Nat, code : Nat]

\* What a decoder that has taken the first k bytes makes of those behind the
\* final head at h.
Behind(m, d, k, h) ==
    /\ m.wire[h].what = "none" => d.state = "done"
    /\ m.wire[h].what = "close" => d.state \in {"close", "done"}
    /\ m.wire[h].what = "fixed" =>
         /\ d.state \in {"fixed", "done"}
         /\ d.state = "fixed" => d.remaining > 0 /\ k = h + d.body /\ d.body + d.remaining = m.wire[h].n
    /\ m.wire[h].what = "chunked" =>
         /\ d.state \in {"size", "data", "data_cr", "data_lf", "trailers", "done"}
         /\ d.state = "data" =>
              d.remaining > 0 /\ \A j \in 1..d.remaining : k + j <= Len(m.wire) => IsData(m.wire, k + j)

\* A decoder that has taken the first k bytes, and has not failed.
InStep(m, d, k) ==
    /\ d \in Decoders /\ d.state # "failed" /\ k \in 0..Len(m.wire)
    /\ d.body = Cardinality(DataIn(m.wire, k)) /\ d.body <= BodyLimit
    /\ d.state = "head" => \A g \in 1..k : ~IsFinal(m.wire, g)
    /\ d.state # "head" => \E h \in 1..k : IsFirstFinal(m.wire, h) /\ Behind(m, d, k, h)
    /\ d.state = "done" => m.closing \/ d.body = m.body

\* The data from the (n+1)-th on.
DataFrom(out, n) ==
    /\ out \in Seq(Bytes)
    /\ \A j \in 1..Len(out) : out[j] = Datum(n + j)

\* The pieces of the response between the socket and the decoder.
ReceiveInv ==
    /\ message \in Messages
    /\ arrived \in 0..Len(message.wire) /\ taken \in 0..arrived
    /\ receive \in Seq(Bytes) /\ receiveOffset \in 0..Len(receive) /\ Len(receive) <= taken
    /\ \A j \in 1..Len(receive) : receive[j] = message.wire[taken - Len(receive) + j]
    /\ ended \in BOOLEAN /\ eof \in BOOLEAN /\ (eof => ended /\ taken = arrived)

\* The bytes of the response that the decoder has taken.
Position == taken - (Len(receive) - receiveOffset)

\* All that was sent has been taken.
AllTaken == ended /\ taken = arrived /\ Position = taken

DecodeInv ==
    phase \notin Terminal =>
        /\ InStep(message, decoder, Position)
        /\ complete <=> decoder.state = "done"
        /\ complete /\ message.closing => AllTaken
        /\ bodyOffset \in 0..Len(body)
        /\ Len(delivered) + Len(body) - bodyOffset = decoder.body
        /\ DataFrom(body, decoder.body - Len(body))

BodyInv ==
    /\ ReceiveInv /\ DecodeInv
    /\ DataFrom(delivered, 0) /\ Len(delivered) <= BodyLimit
    /\ phase = "done" =>
          IF message.closing
          THEN ended /\ Len(delivered) = Cardinality(DataIn(message.wire, arrived))
          ELSE Len(delivered) = message.body

\* What UploadInOrder, RetriesSameWrite and Released say of a step.
TakesInOrder ==
    uploaded' # uploaded =>
        /\ ~headReady
        /\ uploaded' = [i \in 1..Len(uploaded') |-> i]
        /\ Len(uploaded') <= headOffset' + supplied

Retries ==
    pending # Nothing /\ calls' # <<>> =>
        /\ \A i \in DOMAIN calls' : calls'[i].op = "write" => calls'[i] = Writing(pending.bytes)
        /\ pending.wait = READABLE => calls'[1].op = "write"

Releases ==
    phase' \in Terminal =>
        /\ socket' = "closed" /\ tls' # "active"
        /\ phase = "done" => phase' = "done"

\* The calls of a step that has made those in did and then writes bytes.
Calls(did, bytes, offset) ==
    calls' = did \/ calls' = Append(did, Writing(SubSeq(bytes, offset + 1, Len(bytes))))

-----------------------------------------------------------------------------
(* One write.                                                              *)

\* Smaller is the least of two.
LEMMA SmallerIsLess ==
  ASSUME NEW a \in Int, NEW b \in Int
  PROVE  Smaller(a, b) \in {a, b} /\ Smaller(a, b) <= a /\ Smaller(a, b) <= b
  BY DEF Smaller

\* A native write takes at most what it is offered, and something or waits.
LEMMA WritesTake ==
  ASSUME uploaded \in Seq(Nat), accepted \in Nat, NEW n \in Nat, NEW w \in Writes(n)
  PROVE  /\ w.n \in 0..n
         /\ w.wait \in {NONE, READABLE, WRITABLE}
         /\ w.wait = NONE <=> w.n > 0
<1> DEFINE room == SocketRoom - (Len(uploaded) - accepted)
<1>1. room \in Int
  BY Sizes, LenProperties
<1>2. Smaller(n, room) \in Int /\ Smaller(n, room) <= n
  BY <1>1, SmallerIsLess
<1>3. \/ \E k \in 1..Smaller(n, room) : w = [n |-> k, wait |-> NONE]
      \/ \E x \in {READABLE, WRITABLE} : w = [n |-> 0, wait |-> x]
  BY DEF Writes
<1> QED
  BY <1>2, <1>3 DEF NONE, READABLE, WRITABLE

\* A successful write_once takes a first part of what is staged, in order, and
\* what remains staged follows it; a write that waits changes nothing, and one
\* that must come again is what is staged.
LEMMA WriteAdvances ==
  ASSUME InOrder(uploaded), accepted \in Nat,
         NEW bytes, NEW offset, NEW total \in Nat, Follows(uploaded, bytes, offset, total),
         bytes # <<>>, NEW rw, NEW did, write_once(bytes, offset, rw, did)
  PROVE  /\ InOrder(uploaded')
         /\ Follows(uploaded', send', sendOffset', total)
         /\ Waits(send', sendOffset', writeWait', pending')
<1> DEFINE offered == SubSeq(bytes, offset + 1, Len(bytes))
<1>1. /\ bytes \in Seq(Nat) /\ offset \in Nat /\ Len(bytes) \in Nat /\ offset < Len(bytes)
      /\ uploaded \in Seq(Nat) /\ Len(uploaded) \in Nat
  BY LenProperties DEF InOrder, Follows
<1>t. total = Len(uploaded) + Len(bytes) - offset
  BY DEF Follows
<1>b. \A j \in 1..Len(bytes) : bytes[j] = Len(uploaded) - offset + j
  BY DEF Follows
<1>o. \A i \in (offset + 1)..Len(bytes) : bytes[i] \in Nat
  BY <1>1, ElementOfSeq
<1>2. offered \in Seq(Nat) /\ Len(offered) = Len(bytes) - offset
  BY <1>1, <1>o, SubSeqProperties
<1>s. \A i \in 1..(Len(bytes) - offset) : offered[i] = bytes[offset + i]
  <2>1. \A i \in 1..Len(bytes) - (offset + 1) + 1 : offered[i] = bytes[(offset + 1) + i - 1]
    BY <1>1, <1>o, SubSeqProperties
  <2> QED
    BY <1>1, <2>1
<1> HIDE DEF offered
<1>3. PICK w \in Writes(Len(offered)) :
         /\ writeWait' = w.wait
         /\ send' = IF offset + w.n = Len(bytes) THEN <<>> ELSE bytes
         /\ sendOffset' = IF offset + w.n = Len(bytes) THEN 0 ELSE offset + w.n
         /\ uploaded' = uploaded \o SubSeq(offered, 1, w.n)
         /\ pending' = IF w.n > 0 \/ transport = "plain" THEN Nothing
                       ELSE [bytes |-> offered, wait |-> w.wait]
  BY DEF write_once, offered
<1>4. /\ w.n \in 0..Len(offered) /\ w.wait \in {NONE, READABLE, WRITABLE}
      /\ w.wait = NONE <=> w.n > 0
  BY <1>1, <1>2, WritesTake
<1> DEFINE n == w.n
           part == SubSeq(offered, 1, n)
<1>n. n \in Nat /\ n <= Len(bytes) - offset
  BY <1>1, <1>2, <1>4
<1>5. /\ part \in Seq(Nat) /\ Len(part) = n
      /\ \A i \in 1..n : part[i] = offered[i]
  <2>1. \A i \in 1..Len(offered) : offered[i] \in Nat
    BY <1>2, ElementOfSeq
  <2>2. n <= Len(offered)
    BY <1>2, <1>n
  <2>3. \A i \in 1..n : offered[i] \in Nat
    BY <1>1, <1>2, <1>n, <2>1, <2>2, SMTT(30)
  <2> QED
    BY <1>n, <2>3, SubSeqProperties
<1>u. /\ uploaded' = uploaded \o part
      /\ send' = IF offset + n = Len(bytes) THEN <<>> ELSE bytes
      /\ sendOffset' = IF offset + n = Len(bytes) THEN 0 ELSE offset + n
  BY <1>3
<1> HIDE DEF part, n
<1>l. Len(uploaded') = Len(uploaded) + n
  BY <1>1, <1>u, <1>5, ConcatProperties
<1>6. uploaded' \in Seq(Nat)
  BY <1>1, <1>u, <1>5, ConcatProperties
<1>e. \A i \in 1..(Len(uploaded) + n) :
         uploaded'[i] = IF i <= Len(uploaded) THEN uploaded[i] ELSE part[i - Len(uploaded)]
  BY <1>1, <1>u, <1>5, ConcatProperties
<1>7. InOrder(uploaded')
  <2> SUFFICES ASSUME NEW i \in 1..(Len(uploaded) + n) PROVE uploaded'[i] = i
    BY <1>6, <1>l DEF InOrder
  <2>1. CASE i <= Len(uploaded)
    <3>1. i \in 1..Len(uploaded)
      BY <1>1, <1>n, <2>1
    <3> QED
      BY <1>e, <2>1, <3>1 DEF InOrder
  <2>2. CASE ~(i <= Len(uploaded))
    <3>1. i - Len(uploaded) \in 1..n
      BY <1>1, <1>n, <2>2
    <3> DEFINE k == i - Len(uploaded)
    <3>2. uploaded'[i] = part[k] /\ part[k] = offered[k]
      BY <1>5, <1>e, <2>2, <3>1
    <3>3. offset + k \in 1..Len(bytes)
      BY <1>1, <1>n, <3>1
    <3>5. offered[k] = bytes[offset + k]
      BY <1>1, <1>n, <1>s, <3>1
    <3>4. bytes[offset + k] = Len(uploaded) - offset + (offset + k)
      BY <1>b, <3>3
    <3> QED
      BY <1>1, <3>1, <3>2, <3>5, <3>4
  <2> QED
    BY <2>1, <2>2
<1>8. Follows(uploaded', send', sendOffset', total)
  <2>1. CASE offset + n = Len(bytes)
    <3>1. send' = <<>> /\ sendOffset' = 0
      BY <1>u, <2>1
    <3>2. <<>> \in Seq(Nat) /\ Len(<<>>) = 0
      OBVIOUS
    <3>3. Len(uploaded') = total /\ Len(uploaded') \in Nat
            <4>1. Len(bytes) - offset = n
        BY <1>1, <1>n, <2>1
      <4>2. total = Len(uploaded) + n
        BY <1>1, <1>n, <1>t, <4>1
      <4> QED
        BY <1>1, <1>n, <1>l, <4>2
    <3> QED
      BY <3>1, <3>2, <3>3 DEF Follows
  <2>2. CASE offset + n # Len(bytes)
    <3>1. send' = bytes /\ sendOffset' = offset + n /\ offset + n < Len(bytes)
      BY <1>1, <1>n, <1>u, <2>2
    <3>2. Len(uploaded') + Len(bytes) - (offset + n) = total
      BY <1>1, <1>n, <1>t, <1>l
    <3>3. \A j \in 1..Len(bytes) : bytes[j] = Len(uploaded') - (offset + n) + j
      BY <1>1, <1>b, <1>n, <1>l
    <3> QED
      BY <1>1, <1>n, <3>1, <3>2, <3>3 DEF Follows
  <2> QED
    BY <2>1, <2>2
<1>9. Waits(send', sendOffset', writeWait', pending')
  <2>1. CASE w.n > 0
    BY <1>3, <1>4, <2>1 DEF Waits
  <2>2. CASE ~(w.n > 0)
    <3>1. w.n = 0 /\ offset + w.n = offset /\ offset # Len(bytes)
      BY <1>1, <1>2, <1>4, <2>2, SMTT(30)
    <3>2. send' = bytes /\ sendOffset' = offset
      BY <1>3, <3>1
    <3>3. pending' = Nothing \/ pending' = [bytes |-> offered, wait |-> w.wait]
      BY <1>3
    <3> QED
      BY <1>3, <1>4, <2>2, <3>2, <3>3 DEF Waits, NONE, READABLE, WRITABLE, offered
  <2> QED
    BY <2>1, <2>2
<1> QED
  BY <1>7, <1>8, <1>9

\* Two calls of one step.
LEMMA AppendToOne ==
  ASSUME NEW a, NEW b
  PROVE  Append(<<a>>, b) = <<a, b>>
<1> DEFINE S == {a, b}
<1>1. <<a>> \in Seq(S) /\ <<a, b>> \in Seq(S) /\ b \in S
  OBVIOUS
<1>2. /\ Append(<<a>>, b) \in Seq(S) /\ Len(Append(<<a>>, b)) = 2
      /\ Append(<<a>>, b)[1] = a /\ Append(<<a>>, b)[2] = b
  BY <1>1, AppendProperties
<1>3. \A i \in 1..Len(<<a, b>>) : <<a, b>>[i] = Append(<<a>>, b)[i]
  BY <1>2
<1> HIDE DEF S
<1>4. Len(<<a, b>>) = 2
  OBVIOUS
<1> QED
  BY <1>1, <1>2, <1>3, <1>4, SeqEqual

\* The calls of a step that begins with a read or not, and goes on with a write
\* of what is staged: the write that must come again is that write.
LEMMA CallsRetry ==
  ASSUME PendingInv, NEW did \in {<<>>, <<Reading>>}, NEW bytes, NEW offset,
         pending # Nothing => bytes = send /\ offset = sendOffset,
         pending # Nothing /\ writeWait = READABLE => did = <<>>,
         calls' \in {did, Append(did, Writing(SubSeq(bytes, offset + 1, Len(bytes))))}
  PROVE  Retries
<1> SUFFICES ASSUME pending # Nothing, calls' # <<>>
             PROVE  /\ \A i \in DOMAIN calls' : calls'[i].op = "write" => calls'[i] = Writing(pending.bytes)
                    /\ pending.wait = READABLE => calls'[1].op = "write"
  BY DEF Retries
<1> DEFINE W == Writing(SubSeq(bytes, offset + 1, Len(bytes)))
<1>1. W = Writing(pending.bytes) /\ W.op = "write" /\ pending.wait = writeWait
  BY DEF PendingInv, Waits, Writing
<1>2. Reading.op # "write"
  BY DEF Reading
<1> HIDE DEF W
<1>3. CASE calls' = <<Reading>> /\ did = <<Reading>>
  <2>1. DOMAIN calls' = {1} /\ calls'[1] = Reading
    BY <1>3
  <2> QED
    BY <1>1, <1>2, <1>3, <2>1
<1>4. CASE calls' = <<W>> 
  <2>1. DOMAIN calls' = {1} /\ calls'[1] = W
    BY <1>4
  <2> QED
    BY <1>1, <2>1
<1>5. CASE calls' = <<Reading, W>> /\ did = <<Reading>>
  <2>1. DOMAIN calls' = {1, 2} /\ calls'[1] = Reading /\ calls'[2] = W
    BY <1>5
  <2> QED
    BY <1>1, <1>2, <1>5, <2>1
<1>6. Append(<<>>, W) = <<W>>
  OBVIOUS
<1>7. Append(<<Reading>>, W) = <<Reading, W>>
  BY AppendToOne
<1> QED
  BY <1>3, <1>4, <1>5, <1>6, <1>7 DEF W

\* Only what is formatted or supplied was taken.
LEMMA FollowsBounds ==
  ASSUME NEW took \in Seq(Nat), NEW bytes, NEW offset, NEW total,
         Follows(took, bytes, offset, total)
  PROVE  Len(took) <= total
<1>1. bytes \in Seq(Nat) /\ offset \in Nat
  BY DEF Follows
<1>2. Len(took) \in Nat /\ Len(bytes) \in Nat
  BY <1>1, LenProperties
<1>3. offset <= Len(bytes)
  BY <1>1, <1>2 DEF Follows
<1>4. total = Len(took) + Len(bytes) - offset
  BY DEF Follows
<1> QED
  BY <1>1, <1>2, <1>3, <1>4

\* The bytes that come next, in order, once they are uploaded.
LEMMA TakesWhatFollows ==
  ASSUME UploadInv', supplied' = supplied, uploaded' # uploaded => ~headReady
  PROVE  TakesInOrder
<1>1. /\ uploaded' \in Seq(Nat) /\ Len(uploaded') \in Nat
      /\ \A i \in 1..Len(uploaded') : uploaded'[i] = i
  BY LenProperties DEF UploadInv, InOrder
<1>2. uploaded' = [i \in 1..Len(uploaded') |-> i]
  BY <1>1
<1>3. Len(uploaded') <= headOffset' + supplied'
  BY FollowsBounds DEF UploadInv, InOrder
<1> QED
  BY <1>2, <1>3 DEF TakesInOrder

-----------------------------------------------------------------------------
(* The steps.                                                              *)

\* A call that does not touch what is staged, or a step of the other end.
Idle ==
    /\ calls' = <<>> /\ accepted' \in Nat
    /\ UNCHANGED <<receive, receiveOffset, eof, headReady, upVars, writeWait, uploaded, pending>>

LEMMA IdleKeeps ==
  ASSUME UploadInv, PendingInv, Idle
  PROVE  UploadInv' /\ PendingInv' /\ TakesInOrder /\ Retries
<1>1. UploadInv'
  BY DEF UploadInv, Idle, Supplied, upVars
<1>2. PendingInv'
  BY DEF PendingInv, Idle, upVars
<1>3. TakesInOrder /\ Retries
  BY DEF TakesInOrder, Retries, Idle
<1> QED
  BY <1>1, <1>2, <1>3

\* What a step that writes keeps, when it has received nothing to decode.
Unreceived ==
    /\ headReady' = headReady /\ accepted' = accepted /\ accepted \in Nat
    /\ ~(receiveOffset' < Len(receive') \/ eof')

\* A write that must come again before a read.
LEMMA ResumeKeeps ==
  ASSUME UploadInv, PendingInv, accepted' = accepted, Resumes,
         ~(receiveOffset < Len(receive) \/ eof), NEW r, ResumeWrite(r)
  PROVE  UploadInv' /\ PendingInv' /\ TakesInOrder /\ Retries
<1>1. /\ UNCHANGED <<receive, receiveOffset, eof, headReady, supplied, headOffset>>
      /\ ~headReady /\ writeWait = READABLE
  BY DEF ResumeWrite, downVars, Resumes
<1>2. CASE ~matches(writeWait, r)
  <2>1. Idle
    BY <1>1, <1>2 DEF ResumeWrite, Idle, waitVars, upVars, UploadInv
  <2> QED
    BY <2>1, IdleKeeps
<1>3. CASE matches(writeWait, r) /\ write_once(send, sendOffset, readWait, <<>>)
  <2>1. send # <<>> /\ headOffset + supplied \in Nat
    BY <1>1, Sizes DEF PendingInv, Waits, UploadInv, Supplied, READABLE, NONE
  <2>2. /\ InOrder(uploaded')
        /\ Follows(uploaded', send', sendOffset', headOffset + supplied)
        /\ Waits(send', sendOffset', writeWait', pending')
    BY <1>3, <2>1, WriteAdvances DEF UploadInv
  <2>3. calls' = Append(<<>>, Writing(SubSeq(send, sendOffset + 1, Len(send))))
    BY <1>3 DEF write_once
  <2>4. UploadInv'
    BY <1>1, <2>2 DEF UploadInv, Supplied
  <2>5. PendingInv'
    BY <1>1, <2>2 DEF PendingInv
  <2>6. TakesInOrder
    BY <1>1, <2>4, TakesWhatFollows
  <2>7. Retries
    BY <2>3, CallsRetry
  <2> QED
    BY <2>4, <2>5, <2>6, <2>7
<1>4. CASE matches(writeWait, r) /\ WriteFails(send, sendOffset, readWait, <<>>)
  <2>1. /\ UNCHANGED <<send, sendOffset, writeWait, uploaded, pending>>
        /\ calls' = Append(<<>>, Writing(SubSeq(send, sendOffset + 1, Len(send))))
    BY <1>4 DEF WriteFails
  <2>2. UploadInv' /\ PendingInv'
    BY <1>1, <2>1 DEF UploadInv, Supplied, PendingInv
  <2>3. Retries
    BY <2>1, CallsRetry
  <2> QED
    BY <2>1, <2>2, <2>3 DEF TakesInOrder
<1> QED
  BY <1>2, <1>3, <1>4 DEF ResumeWrite

\* The next part of the head is staged when nothing else is, and before any of
\* the content.
LEMMA StagesHead ==
  ASSUME UploadInv, Staged > 0
  PROVE  /\ send = <<>> /\ sendOffset = 0 /\ supplied = 0
         /\ Staged \in Nat /\ headOffset + Staged \in 0..HeadLength
         /\ Follows(uploaded, [i \in 1..Staged |-> headOffset + i], 0, headOffset + Staged)
<1>1. send = <<>>
  BY DEF Staged
<1>2. /\ headOffset \in 0..HeadLength /\ supplied \in 0..Content
      /\ supplied > 0 => headOffset = HeadLength
  BY DEF UploadInv, Supplied
<1>3. HeadLength - headOffset \in Int /\ SendRoom \in Int
  BY <1>2, Sizes
<1>4. Staged = Smaller(HeadLength - headOffset, SendRoom)
  BY <1>1 DEF Staged
<1>5. Staged \in Int /\ Staged <= HeadLength - headOffset
  BY <1>3, <1>4, SmallerIsLess
<1>6. Staged \in Nat /\ headOffset + Staged \in 0..HeadLength /\ supplied = 0
  BY <1>2, <1>5, Sizes
<1>7. sendOffset = 0 /\ Len(send) = 0
  <2>1. Len(send) = 0
    BY <1>1
  <2> QED
    BY <2>1 DEF UploadInv, Follows
<1>8. Len(uploaded) = headOffset /\ Len(uploaded) \in Nat
  <2>1. Len(uploaded) \in Nat
    BY LenProperties DEF UploadInv, InOrder
  <2>2. Len(uploaded) + Len(send) - sendOffset = headOffset + supplied
    BY DEF UploadInv, Follows
  <2> QED
    BY <1>2, <1>6, <1>7, <2>1, <2>2
<1> DEFINE bytes == [i \in 1..Staged |-> headOffset + i]
<1>9. bytes \in Seq(Nat) /\ Len(bytes) = Staged
  BY <1>2, <1>6
<1>10. \A j \in 1..Staged : bytes[j] = Len(uploaded) - 0 + j
  BY <1>2, <1>6, <1>8
<1> HIDE DEF bytes
<1>11. Follows(uploaded, bytes, 0, headOffset + Staged)
  <2>1. 0 < Len(bytes)
    BY <1>9
  <2>2. Len(uploaded) + Len(bytes) - 0 = headOffset + Staged
    BY <1>6, <1>8, <1>9
  <2> QED
    BY <1>9, <1>10, <2>1, <2>2 DEF Follows
<1> QED
  BY <1>1, <1>6, <1>7, <1>11 DEF bytes

\* A step that stages, writes or waits to.
LEMMA UploadKeeps ==
  ASSUME UploadInv, PendingInv, Unreceived, ~Resumes,
         NEW rw, NEW did \in {<<>>, <<Reading>>}, NEW r, Upload(rw, did, r)
  PROVE  UploadInv' /\ PendingInv' /\ TakesInOrder /\ Retries
<1> DEFINE bytes == IF Staged > 0 THEN [i \in 1..Staged |-> headOffset + i] ELSE send
<1>1. ~(pending # Nothing /\ writeWait = READABLE)
  BY DEF PendingInv, Resumes
<1>2. CASE Uploads /\ bytes # <<>>
  <2>1. ~headReady /\ headOffset' = headOffset + Staged /\ supplied' = supplied
    BY <1>2 DEF Upload, Uploads
  <2>2. /\ headOffset' + supplied' \in Nat /\ Supplied'
        /\ Follows(uploaded, bytes, sendOffset, headOffset' + supplied')
        /\ pending # Nothing \/ writeWait # NONE => bytes = send
    <3>1. CASE Staged > 0
      <4>1. bytes = [i \in 1..Staged |-> headOffset + i]
        BY <3>1
      <4> HIDE DEF bytes
      <4>2. Supplied' /\ headOffset' + supplied' = headOffset + Staged /\ headOffset + Staged \in Nat
        BY <2>1, <3>1, StagesHead, Sizes DEF Supplied
      <4>3. pending = Nothing /\ writeWait = NONE
        BY <3>1, StagesHead DEF PendingInv, Waits
      <4> QED
        BY <3>1, <4>1, <4>2, <4>3, StagesHead
    <3>2. CASE ~(Staged > 0)
      <4>1. bytes = send
        BY <3>2
      <4> HIDE DEF bytes
      <4>2. send # <<>>
        BY <1>2, <4>1
      <4>3. Staged = 0
        BY <4>2 DEF Staged
      <4>4. headOffset' = headOffset /\ headOffset + supplied \in Nat
        BY <2>1, <4>3, Sizes DEF UploadInv, Supplied
      <4> QED
        BY <2>1, <4>1, <4>4 DEF UploadInv, Supplied
    <3> QED
      BY <3>1, <3>2
  <2> HIDE DEF bytes
  <2>3. CASE matches(writeWait, r) /\ write_once(bytes, sendOffset, rw, did)
    <3>1. /\ InOrder(uploaded')
          /\ Follows(uploaded', send', sendOffset', headOffset' + supplied')
          /\ Waits(send', sendOffset', writeWait', pending')
      BY <1>2, <2>2, <2>3, WriteAdvances DEF UploadInv
    <3>2. UploadInv'
      BY <2>2, <3>1 DEF UploadInv, Unreceived
    <3>3. PendingInv'
      BY <2>1, <3>1 DEF PendingInv, Unreceived
    <3>4. TakesInOrder
      BY <2>1, <3>2, TakesWhatFollows
    <3>5. Retries
      BY <1>1, <2>2, <2>3, CallsRetry DEF write_once
    <3> QED
      BY <3>2, <3>3, <3>4, <3>5
  <2>4. CASE matches(writeWait, r) /\ WriteFails(bytes, sendOffset, rw, did)
    <3>1. /\ send' = bytes /\ sendOffset' = sendOffset
          /\ UNCHANGED <<writeWait, uploaded, pending>>
          /\ calls' = Append(did, Writing(SubSeq(bytes, sendOffset + 1, Len(bytes))))
      BY <2>4 DEF WriteFails
    <3>2. UploadInv'
      BY <2>2, <3>1 DEF UploadInv, Unreceived
    <3>3. PendingInv'
      BY <1>2, <2>1, <2>2, <3>1 DEF PendingInv, Waits, Unreceived
    <3>4. Retries
      BY <1>1, <2>2, <3>1, CallsRetry
    <3> QED
      BY <3>1, <3>2, <3>3, <3>4 DEF TakesInOrder
  <2>5. CASE ~matches(writeWait, r)
    <3>1. /\ send' = bytes /\ calls' = did
          /\ UNCHANGED <<sendOffset, writeWait, uploaded, pending>>
      BY <1>2, <2>5 DEF Upload, bytes
    <3>2. UploadInv'
      BY <2>2, <3>1 DEF UploadInv, Unreceived
    <3>3. PendingInv'
      BY <1>2, <2>1, <2>2, <3>1 DEF PendingInv, Waits, Unreceived
    <3>4. Retries
      BY <1>1, <2>2, <3>1, CallsRetry
    <3> QED
      BY <3>1, <3>2, <3>3, <3>4 DEF TakesInOrder
  <2> QED
    BY <1>2, <2>3, <2>4, <2>5 DEF Upload, bytes
<1>3. CASE ~(Uploads /\ bytes # <<>>)
  <2>1. calls' = did /\ UNCHANGED <<supplied, headOffset, send, sendOffset, writeWait, uploaded, pending>>
    BY <1>3 DEF Upload, NoWrite, upVars
  <2> HIDE DEF bytes
  <2>2. UploadInv' /\ PendingInv'
    BY <2>1 DEF UploadInv, Supplied, PendingInv, Unreceived
  <2>3. Retries
    BY <1>1, <2>1, CallsRetry
  <2> QED
    BY <2>1, <2>2, <2>3 DEF TakesInOrder
<1> QED
  BY <1>2, <1>3

\* A step that returns after a read that waits to write.
LEMMA AfterReadKeeps ==
  ASSUME UploadInv, PendingInv, Unreceived, ~Resumes,
         NEW rw, NEW did \in {<<>>, <<Reading>>}, NEW r, AfterRead(rw, did, r)
  PROVE  UploadInv' /\ PendingInv' /\ TakesInOrder /\ Retries
<1>1. CASE rw = WRITABLE
  <2>1. calls' = did /\ UNCHANGED <<supplied, headOffset, send, sendOffset, writeWait, uploaded, pending>>
    BY <1>1 DEF AfterRead, NoWrite, upVars
  <2>2. UploadInv' /\ PendingInv'
    BY <2>1 DEF UploadInv, Supplied, PendingInv, Unreceived
  <2>3. ~(pending # Nothing /\ writeWait = READABLE)
    BY DEF PendingInv, Resumes
  <2>4. Retries
    BY <2>1, <2>3, CallsRetry
  <2> QED
    BY <2>1, <2>2, <2>4 DEF TakesInOrder
<1>2. CASE rw # WRITABLE
  BY <1>2, UploadKeeps DEF AfterRead
<1> QED
  BY <1>1, <1>2

\* A step that decodes, or one whose read fails: nothing is staged or written.
LEMMA ReceiveKeeps ==
  ASSUME UploadInv, PendingInv, accepted' = accepted,
         NEW did \in {<<>>, <<Reading>>}, calls' = did,
         ~(pending # Nothing /\ writeWait = READABLE),
         UNCHANGED <<upVars, writeWait, uploaded, pending>>
  PROVE  UploadInv' /\ PendingInv' /\ TakesInOrder /\ Retries
<1>1. UploadInv' /\ PendingInv'
  BY DEF UploadInv, Supplied, PendingInv, upVars
<1>2. Retries
  BY CallsRetry
<1> QED
  BY <1>1, <1>2 DEF TakesInOrder

\* A step reads, when nothing received is left and no write comes before.
LEMMA ReadKeeps ==
  ASSUME UploadInv, PendingInv, accepted' = accepted, ~Resumes, NEW r, Read(r)
  PROVE  UploadInv' /\ PendingInv' /\ TakesInOrder /\ Retries
<1>1. ~(pending # Nothing /\ writeWait = READABLE)
  BY DEF PendingInv, Resumes
<1>2. ASSUME NEW w, NoWrite(w, <<Reading>>)
      PROVE  UploadInv' /\ PendingInv' /\ TakesInOrder /\ Retries
  BY <1>1, <1>2, ReceiveKeeps DEF NoWrite
<1>3. ASSUME NEW w, receive' = <<>>, receiveOffset' = 0, eof' = FALSE, headReady' = headReady,
             AfterRead(w, <<Reading>>, r)
      PROVE  UploadInv' /\ PendingInv' /\ TakesInOrder /\ Retries
  <2>1. Unreceived
    <3>1. Len(<<>>) = 0
      OBVIOUS
    <3> QED
      BY <1>3, <3>1 DEF Unreceived, UploadInv
  <2> QED
    BY <1>3, <2>1, AfterReadKeeps
<1> QED
  BY <1>2, <1>3 DEF Read

\* A step of the exchange.
LEMMA ExchangingKeeps ==
  ASSUME UploadInv, PendingInv, accepted' = accepted, NEW r, Exchanging(r)
  PROVE  UploadInv' /\ PendingInv' /\ TakesInOrder /\ Retries
<1>1. CASE receiveOffset < Len(receive) \/ eof
  <2>1. NoWrite(readWait, <<>>)
    BY <1>1 DEF Exchanging, DecodeRest
  <2> QED
    BY <1>1, <2>1, ReceiveKeeps DEF NoWrite, PendingInv
<1>2. CASE ~(receiveOffset < Len(receive) \/ eof)
  <2>1. CASE Resumes
    BY <1>2, <2>1, ResumeKeeps DEF Exchanging
  <2>2. CASE ~Resumes /\ matches(readWait, r)
    BY <1>2, <2>2, ReadKeeps DEF Exchanging
  <2>3. CASE ~Resumes /\ ~matches(readWait, r)
    <3>1. AfterRead(readWait, <<>>, r) /\ UNCHANGED downVars
      BY <1>2, <2>3 DEF Exchanging
    <3>2. Unreceived
      BY <1>2, <3>1 DEF Unreceived, downVars, UploadInv
    <3> QED
      BY <2>3, <3>1, <3>2, AfterReadKeeps
  <2> QED
    BY <2>1, <2>2, <2>3
<1> QED
  BY <1>1, <1>2

\* Any call of step.
LEMMA StepKeeps ==
  ASSUME UploadInv, PendingInv, NEW r, step(r)
  PROVE  UploadInv' /\ PendingInv' /\ TakesInOrder /\ Retries
<1>1. accepted' = accepted /\ accepted' \in Nat
  BY DEF step, wireVars, UploadInv
<1>2. ASSUME Quiet PROVE Idle
  BY <1>1, <1>2 DEF Quiet, Idle, downVars, waitVars, ioVars
<1>3. ASSUME Handshake(r) PROVE Idle
  BY <1>1, <1>3 DEF Handshake, Idle, downVars, ioVars
<1>4. CASE Exchanging(r)
  BY <1>1, <1>4, ExchangingKeeps
<1>5. Quiet \/ Handshake(r) \/ Exchanging(r)
  BY DEF step, advance, Over, Connect, FinishConnect, TlsSetup
<1> QED
  BY <1>2, <1>3, <1>4, <1>5, IdleKeeps

\* The application supplies a part of the content: it is staged behind the head.
LEMMA SupplyKeeps ==
  ASSUME UploadInv, PendingInv, NEW n, supply(n)
  PROVE  UploadInv' /\ PendingInv' /\ TakesInOrder /\ Retries
<1> DEFINE count == Smaller(n, SendRoom)
<1>1. /\ send = <<>> /\ headOffset = HeadLength /\ n \in 1..(Content - supplied)
      /\ send' = [i \in 1..count |-> HeadLength + supplied + i]
      /\ supplied' = supplied + count /\ calls' = <<>>
      /\ UNCHANGED <<headOffset, sendOffset, writeWait, uploaded, pending, accepted, headReady,
                     receive, receiveOffset, eof>>
  BY DEF supply, Accepts, waitVars, ioVars, wireVars, downVars
<1>2. supplied \in 0..Content /\ HeadLength \in Nat /\ Content \in Nat /\ SendRoom \in Nat \ {0}
  BY Sizes DEF UploadInv, Supplied
<1>3. n \in Nat /\ count \in Nat /\ count <= n /\ count > 0
  BY <1>1, <1>2, SmallerIsLess
<1> HIDE DEF count
<1>4. Supplied'
  BY <1>1, <1>2, <1>3 DEF Supplied
<1>5. sendOffset = 0 /\ Len(uploaded) \in Nat /\ Len(uploaded) = HeadLength + supplied
  <2>1. Len(send) = 0
    BY <1>1
  <2>2. sendOffset = 0
    BY <2>1 DEF UploadInv, Follows
  <2>3. Len(uploaded) \in Nat
    BY LenProperties DEF UploadInv, InOrder
  <2>4. Len(uploaded) + Len(send) - sendOffset = headOffset + supplied
    BY DEF UploadInv, Follows
  <2> QED
    BY <1>1, <1>2, <2>1, <2>2, <2>3, <2>4
<1>6. send' \in Seq(Nat) /\ Len(send') = count
  BY <1>1, <1>2, <1>3
<1>7. \A j \in 1..count : send'[j] = Len(uploaded) - 0 + j
  BY <1>1, <1>2, <1>3, <1>5
<1>8. Follows(uploaded, send', 0, HeadLength + supplied')
  <2>1. 0 < Len(send')
    BY <1>3, <1>6
  <2>2. Len(uploaded) + Len(send') - 0 = HeadLength + supplied'
    BY <1>1, <1>2, <1>3, <1>5, <1>6
  <2> QED
    BY <1>6, <1>7, <2>1, <2>2 DEF Follows
<1>9. UploadInv'
  BY <1>1, <1>4, <1>5, <1>8 DEF UploadInv
<1>10. writeWait = NONE /\ pending = Nothing
  BY <1>1 DEF PendingInv, Waits
<1>11. PendingInv'
  BY <1>1, <1>10 DEF PendingInv, Waits
<1> QED
  BY <1>1, <1>9, <1>11 DEF TakesInOrder, Retries

\* Every other call and step leaves alone what is staged.
LEMMA OthersKeep ==
  ASSUME UploadInv, PendingInv,
         \/ \E n : consume_output(n)
         \/ cancel \/ finish_input \/ Server \/ Expire
  PROVE  UploadInv' /\ PendingInv' /\ TakesInOrder /\ Retries
<1>1. ASSUME NEW n, consume_output(n) PROVE Idle
  BY <1>1 DEF consume_output, Idle, waitVars, wireVars, ioVars, UploadInv
<1>2. ASSUME cancel PROVE Idle
  BY <1>2 DEF cancel, Idle, waitVars, wireVars, ioVars, UploadInv
<1>3. ASSUME Server PROVE Idle
  BY <1>3 DEF Server, Establish, Accept, Answer, End, Idle, downVars, waitVars, ioVars, UploadInv
<1>4. ASSUME Expire PROVE Idle
  BY <1>4 DEF Expire, Idle, downVars, waitVars, wireVars, ioVars, UploadInv
<1> QED
  BY <1>1, <1>2, <1>3, <1>4, IdleKeeps DEF finish_input

-----------------------------------------------------------------------------
(* What is open.                                                           *)

\* Close leaves neither a socket nor a session.
LEMMA CloseCloses == Close => socket' = "closed" /\ tls' # "active"
  BY DEF Close

\* A call of step that leaves the exchange over has closed both, or found it
\* over.
LEMMA StepReleases ==
  ASSUME ClosedInv, NEW r, step(r)
  PROVE  ClosedInv' /\ Releases
<1>1. CASE phase \in Terminal
  <2>1. /\ UNCHANGED <<socket, tls>>
        /\ phase' = IF phase = "cancelled" THEN "failed" ELSE phase
    BY <1>1 DEF step, Over
  <2> QED
    BY <1>1, <2>1 DEF ClosedInv, Releases
<1>2. CASE phase \notin Terminal
  <2>1. phase # "done"
    BY <1>2 DEF Terminal
  <2>2. advance(r)
    BY <1>2 DEF step
  <2>3. ASSUME phase' = phase PROVE ClosedInv' /\ Releases
    BY <1>2, <2>3 DEF ClosedInv, Releases
  <2>4. ASSUME Close PROVE ClosedInv' /\ Releases
    BY <2>1, <2>4, CloseCloses DEF ClosedInv, Releases
  <2>5. ASSUME phase' \in {"connecting", "tls_setup", "handshake", "exchange"}
        PROVE  ClosedInv' /\ Releases
    BY <2>5 DEF ClosedInv, Releases, Terminal
  <2>6. ASSUME socket' = "closed", tls' = "closed" PROVE ClosedInv' /\ Releases
    BY <2>1, <2>6 DEF ClosedInv, Releases
  <2>7. ASSUME Exchanging(r) PROVE phase' = phase \/ Close
    <3>1. ASSUME NEW st, NEW w, Go(st, w) PROVE phase' = phase
      BY <3>1 DEF Go, connVars
    <3>2. ASSUME NEW b, NEW o, NEW e, decode(b, o, e) PROVE phase' = phase \/ Close
      BY <3>1, <3>2 DEF decode, Fail
    <3>3. ASSUME NEW rw, NEW did, AfterRead(rw, did, r) PROVE phase' = phase \/ Close
      BY <3>1, <3>3 DEF AfterRead, Upload, WriteFails, Fail
    <3>4. ASSUME ResumeWrite(r) PROVE phase' = phase \/ Close
      BY <3>1, <3>4 DEF ResumeWrite, WriteFails, Fail
    <3>5. ASSUME Read(r) PROVE phase' = phase \/ Close
      BY <3>2, <3>3, <3>5 DEF Read, Fail
    <3> QED
      BY <2>7, <3>2, <3>3, <3>4, <3>5 DEF Exchanging, DecodeRest
  <2>8. ASSUME Connect \/ FinishConnect(r) \/ TlsSetup \/ Handshake(r)
        PROVE  \/ phase' = phase \/ Close
               \/ phase' \in {"connecting", "tls_setup", "handshake", "exchange"}
               \/ socket' = "closed" /\ tls' = "closed"
    BY <2>8 DEF Connect, FinishConnect, TlsSetup, Handshake, Fail, Go, connVars
  <2>9. ASSUME Finish PROVE Close
    BY <2>9 DEF Finish, Fail
  <2>10. \/ Fail \/ Finish \/ Exchanging(r) \/ phase' = phase
         \/ Connect \/ FinishConnect(r) \/ TlsSetup \/ Handshake(r)
    BY <2>2 DEF advance, Go, connVars
  <2> QED
    BY <2>3, <2>4, <2>5, <2>6, <2>7, <2>8, <2>9, <2>10 DEF Fail
<1> QED
  BY <1>1, <1>2

\* So has every other call and step.
LEMMA OthersRelease ==
  ASSUME ClosedInv,
         \/ \E n : supply(n) \/ consume_output(n)
         \/ cancel \/ finish_input \/ Server \/ Expire
  PROVE  ClosedInv' /\ Releases
<1>1. ASSUME cancel PROVE ClosedInv' /\ Releases
  <2>1. socket' = "closed" /\ tls' # "active" /\ phase # "done"
    BY <1>1, CloseCloses DEF cancel, Terminal
  <2> QED
    BY <2>1 DEF ClosedInv, Releases
<1>2. ASSUME UNCHANGED connVars PROVE ClosedInv' /\ Releases
  BY <1>2 DEF connVars, ClosedInv, Releases
<1>3. \/ cancel \/ UNCHANGED connVars
  BY DEF supply, consume_output, finish_input, Server, Establish, Accept, Answer, End, Expire
<1> QED
  BY <1>1, <1>2, <1>3

-----------------------------------------------------------------------------
(* One byte.                                                               *)

\* A message is a sequence of bytes.
LEMMA WireType ==
  ASSUME NEW m \in Messages
  PROVE  /\ m.wire \in Seq(Bytes) /\ Len(m.wire) \in Nat
         /\ \A i \in 1..Len(m.wire) : m.wire[i] \in Bytes
         /\ m.body \in Nat /\ m.closing \in BOOLEAN
<1>1. m.wire \in Seq(Bytes) /\ m.body \in Nat /\ m.closing \in BOOLEAN
  BY Answers DEF Bytes
<1> QED
  BY <1>1, ElementOfSeq, LenProperties

\* How the data grow with the bytes.
LEMMA DataGrow ==
  ASSUME NEW w, NEW k \in Nat
  PROVE  /\ IsFiniteSet(DataIn(w, k)) /\ Cardinality(DataIn(w, k)) \in Nat
         /\ IsData(w, k + 1) => Cardinality(DataIn(w, k + 1)) = Cardinality(DataIn(w, k)) + 1
         /\ ~IsData(w, k + 1) => DataIn(w, k + 1) = DataIn(w, k)
<1>1. IsFiniteSet(1..k)
  BY FS_Interval
<1>2. DataIn(w, k) \subseteq 1..k
  BY DEF DataIn
<1>3. IsFiniteSet(DataIn(w, k)) /\ Cardinality(DataIn(w, k)) \in Nat
  BY <1>1, <1>2, FS_Subset, FS_CardinalityType
<1>4. k + 1 \notin DataIn(w, k)
  BY <1>2
<1>5. ASSUME IsData(w, k + 1) PROVE DataIn(w, k + 1) = DataIn(w, k) \cup {k + 1}
  BY <1>5 DEF DataIn
<1>6. ASSUME ~IsData(w, k + 1) PROVE DataIn(w, k + 1) = DataIn(w, k)
  BY <1>6 DEF DataIn
<1> QED
  BY <1>3, <1>4, <1>5, <1>6, FS_AddElement

\* A byte that is not data is counted.
LEMMA MetadataCounted ==
  ASSUME NEW d \in Decoders, NEW n, n = [d EXCEPT !.metadata = @ + 1]
  PROVE  /\ n \in Decoders
         /\ n.body = d.body /\ n.state = d.state /\ n.remaining = d.remaining /\ n.code = d.code
  BY DEF Decoders

\* The decoder after an interim head and after a final one.
Interim(d, c) == [d EXCEPT !.head = 0, !.code = c]

LEMMA InterimIs ==
  ASSUME NEW d \in Decoders, NEW c \in Nat
  PROVE  Interim(d, c) \in Decoders /\ Interim(d, c).body = d.body /\ Interim(d, c).state = d.state
  BY DEF Decoders, Interim

Headed(d, h, c, r, s) == [d EXCEPT !.head = h, !.code = c, !.remaining = r, !.state = s]

LEMMA HeadedIs ==
  ASSUME NEW d \in Decoders, NEW h \in Nat, NEW c \in Nat, NEW r \in Nat, NEW s \in States
  PROVE  /\ Headed(d, h, c, r, s) \in Decoders /\ Headed(d, h, c, r, s).body = d.body
         /\ Headed(d, h, c, r, s).remaining = r /\ Headed(d, h, c, r, s).state = s
  BY DEF Decoders, Headed

\* What a byte of a head may do to a decoder.
LEMMA HeadByteKeeps ==
  ASSUME NEW n \in Decoders, n.state = "head", NEW b \in Bytes, b.what = "interim" => b.code < 200,
         NEW e, e = HeadByte(n, b), e.state # "failed"
  PROVE  /\ e \in Decoders /\ e.body = n.body
         /\ ~EndsHead(n, b) \/ b.code < 200 => e.state = "head"
         /\ EndsHead(n, b) /\ b.code >= 200 =>
              e.remaining = b.n /\ e.state = AfterHead(b) /\ b.what \in Framings
<1>1. b.n \in Nat /\ b.code \in Nat /\ n.head + 1 \in Nat
  BY DEF Bytes, Decoders
<1>2. Failed(n).state = "failed"
  BY DEF Failed, Decoders
<1>3. CASE ~EndsHead(n, b)
  <2>1. e = [n EXCEPT !.head = @ + 1]
    BY <1>2, <1>3 DEF HeadByte
  <2> QED
    BY <1>1, <1>3, <2>1 DEF Decoders
<1>4. CASE EndsHead(n, b) /\ b.code < 200
  <2>1. e = Interim(n, b.code)
    BY <1>2, <1>4 DEF HeadByte, Interim
  <2>2. e \in Decoders /\ e.body = n.body /\ e.state = n.state
    <3> DEFINE c == b.code
    <3>1. e = Interim(n, c) /\ c \in Nat
      BY <1>1, <2>1
    <3> HIDE DEF c
    <3> QED
      BY <3>1, InterimIs
  <2> QED
    BY <1>1, <1>4, <2>2
<1>5. CASE EndsHead(n, b) /\ b.code >= 200
  <2>1. e = Headed(n, n.head + 1, b.code, b.n, AfterHead(b)) /\ b.what # "bad"
    BY <1>1, <1>2, <1>5 DEF HeadByte, Headed
  <2>2. b.what \in Framings
    BY <1>1, <1>5, <2>1 DEF EndsHead
  <2>3. AfterHead(b) \in States
    BY <1>1, <1>5, <2>2 DEF AfterHead, Framings, States
  <2>4. e \in Decoders /\ e.body = n.body /\ e.remaining = b.n /\ e.state = AfterHead(b)
    <3> DEFINE h == n.head + 1
               c == b.code
               r == b.n
               a == AfterHead(b)
    <3>1. /\ h \in Nat /\ c \in Nat /\ r \in Nat /\ a \in States
          /\ e = Headed(n, h, c, r, a)
      BY <1>1, <2>1, <2>3
    <3> HIDE DEF h, c, r, a
    <3>2. e \in Decoders /\ e.body = n.body /\ e.remaining = r /\ e.state = a
      <4>1. /\ Headed(n, h, c, r, a) \in Decoders /\ Headed(n, h, c, r, a).body = n.body
            /\ Headed(n, h, c, r, a).remaining = r /\ Headed(n, h, c, r, a).state = a
        BY <3>1, HeadedIs, SMTT(60)
      <4> QED
        BY <3>1, <4>1
    <3> QED
      BY <3>2 DEF r, a
  <2> QED
    BY <1>1, <1>5, <2>2, <2>4
<1> QED
  BY <1>1, <1>3, <1>4, <1>5

\* Where the next byte is the first final head, or none has come yet.
LEMMA HeadKeepsStep ==
  ASSUME NEW m \in Messages, NEW d, NEW k \in 0..(Len(m.wire) - 1), InStep(m, d, k), d.state = "head",
         NEW e, e = MetadataByte(d, m.wire[k + 1]), e.state # "failed"
  PROVE  InStep(m, e, k + 1) /\ e.body = d.body /\ (e.state = "done" => ~m.closing)
<1> DEFINE b == m.wire[k + 1]
<1>1. /\ k \in Nat /\ k + 1 \in 1..Len(m.wire) /\ b \in Bytes /\ d \in Decoders
      /\ m.body \in Nat /\ m.closing \in BOOLEAN
  BY WireType DEF InStep
<1>2. \A g \in 1..k : ~IsFinal(m.wire, g)
  BY DEF InStep
<1>3. ~IsData(m.wire, k + 1)
  <2> SUFFICES ASSUME IsData(m.wire, k + 1) PROVE FALSE
    OBVIOUS
  <2>1. \E h \in 1..(k + 1 - 1) : IsFinal(m.wire, h)
    BY <1>1, Answers
  <2>2. k + 1 - 1 = k
    BY <1>1
  <2> QED
    BY <1>2, <2>1, <2>2
<1>4. Cardinality(DataIn(m.wire, k + 1)) = d.body /\ d.body <= BodyLimit /\ d.body \in Nat
  BY <1>1, <1>3, DataGrow DEF InStep, Decoders
<1> DEFINE n == [d EXCEPT !.metadata = @ + 1]
<1>5. n \in Decoders /\ n.body = d.body /\ n.state = "head"
  BY <1>1, MetadataCounted
<1>6. e = HeadByte(n, b)
  BY <1>1 DEF MetadataByte, Failed, Decoders
<1>7. IsFinal(m.wire, k + 1) <=> b.what \in Framings /\ b.code >= 200
  BY DEF IsFinal
<1>8. b.what = "interim" => b.code < 200
  BY <1>1, Answers
<1> HIDE DEF n
<1>9. CASE ~IsFinal(m.wire, k + 1)
  <2>1. /\ e.body = d.body /\ e.state = "head" /\ e \in Decoders
    BY <1>1, <1>5, <1>6, <1>7, <1>8, <1>9, HeadByteKeeps DEF EndsHead, Bytes
  <2>2. \A g \in 1..(k + 1) : ~IsFinal(m.wire, g)
    BY <1>1, <1>2, <1>9
  <2> QED
    BY <1>1, <1>4, <2>1, <2>2 DEF InStep
<1>10. CASE IsFinal(m.wire, k + 1)
  <2>1. /\ e.body = d.body /\ e.remaining = b.n /\ e.state = AfterHead(b) /\ e \in Decoders
    BY <1>1, <1>5, <1>6, <1>7, <1>8, <1>10, HeadByteKeeps DEF EndsHead
  <2>2. IsFirstFinal(m.wire, k + 1) /\ Framed(m, k + 1)
    <3>1. IsFirstFinal(m.wire, k + 1)
      BY <1>1, <1>2, <1>10 DEF IsFirstFinal
    <3> QED
      BY <1>1, <3>1, Answers
  <2>3. DataIn(m.wire, k + 1) = {}
    <3>1. ASSUME NEW i \in 1..(k + 1), IsData(m.wire, i) PROVE FALSE
      <4>1. i # k + 1 /\ i \in 1..Len(m.wire)
        BY <1>1, <1>3, <3>1
      <4>2. \E h \in 1..(i - 1) : IsFinal(m.wire, h)
        BY <4>1, <3>1, Answers
      <4> QED
        BY <1>1, <1>2, <4>1, <4>2
    <3> QED
      BY <3>1 DEF DataIn
  <2>4. d.body = 0
    BY <1>4, <2>3, FS_EmptySet
  <2>5. /\ b.what \in Framings
        /\ m.closing <=> b.what = "close"
        /\ b.what = "none" => m.body = 0
        /\ b.what = "fixed" => m.body = b.n
    BY <1>7, <1>10, <2>2 DEF Framed
  <2>6. e.state # "head" /\ (e.state = "done" => ~m.closing /\ e.body = m.body)
    BY <2>1, <2>4, <2>5 DEF AfterHead, Framings
  <2>7. Behind(m, e, k + 1, k + 1)
    BY <1>1, <2>1, <2>4 DEF Behind, AfterHead, Bytes
  <2>8. k + 1 \in 1..(k + 1)
    BY <1>1
  <2> QED
    BY <1>1, <1>4, <2>1, <2>2, <2>6, <2>7, <2>8 DEF InStep
<1> QED
  BY <1>9, <1>10

\* The framing of the response a decoder is behind the head of.
LEMMA BehindHead ==
  ASSUME NEW m \in Messages, NEW d, NEW k, InStep(m, d, k), d.state \notin {"head", "done"}
  PROVE  \E h \in 1..k :
            /\ IsFirstFinal(m.wire, h) /\ Behind(m, d, k, h)
            /\ h \in 1..Len(m.wire) /\ Framed(m, h)
            /\ m.wire[h].what =
                 IF d.state \in {"fixed", "close"} THEN d.state ELSE "chunked"
<1>1. PICK h \in 1..k : IsFirstFinal(m.wire, h) /\ Behind(m, d, k, h)
  BY DEF InStep
<1>2. h \in 1..Len(m.wire)
  BY <1>1, WireType DEF InStep
<1>3. Framed(m, h)
  BY <1>1, <1>2, Answers
<1>4. m.wire[h].what \in {"none", "chunked", "fixed", "close"}
  BY <1>1 DEF IsFirstFinal, IsFinal, Framings
<1>5. d.state \in States
  BY DEF InStep, Decoders
<1> HIDE DEF States
<1>6. m.wire[h].what = IF d.state \in {"fixed", "close"} THEN d.state ELSE "chunked"
  BY <1>1, <1>4 DEF Behind
<1> QED
  BY <1>1, <1>2, <1>3, <1>6

\* The decoder after a size, after the end of the trailers and after a byte of
\* the body.
Sized(d, r, s) == [d EXCEPT !.line = 0, !.remaining = r, !.state = s]
Ended(d, s) == [d EXCEPT !.line = 0, !.state = s]
Counted(d, r, s) == [d EXCEPT !.body = @ + 1, !.state = s, !.remaining = r]

LEMMA SizedIs ==
  ASSUME NEW d \in Decoders, NEW r \in Nat, NEW s \in States
  PROVE  /\ Sized(d, r, s) \in Decoders /\ Sized(d, r, s).body = d.body
         /\ Sized(d, r, s).remaining = r /\ Sized(d, r, s).state = s
  BY DEF Decoders, Sized

LEMMA EndedIs ==
  ASSUME NEW d \in Decoders, NEW s \in States
  PROVE  Ended(d, s) \in Decoders /\ Ended(d, s).body = d.body /\ Ended(d, s).state = s
  BY DEF Decoders, Ended

LEMMA CountedIs ==
  ASSUME NEW d \in Decoders, NEW r \in Nat, NEW s \in States
  PROVE  /\ Counted(d, r, s) \in Decoders /\ Counted(d, r, s).body = d.body + 1
         /\ Counted(d, r, s).remaining = r /\ Counted(d, r, s).state = s
<1>1. d.body + 1 \in Nat
  BY DEF Decoders
<1> QED
  BY <1>1 DEF Decoders, Counted

\* A byte of the chunk syntax.
LEMMA SyntaxByteKeeps ==
  ASSUME NEW n \in Decoders, n.state \in {"size", "data_cr", "data_lf", "trailers"}, NEW b \in Bytes,
         NEW e, e = IF n.state \in {"data_cr", "data_lf"} THEN ChunkEnd(n, b) ELSE LineByte(n, b),
         e.state # "failed"
  PROVE  /\ e \in Decoders /\ e.body = n.body /\ b.what # "data"
         /\ e.state \in {"size", "data", "data_lf", "trailers", "done"}
         /\ e.state = "data" => b.what = "size" /\ e.remaining = b.n /\ b.n > 0
         /\ e.state = "done" => b.what = "end"
<1>0. {"size", "data", "data_lf", "trailers", "done"} \subseteq States
  BY DEF States
<1>1. b.n \in Nat /\ n.line + 1 \in Nat
  BY DEF Bytes, Decoders
<1>2. Failed(n).state = "failed"
  BY DEF Failed, Decoders
<1>3. CASE n.state = "data_cr"
  <2>1. e = [n EXCEPT !.state = "data_lf"] /\ b.what = "cr"
    BY <1>2, <1>3 DEF ChunkEnd
  <2> QED
    BY <1>0, <2>1 DEF Decoders
<1>4. CASE n.state = "data_lf"
  <2>1. e = [n EXCEPT !.state = "size"] /\ b.what = "lf"
    BY <1>2, <1>4 DEF ChunkEnd
  <2> QED
    BY <1>0, <2>1 DEF Decoders
<1>5. CASE n.state \in {"size", "trailers"}
  <2>1. e = LineByte(n, b)
    BY <1>5
  <2>2. CASE b.what = "size" /\ n.state = "size"
    <3> DEFINE r == b.n
               s == IF b.n = 0 THEN "trailers" ELSE "data"
    <3>1. e = Sized(n, r, s)
      BY <1>2, <2>1, <2>2 DEF LineByte, Sized
    <3>2. r \in Nat /\ s \in States
      BY <1>0, <1>1
    <3> HIDE DEF r, s
    <3>3. e \in Decoders /\ e.body = n.body /\ e.remaining = r /\ e.state = s
      BY <3>1, <3>2, SizedIs
    <3> QED
      BY <1>1, <2>2, <3>3 DEF r, s
  <2>3. CASE b.what = "field" /\ n.state = "trailers"
    <3>1. e = [n EXCEPT !.line = 0]
      BY <2>1, <2>3 DEF LineByte
    <3> QED
      BY <3>1, <2>3 DEF Decoders
  <2>4. CASE b.what = "end" /\ n.state = "trailers"
    <3> DEFINE s == "done"
    <3>1. e = Ended(n, s) /\ s \in States
      BY <1>0, <2>1, <2>4 DEF LineByte, Ended
    <3> HIDE DEF s
    <3>2. e \in Decoders /\ e.body = n.body /\ e.state = s
      BY <3>1, EndedIs
    <3> QED
      BY <2>4, <3>2 DEF s
  <2>5. CASE ~(b.what = "size" /\ n.state = "size") /\ ~(b.what \in {"field", "end"} /\ n.state = "trailers")
    <3>1. e = [n EXCEPT !.line = @ + 1] /\ b.what = "line"
      BY <1>2, <2>1, <2>5 DEF LineByte
    <3> QED
      BY <3>1, <1>1, <1>5 DEF Decoders
  <2> QED
    BY <2>2, <2>3, <2>4, <2>5
<1> QED
  BY <1>3, <1>4, <1>5

\* The syntax of chunks is followed, and holds no data.
LEMMA SyntaxKeepsStep ==
  ASSUME NEW m \in Messages, NEW d, NEW k \in 0..(Len(m.wire) - 1), InStep(m, d, k),
         d.state \in {"size", "data_cr", "data_lf", "trailers"},
         NEW e, e = MetadataByte(d, m.wire[k + 1]), e.state # "failed"
  PROVE  InStep(m, e, k + 1) /\ e.body = d.body /\ (e.state = "done" => ~m.closing)
<1> DEFINE b == m.wire[k + 1]
           n == [d EXCEPT !.metadata = @ + 1]
<1>1. /\ k \in Nat /\ k + 1 \in 1..Len(m.wire) /\ b \in Bytes /\ d \in Decoders
      /\ m.body \in Nat /\ m.closing \in BOOLEAN
  BY WireType DEF InStep
<1>2. n \in Decoders /\ n.body = d.body /\ n.state = d.state
  BY <1>1, MetadataCounted
<1>3. e = IF n.state \in {"data_cr", "data_lf"} THEN ChunkEnd(n, b) ELSE LineByte(n, b)
  BY <1>1, <1>2 DEF MetadataByte, Failed, Decoders
<1> HIDE DEF n
<1>4. /\ e \in Decoders /\ e.body = n.body /\ b.what # "data"
      /\ e.state \in {"size", "data", "data_lf", "trailers", "done"}
      /\ e.state = "data" => b.what = "size" /\ e.remaining = b.n /\ b.n > 0
      /\ e.state = "done" => b.what = "end"
  BY <1>1, <1>2, <1>3, SyntaxByteKeeps
<1>5. PICK h \in 1..k : /\ IsFirstFinal(m.wire, h) /\ m.wire[h].what = "chunked"
                        /\ h \in 1..Len(m.wire) /\ Framed(m, h)
  BY BehindHead
<1>6. k + 1 \in (h + 1)..Len(m.wire) /\ h \in 1..(k + 1)
  BY <1>1, <1>5
<1>7. /\ ~m.closing
      /\ b.what = "size" => \A j \in 1..b.n : k + 1 + j <= Len(m.wire) => IsData(m.wire, k + 1 + j)
      /\ b.what = "end" => m.body = Cardinality(DataIn(m.wire, k + 1))
  BY <1>1, <1>5, <1>6 DEF Framed
<1>8. e.body = Cardinality(DataIn(m.wire, k + 1)) /\ e.body <= BodyLimit
  <2>1. ~IsData(m.wire, k + 1)
    BY <1>4 DEF IsData
  <2> QED
    BY <1>1, <1>2, <1>4, <2>1, DataGrow DEF InStep
<1>9. Behind(m, e, k + 1, h)
  BY <1>4, <1>5, <1>7 DEF Behind
<1>10. e.state # "head" /\ (e.state = "done" => e.body = m.body)
  BY <1>4, <1>7, <1>8
<1> QED
  BY <1>1, <1>2, <1>4, <1>5, <1>6, <1>7, <1>8, <1>9, <1>10 DEF InStep

\* The next byte is data wherever the decoder takes it for data, and the number
\* that follows.
LEMMA BodyKeepsStep ==
  ASSUME NEW m \in Messages, NEW d, NEW k \in 0..(Len(m.wire) - 1), InStep(m, d, k), InBody(d),
         NEW e, e = BodyByte(d), e.state # "failed"
  PROVE  /\ InStep(m, e, k + 1) /\ e.body = d.body + 1 /\ m.wire[k + 1] = Datum(d.body + 1)
         /\ e.state = "done" => ~m.closing
<1>1. /\ k \in Nat /\ k + 1 \in 1..Len(m.wire) /\ d \in Decoders /\ Len(m.wire) \in Nat
      /\ m.body \in Nat /\ m.closing \in BOOLEAN /\ d.body \in Nat /\ d.remaining \in Nat
      /\ d.state \in {"fixed", "close", "data"}
  BY WireType DEF InStep, Decoders, InBody
<1>2. PICK h \in 1..k : /\ IsFirstFinal(m.wire, h) /\ Behind(m, d, k, h)
                        /\ h \in 1..Len(m.wire) /\ Framed(m, h)
                        /\ m.wire[h].what = IF d.state \in {"fixed", "close"} THEN d.state ELSE "chunked"
  BY <1>1, BehindHead
<1>3. k + 1 \in (h + 1)..Len(m.wire) /\ h \in 1..(k + 1) /\ h \in Nat /\ m.wire[h].n \in Nat
  BY <1>1, <1>2, WireType DEF Bytes
<1>4. m.closing <=> d.state = "close"
  BY <1>1, <1>2 DEF Framed
<1>5. /\ d.state = "fixed" =>
           d.remaining > 0 /\ k = h + d.body /\ d.body + d.remaining = m.wire[h].n /\ m.body = m.wire[h].n
      /\ d.state = "data" =>
           d.remaining > 0 /\ \A j \in 1..d.remaining : k + j <= Len(m.wire) => IsData(m.wire, k + j)
  BY <1>1, <1>2 DEF Behind, Framed
<1>16. d.state = "fixed" =>
          /\ k + 1 <= h + m.wire[h].n /\ k + 1 = h + (d.body + 1)
          /\ d.remaining > 1 => d.remaining - 1 > 0 /\ d.body + 1 + (d.remaining - 1) = m.wire[h].n
  <2> DEFINE N == m.wire[h].n
             B == d.body
             R == d.remaining
  <2>1. N \in Nat /\ B \in Nat /\ R \in Nat /\ k \in Nat /\ h \in Nat
    BY <1>1, <1>3
  <2>2. d.state = "fixed" => R > 0 /\ k = h + B /\ B + R = N
    BY <1>5
  <2> HIDE DEF N, B, R
  <2>3. d.state = "fixed" => k + 1 <= h + N /\ k + 1 = h + (B + 1) /\ (R > 1 => R - 1 > 0 /\ B + 1 + (R - 1) = N)
    BY <2>1, <2>2
  <2> QED
    BY <2>3 DEF N, B, R
<1>6. IsData(m.wire, k + 1)
  <2>1. CASE d.state = "fixed"
    <3>1. k + 1 <= h + m.wire[h].n
      BY <1>16, <2>1
    <3> QED
      BY <1>2, <1>3, <2>1, <3>1 DEF Framed
  <2>2. CASE d.state = "close"
    BY <1>2, <1>3, <2>2 DEF Framed
  <2>3. CASE d.state = "data"
    BY <1>1, <1>5, <2>3
  <2> QED
    BY <1>1, <2>1, <2>2, <2>3
<1>7. Cardinality(DataIn(m.wire, k + 1)) = d.body + 1 /\ m.wire[k + 1] = Datum(d.body + 1)
  <2>1. Cardinality(DataIn(m.wire, k + 1)) = d.body + 1
    BY <1>1, <1>6, DataGrow DEF InStep
  <2> QED
    BY <1>1, <1>6, <2>1, Answers
<1> DEFINE r == IF d.state = "close" THEN d.remaining ELSE d.remaining - 1
           s == AfterBody(d)
<1>8. d.body # BodyLimit /\ e = Counted(d, r, s)
  BY <1>1 DEF BodyByte, TooLong, Failed, Decoders, Counted
<1>9. r \in Nat /\ s \in States /\ s \in {d.state, "done", "data_cr"}
  BY <1>1, <1>5 DEF AfterBody, States
<1>10. /\ d.state = "close" => s = "close"
       /\ d.state = "fixed" => s \in {"fixed", "done"} /\ (s = "fixed" <=> d.remaining > 1)
       /\ d.state = "data" => s \in {"data", "data_cr"} /\ (s = "data" => d.remaining > 1)
  BY <1>1 DEF AfterBody
<1>11. d.state # "close" => r = d.remaining - 1
  OBVIOUS
<1> HIDE DEF r, s
<1>12. e \in Decoders /\ e.body = d.body + 1 /\ e.remaining = r /\ e.state = s
  <2>1. d \in Decoders /\ r \in Nat /\ s \in States /\ e = Counted(d, r, s)
    BY <1>1, <1>8, <1>9
  <2>2. /\ Counted(d, r, s) \in Decoders /\ Counted(d, r, s).body = d.body + 1
        /\ Counted(d, r, s).remaining = r /\ Counted(d, r, s).state = s
    BY <2>1, CountedIs, SMTT(30)
  <2> QED
    BY <2>1, <2>2
<1>13. Behind(m, e, k + 1, h)
  <2>1. CASE d.state = "fixed"
    <3>1. k + 1 = h + (d.body + 1) /\ (d.remaining > 1 => r > 0 /\ d.body + 1 + r = m.wire[h].n)
      BY <1>11, <1>16, <2>1
    <3> QED
      BY <1>2, <1>10, <1>12, <2>1, <3>1 DEF Behind
  <2>2. CASE d.state = "close"
    BY <1>2, <1>10, <1>12, <2>2 DEF Behind
  <2>3. CASE d.state = "data"
    <3>1. ASSUME s = "data", NEW j \in 1..r, k + 1 + j <= Len(m.wire) PROVE IsData(m.wire, k + 1 + j)
      <4>1. j + 1 \in 1..d.remaining /\ k + (j + 1) = k + 1 + j
        BY <1>1, <1>9, <1>11, <2>3
      <4>2. k + (j + 1) <= Len(m.wire) => IsData(m.wire, k + (j + 1))
        BY <1>5, <2>3, <4>1
      <4> QED
        BY <3>1, <4>1, <4>2
    <3>2. s = "data" => r > 0
      BY <1>1, <1>10, <1>11, <2>3
    <3> QED
      BY <1>2, <1>10, <1>12, <2>3, <3>1, <3>2 DEF Behind
  <2> QED
    BY <1>1, <2>1, <2>2, <2>3
<1>14. e.state # "head" /\ (e.state = "done" => ~m.closing /\ e.body = m.body)
  BY <1>1, <1>4, <1>5, <1>10, <1>12
<1>15. e.body <= BodyLimit
  BY <1>1, <1>8, <1>12, Limits DEF InStep
<1> QED
  BY <1>1, <1>2, <1>3, <1>7, <1>12, <1>13, <1>14, <1>15 DEF InStep

-----------------------------------------------------------------------------
(* Many bytes.  A recursive function is reasoned about through the least     *)
(* number at which it would fail.                                           *)

LEMMA LeastNatural ==
  ASSUME NEW T, T \subseteq Nat, T # {}
  PROVE  \E x \in T : \A y \in T : x <= y
<1>1. IsWellFoundedOn(OpToRel(<, Nat), Nat)
  BY NatLessThanWellFounded
<1>2. PICK x \in T : \A y \in T : ~(<<y, x>> \in OpToRel(<, Nat))
  BY <1>1, WFMin
<1>3. \A y \in T : y < x => <<y, x>> \in OpToRel(<, Nat)
  BY DEF OpToRel
<1>4. \A y \in T : ~(y < x)
  BY <1>2, <1>3, Zenon
<1> QED
  BY <1>4

\* A set of numbers that holds 0 and with each number below the bound the next
\* holds all of them.
LEMMA UpTo ==
  ASSUME NEW n \in Nat, NEW S, 0 \in S, \A i \in 0..(n - 1) : i \in S => i + 1 \in S
  PROVE  0..n \subseteq S
<1> DEFINE T == {i \in 0..n : i \notin S}
<1> SUFFICES ASSUME T # {} PROVE FALSE
  OBVIOUS
<1>1. PICK x \in T : \A y \in T : x <= y
  <2>1. T \subseteq Nat
    OBVIOUS
  <2> QED
    BY <2>1, LeastNatural
<1>2. x # 0 /\ x - 1 \in 0..(n - 1) /\ x - 1 \in 0..n /\ ~(x <= x - 1) /\ (x - 1) + 1 = x
  BY <1>1
<1>3. x - 1 \in S
  BY <1>1, <1>2
<1>4. x \in S
  BY <1>2, <1>3
<1> QED
  BY <1>1, <1>4

\* What decoding has made of the first i bytes follows from the i-th and those
\* before it.
LEMMA DecodingIs ==
  ASSUME NEW d, NEW bytes, NEW room, Len(bytes) \in Nat
  PROVE  \A i \in 0..Len(bytes) :
            Decoding(d, bytes, room)[i] =
              IF i = 0 THEN Started(d) ELSE Taken(Decoding(d, bytes, room)[i - 1], bytes[i], i, room)
<1> DEFINE Now(g, i) == IF i = 0 THEN Started(d) ELSE Taken(g[i - 1], bytes[i], i, room)
           Has(n) == \E g : g = [i \in 0..n |-> Now(g, i)]
           S == {n \in 0..Len(bytes) : Has(n)}
<1>1. 0 \in S
  <2> DEFINE g == [i \in 0..0 |-> Started(d)]
  <2>1. g = [i \in 0..0 |-> Now(g, i)]
    OBVIOUS
  <2>2. Has(0)
    BY <2>1, Zenon
  <2> HIDE DEF Has
  <2> QED
    BY <2>2
<1>2. ASSUME NEW n \in 0..(Len(bytes) - 1), n \in S PROVE n + 1 \in S
  <2>1. PICK g : g = [i \in 0..n |-> Now(g, i)]
    BY <1>2
  <2>2. \A i \in 0..n : g[i] = Now(g, i)
    BY <2>1
  <2> DEFINE f == [i \in 0..(n + 1) |-> IF i = n + 1 THEN Taken(g[n], bytes[n + 1], n + 1, room) ELSE g[i]]
  <2>3. ASSUME NEW i \in 0..(n + 1) PROVE f[i] = Now(f, i)
    <3>1. CASE i = 0
      <4>1. f[0] = g[0] /\ g[0] = Now(g, 0)
        BY <2>2
      <4> QED
        BY <3>1, <4>1
    <3>2. CASE i = n + 1
      <4>1. f[n] = g[n] /\ f[n + 1] = Taken(g[n], bytes[n + 1], n + 1, room) /\ (n + 1) - 1 = n
        OBVIOUS
      <4> QED
        BY <3>2, <4>1
    <3>3. CASE i \in 1..n
      <4>1. f[i] = g[i] /\ f[i - 1] = g[i - 1] /\ g[i] = Now(g, i) /\ i # 0
        BY <2>2, <3>3
      <4> QED
        BY <4>1
    <3> QED
      BY <3>1, <3>2, <3>3
  <2>4. f = [i \in 0..(n + 1) |-> Now(f, i)]
    BY <2>3
  <2>5. Has(n + 1)
    <3> HIDE DEF Now, f
    <3> QED
      BY <2>4, Zenon
  <2> HIDE DEF Has
  <2> QED
    BY <2>5
<1>3. Len(bytes) \in S
  <2> HIDE DEF S
  <2>1. 0..Len(bytes) \subseteq S
    BY <1>1, <1>2, UpTo
  <2> QED
    BY <2>1
<1>4. PICK g : g = [i \in 0..Len(bytes) |-> Now(g, i)]
  BY <1>3
<1>5. Decoding(d, bytes, room) = CHOOSE f : f = [i \in 0..Len(bytes) |-> Now(f, i)]
  BY DEF Decoding
<1>6. Decoding(d, bytes, room) = [i \in 0..Len(bytes) |-> Now(Decoding(d, bytes, room), i)]
  BY <1>4, <1>5, Zenon
<1> QED
  BY <1>6

\* After i bytes behind the first k: all of them have been taken unless decoding
\* is over or has stopped, and what came out are the data among those taken.
Along(m, d, k, so, i) ==
    /\ so = [d |-> so.d, out |-> so.out, consumed |-> so.consumed, stop |-> so.stop]
    /\ so.consumed \in 0..i
    /\ so.stop \/ so.d.state \in {"done", "failed"} \/ so.consumed = i
    /\ so.d.state # "failed" =>
         /\ InStep(m, so.d, k + so.consumed)
         /\ so.d.body = d.body + Len(so.out) /\ DataFrom(so.out, d.body)
         /\ so.d.state = "done" => d.state = "done" \/ ~m.closing

\* Datum(i) is a byte, and a further one comes behind those from the (n+1)-th on.
LEMMA DataAppend ==
  ASSUME NEW out, NEW n \in Nat, DataFrom(out, n), NEW b \in Bytes, b = Datum(n + Len(out) + 1)
  PROVE  DataFrom(Append(out, b), n) /\ Len(Append(out, b)) = Len(out) + 1 /\ Len(out) \in Nat
<1>1. out \in Seq(Bytes) /\ Len(out) \in Nat /\ \A j \in 1..Len(out) : out[j] = Datum(n + j)
  BY LenProperties DEF DataFrom
<1>2. /\ Append(out, b) \in Seq(Bytes) /\ Len(Append(out, b)) = Len(out) + 1
      /\ \A j \in 1..Len(out) : Append(out, b)[j] = out[j]
      /\ Append(out, b)[Len(out) + 1] = b
  BY <1>1, AppendProperties
<1>3. ASSUME NEW j \in 1..(Len(out) + 1) PROVE Append(out, b)[j] = Datum(n + j)
  <2>1. CASE j = Len(out) + 1
    <3>1. n + j = n + Len(out) + 1
      BY <1>1, <2>1
    <3> QED
      BY <1>2, <2>1, <3>1
  <2>2. CASE j \in 1..Len(out)
    BY <1>1, <1>2, <2>2
  <2> QED
    BY <1>1, <2>1, <2>2
<1> QED
  BY <1>1, <1>2, <1>3 DEF DataFrom

LEMMA TakenKeepsStep ==
  ASSUME NEW m \in Messages, NEW d, d.body \in Nat, NEW k \in Nat, NEW i \in Nat, k + i + 1 <= Len(m.wire),
         NEW so, Along(m, d, k, so, i), NEW room, NEW e, e = Taken(so, m.wire[k + (i + 1)], i + 1, room)
  PROVE  Along(m, d, k, e, i + 1)
<1> DEFINE b == m.wire[k + (i + 1)]
<1>1. /\ so.consumed \in 0..i /\ i + 1 \in Nat /\ Len(m.wire) \in Nat
      /\ k + i \in 0..(Len(m.wire) - 1) /\ (k + i) + 1 = k + (i + 1) /\ b \in Bytes
  BY WireType DEF Along
<1>2. CASE so.stop \/ so.d.state \in {"done", "failed"}
  <2>1. e = so
    BY <1>2 DEF Taken
  <2> QED
    BY <1>1, <1>2, <2>1, SMTT(30) DEF Along
<1>3. CASE ~(so.stop \/ so.d.state \in {"done", "failed"})
  <2>1. /\ so.consumed = i /\ InStep(m, so.d, k + i)
        /\ so.d.body = d.body + Len(so.out) /\ DataFrom(so.out, d.body)
    BY <1>1, <1>3 DEF Along
  <2>2. CASE ~InBody(so.d)
    <3> DEFINE f == MetadataByte(so.d, b)
    <3>1. e = [d |-> f, out |-> so.out, consumed |-> i + 1, stop |-> Stops(so.d, b)]
      BY <1>3, <2>2 DEF Taken
    <3>2. ASSUME f.state # "failed"
          PROVE  InStep(m, f, (k + i) + 1) /\ f.body = so.d.body /\ (f.state = "done" => ~m.closing)
      <4>1. so.d.state \in {"head", "size", "data_cr", "data_lf", "trailers"}
        BY <1>3, <2>1, <2>2 DEF InStep, Decoders, InBody, States
      <4>2. f = MetadataByte(so.d, m.wire[(k + i) + 1])
        BY <1>1
      <4> HIDE DEF f
      <4> QED
        BY <1>1, <2>1, <3>2, <4>1, <4>2, HeadKeepsStep, SyntaxKeepsStep, SMTT(30)
    <3> HIDE DEF f
    <3>3. /\ e = [d |-> e.d, out |-> e.out, consumed |-> e.consumed, stop |-> e.stop]
          /\ e.d = f /\ e.out = so.out /\ e.consumed = i + 1
      BY <3>1
    <3> QED
      BY <1>1, <2>1, <3>2, <3>3, SMTT(30) DEF Along
  <2>3. CASE InBody(so.d) /\ Len(so.out) = room /\ ~TooLong(so.d)
    <3>1. e = [so EXCEPT !.stop = TRUE]
      BY <1>3, <2>3 DEF Taken
    <3>2. e = [d |-> so.d, out |-> so.out, consumed |-> so.consumed, stop |-> TRUE]
      BY <3>1 DEF Along
    <3> QED
      BY <1>1, <1>3, <2>1, <3>2 DEF Along
  <2>4. CASE InBody(so.d) /\ ~(Len(so.out) = room /\ ~TooLong(so.d))
    <3> DEFINE f == BodyByte(so.d)
    <3>1. e = [d |-> f, out |-> Append(so.out, b), consumed |-> i + 1, stop |-> FALSE]
      BY <1>3, <2>4 DEF Taken
    <3>2. ASSUME f.state # "failed"
          PROVE  /\ InStep(m, f, (k + i) + 1) /\ f.body = so.d.body + 1 /\ b = Datum(so.d.body + 1)
                 /\ f.state = "done" => ~m.closing
      <4> HIDE DEF b
      <4>1. f = BodyByte(so.d) /\ b = m.wire[(k + i) + 1]
        BY <1>1 DEF b
      <4> HIDE DEF f
      <4> QED
        BY <1>1, <2>1, <2>4, <3>2, <4>1, BodyKeepsStep
    <3> HIDE DEF f
    <3>3. /\ e = [d |-> e.d, out |-> e.out, consumed |-> e.consumed, stop |-> e.stop]
          /\ e.d = f /\ e.out = Append(so.out, b) /\ e.consumed = i + 1
      BY <3>1
    <3>4. ASSUME f.state # "failed" PROVE DataFrom(e.out, d.body) /\ f.body = d.body + Len(e.out)
      <4>1. Len(so.out) \in Nat
        BY <2>1, LenProperties DEF DataFrom
      <4>2. so.d.body + 1 = d.body + Len(so.out) + 1
        BY <2>1, <4>1
      <4>5. d.body + Len(so.out) + 1 = d.body + (Len(so.out) + 1)
        BY <4>1
      <4>3. b = Datum(d.body + Len(so.out) + 1)
        BY <3>2, <3>4, <4>2
      <4> HIDE DEF b
      <4>4. DataFrom(Append(so.out, b), d.body) /\ Len(Append(so.out, b)) = Len(so.out) + 1
        BY <1>1, <2>1, <4>3, DataAppend
      <4> QED
        BY <3>2, <3>3, <3>4, <4>2, <4>4, <4>5
    <3> QED
      BY <1>1, <3>2, <3>3, <3>4, SMTT(30) DEF Along
  <2> QED
    BY <2>2, <2>3, <2>4
<1> QED
  BY <1>2, <1>3

\* Decoding any piece keeps the decoder in step.
LEMMA DecodingKeepsStep ==
  ASSUME NEW m \in Messages, NEW d, NEW k, InStep(m, d, k), NEW bytes \in Seq(Bytes), k + Len(bytes) <= Len(m.wire),
         \A j \in 1..Len(bytes) : bytes[j] = m.wire[k + j], NEW room
  PROVE  Along(m, d, k, consume(d, bytes, room), Len(bytes))
<1> DEFINE so(i) == Decoding(d, bytes, room)[i]
           S == {i \in 0..Len(bytes) : Along(m, d, k, so(i), i)}
<1>1. /\ Len(bytes) \in Nat /\ k \in Nat /\ Len(m.wire) \in Nat /\ d.body \in Nat /\ d.state # "failed"
  BY LenProperties, WireType DEF InStep, Decoders
<1>2. \A i \in 0..Len(bytes) :
         so(i) = IF i = 0 THEN Started(d) ELSE Taken(so(i - 1), bytes[i], i, room)
  BY <1>1, DecodingIs
<1> HIDE DEF so
<1>3. 0 \in S
  <2>1. so(0) = [d |-> d, out |-> <<>>, consumed |-> 0, stop |-> FALSE]
    BY <1>1, <1>2 DEF Started
  <2>2. /\ so(0) = [d |-> so(0).d, out |-> so(0).out, consumed |-> so(0).consumed, stop |-> so(0).stop]
        /\ so(0).d = d /\ so(0).out = <<>> /\ so(0).consumed = 0
    BY <2>1
  <2>3. DataFrom(<<>>, d.body) /\ d.body + Len(<<>>) = d.body
    BY <1>1 DEF DataFrom
  <2>4. InStep(m, d, k + 0)
    BY <1>1
  <2>5. Along(m, d, k, so(0), 0)
    BY <1>1, <2>2, <2>3, <2>4 DEF Along
  <2> QED
    BY <1>1, <2>5
<1>4. ASSUME NEW i \in 0..(Len(bytes) - 1), i \in S PROVE i + 1 \in S
  <2>1. /\ i \in Nat /\ i + 1 \in 0..Len(bytes) /\ i + 1 \in 1..Len(bytes) /\ (i + 1) - 1 = i /\ i + 1 # 0
        /\ k + i + 1 <= Len(m.wire)
    BY <1>1
  <2>2. so(i + 1) = Taken(so(i), m.wire[k + (i + 1)], i + 1, room)
    BY <1>2, <2>1
  <2>3. Along(m, d, k, so(i + 1), i + 1)
    BY <1>1, <1>4, <2>1, <2>2, TakenKeepsStep
  <2> QED
    BY <2>1, <2>3
<1>5. Len(bytes) \in S
  <2> HIDE DEF S
  <2>1. 0..Len(bytes) \subseteq S
    BY <1>1, <1>3, <1>4, UpTo
  <2> QED
    BY <1>1, <2>1
<1> QED
  BY <1>5 DEF consume, so

\* The bytes behind the first k, and what feed has made of them and of the end.
NextBytes(m, k, bytes) ==
    /\ bytes \in Seq(Bytes) /\ k + Len(bytes) <= Len(m.wire)
    /\ \A j \in 1..Len(bytes) : bytes[j] = m.wire[k + j]

FedInStep(m, d, k, bytes, end, fed) ==
    /\ fed.complete <=> fed.decoder.state = "done"
    /\ fed.consumed \in 0..Len(bytes)
    /\ fed.decoder.state # "failed" =>
         /\ InStep(m, fed.decoder, k + fed.consumed)
         /\ fed.decoder.body = d.body + Len(fed.out) /\ DataFrom(fed.out, d.body)
         /\ fed.complete /\ m.closing => end /\ fed.consumed = Len(bytes)

LEMMA FeedKeepsStep ==
  ASSUME NEW m \in Messages, NEW d, NEW k, InStep(m, d, k), d.state # "done",
         NEW bytes, NextBytes(m, k, bytes), NEW room, NEW end \in BOOLEAN
  PROVE  FedInStep(m, d, k, bytes, end, feed(d, bytes, end, room))
<1> DEFINE fed == feed(d, bytes, end, room)
<1> DEFINE did == consume(d, bytes, room)
           over == end /\ did.consumed = Len(bytes)
           e == IF over /\ did.d.state = "close" THEN [did.d EXCEPT !.state = "done"]
                ELSE IF over /\ did.d.state # "done" THEN Failed(did.d)
                ELSE did.d
<1>1. Along(m, d, k, did, Len(bytes))
  BY DecodingKeepsStep DEF NextBytes
<1>2. d.state # "failed"
  BY DEF InStep
<1>3. fed = [decoder |-> e, out |-> did.out, consumed |-> did.consumed,
             complete |-> e.state = "done", head_ready |-> e.code >= 200]
  BY <1>2 DEF feed
<1> HIDE DEF did
<1>4. over \in BOOLEAN /\ did.consumed \in 0..Len(bytes)
  BY <1>1 DEF Along
<1>5. ASSUME did.d.state = "failed" PROVE e.state = "failed"
  <2>1. e = did.d \/ e = Failed(did.d)
    BY <1>5
  <2>2. Failed(did.d).state = "failed" 
    BY <1>5 DEF Failed
  <2> QED
    BY <1>5, <2>1, <2>2
<1>6. ASSUME did.d.state # "failed", e.state # "failed"
      PROVE  /\ InStep(m, e, k + did.consumed)
             /\ e.body = d.body + Len(did.out) /\ DataFrom(did.out, d.body)
             /\ e.state = "done" /\ m.closing => end /\ did.consumed = Len(bytes)
  <2>1. /\ InStep(m, did.d, k + did.consumed)
        /\ did.d.body = d.body + Len(did.out) /\ DataFrom(did.out, d.body)
        /\ did.d.state = "done" => ~m.closing
    BY <1>1, <1>6 DEF Along
  <2>2. did.d \in Decoders /\ m.closing \in BOOLEAN
    BY <2>1, WireType DEF InStep
  <2>3. CASE over /\ did.d.state = "close"
    <3>1. e = [did.d EXCEPT !.state = "done"]
      BY <2>3
    <3> HIDE DEF e
    <3>2. e \in Decoders /\ e.body = did.d.body /\ e.state = "done"
      BY <2>2, <3>1 DEF Decoders, States
    <3>3. PICK h \in 1..(k + did.consumed) :
             /\ IsFirstFinal(m.wire, h) /\ Framed(m, h) /\ m.wire[h].what = "close"
      BY <2>1, <2>3, BehindHead
    <3>4. m.closing
      BY <3>3 DEF Framed
    <3>5. Behind(m, e, k + did.consumed, h)
      BY <3>2, <3>3 DEF Behind
    <3>6. InStep(m, e, k + did.consumed)
      BY <2>1, <3>2, <3>3, <3>4, <3>5 DEF InStep
    <3> QED
      BY <2>1, <2>3, <3>2, <3>6
  <2>4. CASE over /\ did.d.state \notin {"close", "done"}
    <3>1. e = Failed(did.d)
      BY <2>4
    <3>2. e.state = "failed"
      BY <2>2, <3>1 DEF Failed, Decoders
    <3> QED
      BY <1>6, <3>2
  <2>5. CASE ~over \/ did.d.state = "done"
    <3>1. e = did.d
      BY <2>5
    <3>2. ~(e.state = "done" /\ m.closing)
      BY <2>1, <2>2, <3>1
    <3> QED
      BY <2>1, <3>1, <3>2
  <2> QED
    BY <1>4, <2>3, <2>4, <2>5
<1> HIDE DEF e, fed
<1>7. /\ fed.decoder = e /\ fed.out = did.out /\ fed.consumed = did.consumed
      /\ fed.complete <=> e.state = "done"
  <2>1. fed.decoder = e /\ fed.out = did.out /\ fed.consumed = did.consumed
    BY <1>3
  <2>2. fed.complete = (e.state = "done")
    <3> DEFINE c == e.state = "done"
               r == e.code >= 200
    <3>1. fed = [decoder |-> e, out |-> did.out, consumed |-> did.consumed, complete |-> c, head_ready |-> r]
      BY <1>3, Zenon
    <3> HIDE DEF c, r
    <3>2. fed.complete = c
      BY <3>1
    <3> QED
      BY <3>2 DEF c
  <2> QED
    BY <2>1, <2>2
<1>8. FedInStep(m, d, k, bytes, end, fed)
  BY <1>4, <1>5, <1>6, <1>7 DEF FedInStep
<1> QED
  BY <1>8 DEF fed

-----------------------------------------------------------------------------
(* The response, from the socket to the application.                       *)

\* A piece of a sequence of bytes.
LEMMA PieceIs ==
  ASSUME NEW s \in Seq(Bytes), NEW a \in Nat, NEW b \in a..Len(s)
  PROVE  /\ SubSeq(s, a + 1, b) \in Seq(Bytes) /\ Len(SubSeq(s, a + 1, b)) = b - a
         /\ \A j \in 1..(b - a) : SubSeq(s, a + 1, b)[j] = s[a + j]
<1>1. /\ Len(s) \in Nat /\ b \in Nat /\ a + 1 \in Int /\ b \in Int /\ b - (a + 1) + 1 = b - a
      /\ a + 1 <= b <=> b - a # 0
  BY LenProperties
<1>2. \A i \in (a + 1)..b : s[i] \in Bytes
  BY <1>1, ElementOfSeq
<1>3. /\ SubSeq(s, a + 1, b) \in Seq(Bytes)
      /\ Len(SubSeq(s, a + 1, b)) = IF a + 1 <= b THEN b - (a + 1) + 1 ELSE 0
      /\ \A i \in 1..(b - (a + 1) + 1) : SubSeq(s, a + 1, b)[i] = s[(a + 1) + i - 1]
  BY <1>1, <1>2, SubSeqProperties
<1>4. \A i \in 1..(b - a) : (a + 1) + i - 1 = a + i
  BY <1>1
<1> QED
  BY <1>1, <1>3, <1>4

\* What a call that decodes nothing may do.
Undecoded ==
    /\ UNCHANGED <<message, arrived, ended, taken, delivered, decoder, receive, receiveOffset, eof, complete>>
    /\ \/ phase' \in {"failed", "cancelled"}
       \/ phase' = "done" /\ phase = "done"
       \/ phase' \notin Terminal /\ phase \notin Terminal /\ UNCHANGED <<body, bodyOffset>>

LEMMA UndecodedKeeps ==
  ASSUME BodyInv, Undecoded
  PROVE  BodyInv'
<1>1. ReceiveInv'
  BY DEF BodyInv, ReceiveInv, Undecoded
<1>2. DecodeInv'
  <2>1. CASE phase' \in Terminal
    BY <2>1 DEF DecodeInv
  <2>2. CASE phase' \notin Terminal
    <3>1. phase \notin Terminal /\ UNCHANGED <<body, bodyOffset>>
      BY <2>2 DEF Undecoded, Terminal
    <3>2. Position' = Position /\ AllTaken' = AllTaken
      BY DEF Undecoded, Position, AllTaken
    <3> QED
      BY <3>1, <3>2 DEF BodyInv, DecodeInv, Undecoded
  <2> QED
    BY <2>1, <2>2
<1> QED
  BY <1>1, <1>2 DEF BodyInv, Undecoded, Terminal

\* A call that decodes a piece and the rest of it, the bytes that follow those
\* decoded before.
LEMMA DecodeKeeps ==
  ASSUME BodyInv, phase \notin Terminal, ~complete, ~Unread, UNCHANGED <<wireVars, delivered>>,
         NEW bytes \in Seq(Bytes), NEW offset \in 0..Len(bytes), NEW end \in BOOLEAN,
         taken' \in 0..arrived, Len(bytes) <= taken', taken' - (Len(bytes) - offset) = Position,
         \A j \in 1..Len(bytes) : bytes[j] = message.wire[taken' - Len(bytes) + j],
         end => ended /\ taken' = arrived,
         decode(bytes, offset, end)
  PROVE  BodyInv'
<1> DEFINE rest == SubSeq(bytes, offset + 1, Len(bytes))
           fed == feed(decoder, rest, end, OutputRoom)
<1>1. /\ message \in Messages /\ Len(message.wire) \in Nat /\ Len(bytes) \in Nat /\ offset \in Nat
      /\ arrived \in 0..Len(message.wire) /\ ended \in BOOLEAN
      /\ UNCHANGED <<message, arrived, ended, delivered>>
  BY LenProperties, WireType DEF BodyInv, ReceiveInv, wireVars
<1>2. /\ rest \in Seq(Bytes) /\ Len(rest) = Len(bytes) - offset
      /\ \A j \in 1..(Len(bytes) - offset) : rest[j] = bytes[offset + j]
  BY <1>1, PieceIs
<1>3. /\ InStep(message, decoder, Position) /\ decoder.state # "done"
      /\ Len(delivered) + Len(body) - bodyOffset = decoder.body /\ bodyOffset \in 0..Len(body)
  BY DEF BodyInv, DecodeInv
<1>4. /\ fed.complete <=> fed.decoder.state = "done"
      /\ fed.consumed \in 0..Len(rest)
      /\ fed.decoder.state # "failed" =>
           /\ InStep(message, fed.decoder, Position + fed.consumed)
           /\ fed.decoder.body = decoder.body + Len(fed.out) /\ DataFrom(fed.out, decoder.body)
           /\ fed.complete /\ message.closing => end /\ fed.consumed = Len(rest)
  <2>1. Position + Len(rest) <= Len(message.wire)
    BY <1>1, <1>2
  <2>2. ASSUME NEW j \in 1..Len(rest) PROVE rest[j] = message.wire[Position + j]
    <3>1. offset + j \in 1..Len(bytes) /\ taken' - Len(bytes) + (offset + j) = Position + j
      BY <1>1, <1>2
    <3> QED
      BY <1>2, <3>1
  <2> HIDE DEF rest
  <2>3. NextBytes(message, Position, rest)
    BY <1>2, <2>1, <2>2 DEF NextBytes
  <2>4. FedInStep(message, decoder, Position, rest, end, fed)
    BY <1>1, <1>3, <2>3, FeedKeepsStep
  <2> HIDE DEF fed
  <2> QED
    BY <2>4 DEF FedInStep
<1>5. /\ decoder' = fed.decoder /\ receive' = bytes /\ eof' = end
      /\ fed.decoder.state = "failed" => phase' = "failed" /\ receiveOffset' = offset
      /\ fed.decoder.state # "failed" =>
           /\ receiveOffset' = offset + fed.consumed
           /\ body' = fed.out /\ bodyOffset' = 0 /\ complete' = fed.complete /\ phase' = phase
  BY DEF decode, Fail, Go, Rest, connVars
<1> HIDE DEF fed, rest
<1>6. receiveOffset' \in 0..Len(bytes)
  BY <1>1, <1>2, <1>4, <1>5, SMTT(30)
<1>7. ReceiveInv'
  BY <1>1, <1>5, <1>6 DEF ReceiveInv
<1>8. CASE fed.decoder.state = "failed"
  <2>1. phase' \in Terminal /\ phase' # "done"
    BY <1>5, <1>8 DEF Terminal
  <2> QED
    BY <1>1, <1>7, <2>1 DEF BodyInv, DecodeInv
<1>9. CASE fed.decoder.state # "failed"
  <2>1. Len(fed.out) \in Nat /\ Len(delivered) \in Nat /\ Len(body) \in Nat /\ decoder.body \in Nat
    <3>1. Len(fed.out) \in Nat
      BY <1>4, <1>9, LenProperties DEF DataFrom
    <3>2. Len(delivered) \in Nat /\ Len(body) \in Nat
      BY LenProperties DEF BodyInv, DecodeInv, DataFrom
    <3> QED
      BY <1>3, <3>1, <3>2 DEF InStep, Decoders
  <2>2. Len(delivered) = decoder.body
    BY <1>3, <2>1 DEF Unread
  <2>3. Position' = Position + fed.consumed
    BY <1>1, <1>2, <1>4, <1>5, <1>9, SMTT(30) DEF Position
  <2>4. complete' /\ message'.closing => AllTaken'
    <3>1. ASSUME complete', message'.closing PROVE AllTaken'
      <4>1. end /\ fed.consumed = Len(bytes) - offset
        BY <1>1, <1>2, <1>4, <1>5, <1>9, <3>1
      <4>2. ended' /\ taken' = arrived'
        BY <1>1, <4>1
      <4>3. Position' = taken'
        BY <1>1, <2>3, <4>1
      <4> QED
        BY <4>2, <4>3 DEF AllTaken
    <3> QED
      BY <3>1
  <2>5. Len(delivered') + Len(body') - bodyOffset' = decoder'.body /\ bodyOffset' \in 0..Len(body')
    BY <1>1, <1>4, <1>5, <1>9, <2>1, <2>2, SMTT(30)
  <2>6. DataFrom(body', decoder'.body - Len(body'))
    <3>1. decoder'.body - Len(body') = decoder.body
      BY <1>4, <1>5, <1>9, <2>1, SMTT(30)
    <3> QED
      BY <1>4, <1>5, <1>9, <3>1
  <2>7. InStep(message', decoder', Position')
    BY <1>1, <1>4, <1>5, <1>9, <2>3
  <2>8. complete' <=> decoder'.state = "done"
    BY <1>4, <1>5, <1>9
  <2>9. DecodeInv'
    BY <2>4, <2>5, <2>6, <2>7, <2>8 DEF DecodeInv
  <2>10. phase' # "done"
    BY <1>5, <1>9 DEF Terminal
  <2> QED
    BY <1>1, <1>7, <2>9, <2>10 DEF BodyInv
<1> QED
  BY <1>8, <1>9

\* A step of an exchange that is connected.
LEMMA ExchangingDecodes ==
  ASSUME BodyInv, ~complete, ~Unread, UNCHANGED <<wireVars, delivered>>, NEW r, Exchanging(r)
  PROVE  BodyInv'
<1>1. /\ phase = "exchange" /\ phase \notin Terminal
      /\ UNCHANGED <<message, arrived, ended, delivered>>
      /\ receive \in Seq(Bytes) /\ Len(receive) \in Nat /\ receiveOffset \in 0..Len(receive)
      /\ taken \in 0..arrived /\ arrived \in 0..Len(message.wire) /\ Len(receive) <= taken /\ eof \in BOOLEAN
      /\ ended \in BOOLEAN /\ (eof => ended /\ taken = arrived)
      /\ \A j \in 1..Len(receive) : receive[j] = message.wire[taken - Len(receive) + j]
      /\ message.wire \in Seq(Bytes) /\ Len(message.wire) \in Nat
  BY LenProperties, WireType DEF Exchanging, Terminal, wireVars, BodyInv, ReceiveInv
<1>2. ASSUME UNCHANGED <<downVars, taken>>, phase' = phase \/ phase' = "failed" PROVE BodyInv'
  BY <1>1, <1>2, UndecodedKeeps DEF Undecoded, downVars
<1>3. ASSUME NEW st, NEW w, Go(st, w) PROVE phase' = phase
  BY <1>3 DEF Go, connVars
<1>4. ASSUME NEW rw, NEW did, AfterRead(rw, did, r) PROVE phase' = phase \/ phase' = "failed"
  BY <1>3, <1>4 DEF AfterRead, Upload, WriteFails, Fail
<1>5. CASE receiveOffset < Len(receive) \/ eof
  <2>1. decode(receive, receiveOffset, eof) /\ taken' = taken
    BY <1>5 DEF Exchanging, DecodeRest
  <2>2. taken' - (Len(receive) - receiveOffset) = Position
    BY <2>1 DEF Position
  <2> QED
    BY <1>1, <2>1, <2>2, DecodeKeeps
<1>6. CASE ~(receiveOffset < Len(receive) \/ eof) /\ Resumes
  <2>1. ResumeWrite(r)
    BY <1>6 DEF Exchanging
  <2>2. UNCHANGED <<downVars, taken>> /\ (phase' = phase \/ phase' = "failed")
    BY <1>3, <2>1 DEF ResumeWrite, WriteFails, Fail
  <2> QED
    BY <1>2, <2>2
<1>7. CASE ~(receiveOffset < Len(receive) \/ eof) /\ ~Resumes /\ ~matches(readWait, r)
  BY <1>2, <1>4, <1>7 DEF Exchanging
<1>8. CASE ~(receiveOffset < Len(receive) \/ eof) /\ ~Resumes /\ matches(readWait, r)
  <2>1. Read(r)
    BY <1>8 DEF Exchanging
  <2>2. receiveOffset = Len(receive) /\ Position = taken
    BY <1>1, <1>8 DEF Position
  <2>3. CASE Fail /\ UNCHANGED <<downVars, taken>>
    BY <1>2, <2>3 DEF Fail
  <2>4. ASSUME NEW x \in Reads, taken' = taken + x.n, x.n > 0 \/ x.end,
               decode(SubSeq(message.wire, taken + 1, taken + x.n), 0, x.end)
        PROVE  BodyInv'
    <3> DEFINE bytes == SubSeq(message.wire, taken + 1, taken')
    <3>1. /\ x.n \in Nat /\ x.end \in BOOLEAN /\ taken + x.n <= arrived
          /\ x.end => ended /\ taken' = arrived
      <4>1. arrived - taken \in Int /\ ReceiveRoom \in Int
        BY <1>1, Sizes
      <4>2. Smaller(arrived - taken, ReceiveRoom) <= arrived - taken /\ Smaller(arrived - taken, ReceiveRoom) \in Int
        BY <4>1, SmallerIsLess
      <4>3. \/ \E n \in 1..Smaller(arrived - taken, ReceiveRoom) : x = [n |-> n, end |-> FALSE, wait |-> NONE]
            \/ x = [n |-> 0, end |-> TRUE, wait |-> NONE] /\ arrived - taken = 0 /\ ended
            \/ \E w : x = [n |-> 0, end |-> FALSE, wait |-> w]
        BY <2>4 DEF Reads
      <4> DEFINE M == Smaller(arrived - taken, ReceiveRoom)
      <4>4. ASSUME NEW n \in 1..M, x = [n |-> n, end |-> FALSE, wait |-> NONE]
            PROVE  x.n \in Nat /\ x.end = FALSE /\ taken + x.n <= arrived
        <5>1. x.n = n /\ x.end = FALSE
          BY <4>4
        <5> HIDE DEF M
        <5> QED
          BY <1>1, <4>2, <4>4, <5>1 DEF M
      <4>5. ASSUME x = [n |-> 0, end |-> TRUE, wait |-> NONE], arrived - taken = 0, ended
            PROVE  x.n \in Nat /\ x.end = TRUE /\ taken + x.n <= arrived /\ taken + x.n = arrived
        <5>1. x.n = 0 /\ x.end = TRUE
          BY <4>5
        <5> QED
          BY <1>1, <4>5, <5>1
      <4>6. ASSUME NEW w, x = [n |-> 0, end |-> FALSE, wait |-> w]
            PROVE  x.n \in Nat /\ x.end = FALSE /\ taken + x.n <= arrived
        <5>1. x.n = 0 /\ x.end = FALSE
          BY <4>6
        <5> QED
          BY <1>1, <5>1
      <4> HIDE DEF M
      <4>7. \/ \E n \in 1..M : x = [n |-> n, end |-> FALSE, wait |-> NONE]
            \/ x = [n |-> 0, end |-> TRUE, wait |-> NONE] /\ arrived - taken = 0 /\ ended
            \/ \E w : x = [n |-> 0, end |-> FALSE, wait |-> w]
        BY <4>3 DEF M
      <4>8. taken' = taken + x.n
        BY <2>4
      <4> QED
        BY <4>4, <4>5, <4>6, <4>7, <4>8
    <3>2. /\ taken \in Nat /\ taken' \in taken..Len(message.wire) /\ taken' \in 0..arrived
          /\ taken' - taken = x.n
      BY <1>1, <2>4, <3>1
    <3>3. /\ bytes \in Seq(Bytes) /\ Len(bytes) = x.n
          /\ \A j \in 1..x.n : bytes[j] = message.wire[taken + j]
      <4> DEFINE b == taken'
      <4>1. taken \in Nat /\ b \in taken..Len(message.wire) /\ b - taken = x.n /\ message.wire \in Seq(Bytes)
        BY <1>1, <3>2
      <4> HIDE DEF b
      <4>2. /\ SubSeq(message.wire, taken + 1, b) \in Seq(Bytes)
            /\ Len(SubSeq(message.wire, taken + 1, b)) = b - taken
            /\ \A j \in 1..(b - taken) : SubSeq(message.wire, taken + 1, b)[j] = message.wire[taken + j]
        BY <4>1, PieceIs
      <4> QED
        BY <4>1, <4>2 DEF b
    <3>4. decode(bytes, 0, x.end)
      BY <2>4
    <3> HIDE DEF bytes
    <3>5. /\ 0 \in 0..Len(bytes) /\ Len(bytes) <= taken' /\ taken' - (Len(bytes) - 0) = Position
          /\ taken' - Len(bytes) = taken
      <4>1. Len(bytes) = x.n /\ taken' - x.n = taken /\ x.n <= taken' /\ x.n \in Nat
        BY <3>1, <3>2, <3>3, SMTT(30)
      <4> QED
        BY <2>2, <3>2, <4>1
    <3>6. \A j \in 1..Len(bytes) : bytes[j] = message.wire[taken' - Len(bytes) + j]
      BY <3>3, <3>5
    <3> QED
      BY <1>1, <3>1, <3>2, <3>3, <3>4, <3>5, <3>6, DecodeKeeps
  <2>5. ASSUME NEW x \in Reads, taken' = taken + x.n, ~(x.n > 0 \/ x.end),
               receive' = <<>>, receiveOffset' = 0, eof' = FALSE,
               UNCHANGED <<decoder, headReady, complete, body, bodyOffset>>,
               AfterRead(x.wait, <<Reading>>, r)
        PROVE  BodyInv'
    <3>1. x.n = 0
      BY <2>5 DEF Reads
    <3>2. taken' = taken /\ (phase' = phase \/ phase' = "failed")
      BY <1>1, <1>4, <2>5, <3>1
    <3>3. <<>> \in Seq(Bytes) /\ Len(<<>>) = 0
      OBVIOUS
    <3>4. ReceiveInv'
      <4>1. receive' \in Seq(Bytes) /\ Len(receive') = 0
        BY <2>5, <3>3
      <4> QED
        <5>1. /\ message' \in Messages /\ arrived' \in 0..Len(message'.wire)
              /\ taken' \in 0..arrived' /\ ended' \in BOOLEAN
          BY <1>1, <3>2 DEF BodyInv, ReceiveInv
        <5>2. Len(receive') <= taken' /\ receiveOffset' \in 0..Len(receive') /\ eof' = FALSE
          BY <2>5, <4>1, <5>1, <1>1
        <5>3. 1..Len(receive') = {}
          BY <4>1
        <5> QED
          BY <4>1, <5>1, <5>2, <5>3 DEF ReceiveInv
    <3>5. Position' = Position
      BY <1>1, <2>2, <2>5, <3>2, <3>3 DEF Position
    <3>6. DecodeInv'
      BY <1>1, <2>5, <3>2, <3>5 DEF BodyInv, DecodeInv
    <3> QED
      BY <1>1, <3>2, <3>4, <3>6 DEF BodyInv
  <2> QED
    BY <2>1, <2>3, <2>4, <2>5 DEF Read
<1> QED
  BY <1>5, <1>6, <1>7, <1>8

\* A call of step.
LEMMA StepDecodes ==
  ASSUME BodyInv, NEW r, step(r)
  PROVE  BodyInv'
<1>1. UNCHANGED <<wireVars, delivered>> /\ UNCHANGED <<message, arrived, ended, delivered>>
  BY DEF step, wireVars
<1>2. ASSUME UNCHANGED <<downVars, taken>>,
             \/ phase' \in {"failed", "cancelled"}
             \/ phase' = "done" /\ phase = "done"
             \/ phase' \notin Terminal /\ phase \notin Terminal
      PROVE  BodyInv'
  BY <1>1, <1>2, UndecodedKeeps DEF Undecoded, downVars
<1>3. ASSUME Quiet PROVE UNCHANGED <<downVars, taken>>
  BY <1>3 DEF Quiet, ioVars
<1>4. CASE phase \in Terminal
  <2>1. Quiet /\ phase' = IF phase = "cancelled" THEN "failed" ELSE phase
    BY <1>4 DEF step, Over
  <2> QED
    BY <1>2, <1>3, <1>4, <2>1 DEF Terminal
<1>5. CASE phase \notin Terminal
  <2>1. advance(r)
    BY <1>5 DEF step
  <2>2. ASSUME NEW st, NEW w, Go(st, w) PROVE phase' = phase
    BY <2>2 DEF Go, connVars
  <2>3. CASE Quiet /\ (Fail \/ phase' = phase)
    BY <1>2, <1>3, <1>5, <2>3 DEF Fail
  <2>4. CASE Connect \/ FinishConnect(r) \/ TlsSetup \/ Handshake(r)
    <3>1. UNCHANGED <<downVars, taken>>
      BY <1>3, <2>4 DEF Connect, FinishConnect, TlsSetup, Handshake, ioVars
    <3>2. phase' \in {"failed", "tls_setup", "connecting", "exchange", "handshake", phase}
      BY <2>2, <2>4 DEF Connect, FinishConnect, TlsSetup, Handshake, Fail
    <3> QED
      BY <1>2, <1>5, <3>1, <3>2 DEF Terminal
  <2>5. CASE complete /\ ~Unread /\ Quiet /\ phase' = "done"
    <3>1. UNCHANGED <<taken, decoder, receive, receiveOffset, eof>>
      BY <1>3, <2>5 DEF downVars
    <3>2. ReceiveInv'
      BY <1>1, <3>1 DEF BodyInv, ReceiveInv
    <3>3. /\ InStep(message, decoder, Position) /\ decoder.state = "done"
          /\ message.closing => AllTaken
          /\ bodyOffset \in 0..Len(body) /\ Len(delivered) + Len(body) - bodyOffset = decoder.body
      BY <1>5, <2>5 DEF BodyInv, DecodeInv
    <3>4. Len(delivered) \in Nat /\ Len(body) \in Nat
      BY <1>5, LenProperties DEF BodyInv, DecodeInv, DataFrom
    <3>5. Len(delivered) = decoder.body
      <4>1. bodyOffset = Len(body)
        BY <2>5, <3>3, <3>4 DEF Unread
      <4>2. decoder.body \in Nat
        BY <3>3 DEF InStep, Decoders
      <4> QED
        BY <3>3, <3>4, <4>1, <4>2
    <3>6. ASSUME message.closing PROVE ended /\ decoder.body = Cardinality(DataIn(message.wire, arrived))
      BY <3>3, <3>6 DEF InStep, AllTaken
    <3>7. ~message.closing => decoder.body = message.body
      BY <3>3 DEF InStep
    <3>8. DecodeInv'
      BY <2>5 DEF DecodeInv, Terminal
    <3> QED
      BY <1>1, <3>2, <3>5, <3>6, <3>7, <3>8 DEF BodyInv
  <2>6. CASE ~complete /\ ~Unread /\ Exchanging(r)
    BY <1>1, <2>6, ExchangingDecodes
  <2> QED
    BY <2>1, <2>2, <2>3, <2>4, <2>5, <2>6 DEF advance, Finish
<1> QED
  BY <1>4, <1>5

\* The application is handed the next of the data.
LEMMA ConsumeDelivers ==
  ASSUME BodyInv, NEW n, consume_output(n)
  PROVE  BodyInv'
<1> DEFINE part == SubSeq(body, bodyOffset + 1, bodyOffset + n)
<1>1. /\ phase = "exchange" /\ n \in 1..(Len(body) - bodyOffset)
      /\ bodyOffset' = bodyOffset + n /\ delivered' = delivered \o part
      /\ UNCHANGED <<phase, decoder, receive, receiveOffset, eof, complete, body, message, arrived, ended, taken>>
  BY DEF consume_output, connVars, wireVars, ioVars
<1>2. ReceiveInv'
  BY <1>1 DEF BodyInv, ReceiveInv
<1>3. /\ InStep(message, decoder, Position)
      /\ bodyOffset \in 0..Len(body) /\ Len(delivered) + Len(body) - bodyOffset = decoder.body
      /\ body \in Seq(Bytes) /\ \A j \in 1..Len(body) : body[j] = Datum(decoder.body - Len(body) + j)
      /\ delivered \in Seq(Bytes) /\ \A j \in 1..Len(delivered) : delivered[j] = Datum(0 + j)
  BY <1>1 DEF BodyInv, DecodeInv, DataFrom, Terminal
<1>4. /\ Len(body) \in Nat /\ Len(delivered) \in Nat /\ decoder.body \in Nat
      /\ n \in Nat /\ bodyOffset \in Nat /\ bodyOffset + n \in bodyOffset..Len(body)
      /\ (bodyOffset + n) - bodyOffset = n
  BY <1>1, <1>3, LenProperties DEF InStep, Decoders
<1>5. /\ part \in Seq(Bytes) /\ Len(part) = n
      /\ \A j \in 1..n : part[j] = body[bodyOffset + j]
  <2> DEFINE b == bodyOffset + n
  <2>1. b \in bodyOffset..Len(body) /\ b - bodyOffset = n
    BY <1>4
  <2> HIDE DEF b
  <2>2. /\ SubSeq(body, bodyOffset + 1, b) \in Seq(Bytes) /\ Len(SubSeq(body, bodyOffset + 1, b)) = b - bodyOffset
        /\ \A j \in 1..(b - bodyOffset) : SubSeq(body, bodyOffset + 1, b)[j] = body[bodyOffset + j]
    BY <1>3, <1>4, <2>1, PieceIs
  <2> QED
    BY <2>1, <2>2 DEF b
<1> HIDE DEF part
<1>6. /\ delivered' \in Seq(Bytes) /\ Len(delivered') = Len(delivered) + n
      /\ \A i \in 1..(Len(delivered) + n) :
           delivered'[i] = IF i <= Len(delivered) THEN delivered[i] ELSE part[i - Len(delivered)]
  <2>1. /\ delivered \o part \in Seq(Bytes) /\ Len(delivered \o part) = Len(delivered) + Len(part)
        /\ \A i \in 1..(Len(delivered) + Len(part)) :
             (delivered \o part)[i] = IF i <= Len(delivered) THEN delivered[i] ELSE part[i - Len(delivered)]
    BY <1>3, <1>5, ConcatProperties
  <2>2. delivered' = delivered \o part /\ Len(part) = n
    BY <1>1, <1>5
  <2> QED
    BY <2>1, <2>2
<1>7. DataFrom(delivered', 0)
  <2>1. ASSUME NEW i \in 1..(Len(delivered) + n) PROVE delivered'[i] = Datum(0 + i)
    <3>1. CASE i <= Len(delivered)
      <4>1. i \in 1..Len(delivered)
        BY <1>4, <3>1
      <4> QED
        BY <1>3, <1>6, <3>1, <4>1
    <3>2. CASE i > Len(delivered)
      <4>1. /\ i - Len(delivered) \in 1..n /\ bodyOffset + (i - Len(delivered)) \in 1..Len(body)
            /\ decoder.body - Len(body) + (bodyOffset + (i - Len(delivered))) = 0 + i
        <5> DEFINE B == Len(body)
                   D == Len(delivered)
                   T == decoder.body
        <5>1. B \in Nat /\ D \in Nat /\ T \in Nat /\ D + B - bodyOffset = T /\ i \in (D + 1)..(D + n)
              /\ n \in Nat /\ bodyOffset \in Nat /\ bodyOffset + n <= B
          BY <1>3, <1>4, <3>2
        <5> HIDE DEF B, D, T
        <5>2. i - D \in 1..n /\ bodyOffset + (i - D) \in 1..B /\ T - B + (bodyOffset + (i - D)) = 0 + i
          BY <5>1
        <5> QED
          BY <5>2 DEF B, D, T
      <4>2. delivered'[i] = body[bodyOffset + (i - Len(delivered))]
        <5>1. part[i - Len(delivered)] = body[bodyOffset + (i - Len(delivered))]
          BY <1>5, <4>1
        <5>2. ~(i <= Len(delivered))
          BY <1>4, <3>2
        <5> QED
          BY <1>6, <5>1, <5>2
      <4> QED
        BY <1>3, <4>1, <4>2
    <3> QED
      BY <1>4, <3>1, <3>2
  <2> QED
    BY <1>6, <2>1 DEF DataFrom
<1>8. Len(delivered') + Len(body') - bodyOffset' = decoder'.body /\ bodyOffset' \in 0..Len(body')
  BY <1>1, <1>3, <1>4, <1>6
<1>9. Len(delivered') <= BodyLimit
  <2>1. decoder.body <= BodyLimit /\ Len(delivered') <= decoder.body
    BY <1>1, <1>3, <1>4, <1>6 DEF InStep
  <2> QED
    BY <1>4, <1>6, <2>1, Limits
<1>10. Position' = Position /\ AllTaken' = AllTaken
  BY <1>1 DEF Position, AllTaken
<1>11. DecodeInv'
  BY <1>1, <1>8, <1>10 DEF BodyInv, DecodeInv, Terminal
<1> QED
  BY <1>1, <1>2, <1>7, <1>9, <1>11 DEF BodyInv

\* Every other call and step.
LEMMA OthersDecodeNothing ==
  ASSUME BodyInv,
         \/ \E n : supply(n)
         \/ cancel \/ finish_input \/ Server \/ Expire
  PROVE  BodyInv'
<1>1. CASE cancel
  <2>1. Undecoded
    BY <1>1 DEF cancel, Undecoded, wireVars, ioVars
  <2> QED
    BY <2>1, UndecodedKeeps
<1>2. CASE (\E n : supply(n)) \/ Establish \/ Accept \/ Expire
  <2>1. UNCHANGED <<connVars, downVars, message, arrived, ended, taken, delivered>>
    BY <1>2 DEF supply, Establish, Accept, Expire, wireVars, ioVars
  <2> QED
    BY <2>1 DEF BodyInv, ReceiveInv, DecodeInv, Position, AllTaken, connVars, downVars
<1>3. CASE Answer
  <2>1. /\ phase = "exchange" /\ ~ended /\ arrived < Len(message.wire) /\ arrived' = arrived + 1
        /\ UNCHANGED <<connVars, downVars, message, ended, taken, delivered>>
    BY <1>3 DEF Answer, ioVars
  <2>2. ReceiveInv'
    BY <2>1, WireType DEF BodyInv, ReceiveInv, downVars
  <2>3. DecodeInv'
    BY <2>1 DEF BodyInv, DecodeInv, Position, AllTaken, connVars, downVars
  <2> QED
    BY <2>1, <2>2, <2>3 DEF BodyInv, connVars
<1>4. CASE End
  <2>1. /\ phase = "exchange" /\ ended' = TRUE
        /\ UNCHANGED <<connVars, downVars, message, arrived, taken, delivered>>
    BY <1>4 DEF End, ioVars
  <2>2. ReceiveInv'
    BY <2>1 DEF BodyInv, ReceiveInv, downVars
  <2>3. DecodeInv'
    BY <2>1 DEF BodyInv, DecodeInv, Position, AllTaken, connVars, downVars
  <2> QED
    BY <2>1, <2>2, <2>3 DEF BodyInv, connVars
<1> QED
  BY <1>1, <1>2, <1>3, <1>4 DEF Server, finish_input

-----------------------------------------------------------------------------
(* The specifications.                                                     *)

\* Any step of the exchange, of its application and of the other end.
Any ==
    \/ \E r : step(r)
    \/ \E n : supply(n) \/ consume_output(n)
    \/ cancel \/ finish_input \/ Server \/ Expire

\* Any step keeps the invariant, and is one the properties of steps allow.
LEMMA AnyKeeps ==
  ASSUME ExchangeInv, Any \/ UNCHANGED vars
  PROVE  /\ ExchangeInv'
         /\ UNCHANGED vars \/ (TakesInOrder /\ Retries /\ Releases)
<1>1. CASE UNCHANGED vars
  <2>1. UploadInv'
    BY <1>1 DEF ExchangeInv, UploadInv, Supplied, vars, upVars, ioVars, wireVars
  <2>2. PendingInv'
    BY <1>1 DEF ExchangeInv, PendingInv, vars, upVars, downVars, ioVars, waitVars
  <2>3. ClosedInv'
    BY <1>1 DEF ExchangeInv, ClosedInv, vars, connVars
  <2> QED
    BY <1>1, <2>1, <2>2, <2>3 DEF ExchangeInv
<1>2. CASE Any
  <2>1. UploadInv' /\ PendingInv' /\ TakesInOrder /\ Retries
    BY <1>2, StepKeeps, SupplyKeeps, OthersKeep DEF Any, ExchangeInv
  <2>2. ClosedInv' /\ Releases
    BY <1>2, StepReleases, OthersRelease DEF Any, ExchangeInv
  <2> QED
    BY <2>1, <2>2 DEF ExchangeInv
<1> QED
  BY <1>1, <1>2

\* Any step keeps what has been decoded in step with the response.
LEMMA AnyDecodes ==
  ASSUME BodyInv, Any \/ UNCHANGED vars
  PROVE  BodyInv'
<1>1. CASE UNCHANGED vars
  BY <1>1 DEF BodyInv, ReceiveInv, DecodeInv, Position, AllTaken, vars, connVars, downVars, wireVars, ioVars
<1>2. CASE Any
  BY <1>2, StepDecodes, ConsumeDelivers, OthersDecodeNothing DEF Any
<1> QED
  BY <1>1, <1>2

\* An exchange that is open has staged and sent nothing.
LEMMA InitExchange == Init => ExchangeInv
<1> SUFFICES ASSUME Init PROVE ExchangeInv
  OBVIOUS
<1>1. /\ <<>> \in Seq(Nat) /\ Len(<<>>) = 0
  OBVIOUS
<1>2. UploadInv
  BY <1>1, Sizes DEF Init, UploadInv, InOrder, Supplied, Follows
<1>3. PendingInv /\ ClosedInv
  BY DEF Init, PendingInv, Waits, ClosedInv, Terminal
<1> QED
  BY <1>2, <1>3 DEF ExchangeInv

\* Nothing has been received or delivered then.
LEMMA InitBody == Init => BodyInv
<1> SUFFICES ASSUME Init PROVE BodyInv
  OBVIOUS
<1>1. <<>> \in Seq(Bytes) /\ Len(<<>>) = 0 /\ message \in Messages /\ Len(message.wire) \in Nat
  BY WireType DEF Init
<1>0. /\ receive \in Seq(Bytes) /\ Len(receive) = 0
      /\ receiveOffset = 0 /\ taken = 0 /\ arrived = 0 /\ eof = FALSE /\ ended = FALSE
  BY <1>1 DEF Init
<1>2. ReceiveInv
  <2>1. 1..Len(receive) = {}
    BY <1>0
  <2>2. arrived \in 0..Len(message.wire) /\ taken \in 0..arrived
    BY <1>0, <1>1
  <2>3. receiveOffset \in 0..Len(receive) /\ Len(receive) <= taken
    BY <1>0
  <2>4. eof \in BOOLEAN /\ ended \in BOOLEAN /\ ~eof
    BY <1>0
  <2> QED
    BY <1>0, <1>1, <2>1, <2>2, <2>3, <2>4 DEF ReceiveInv
<1>3. Position = 0
  BY <1>0 DEF Position
<1>4. Cardinality(DataIn(message.wire, 0)) = 0
  <2>1. DataIn(message.wire, 0) = {}
    BY DEF DataIn
  <2> QED
    BY <2>1, FS_EmptySet
<1>5. create \in Decoders /\ create.body = 0 /\ create.state = "head"
  BY DEF create, Decoders, States
<1>6. InStep(message, decoder, Position)
  BY <1>1, <1>3, <1>4, <1>5, Limits DEF Init, InStep
<1>7. DataFrom(<<>>, 0)
  BY <1>1 DEF DataFrom
<1>8. /\ decoder = create /\ complete = FALSE /\ body = <<>> /\ bodyOffset = 0 /\ delivered = <<>>
      /\ phase = "connect"
  BY DEF Init
<1>9. DecodeInv
  BY <1>1, <1>5, <1>6, <1>7, <1>8 DEF DecodeInv
<1> QED
  BY <1>1, <1>2, <1>7, <1>8, <1>9, Limits DEF BodyInv

\* The calls of any application are calls of the exchange.
LEMMA ApplicationIsAny == Application => Any
  BY DEF Application, Any

\* So are the ones of the wrapper, which waits and changes nothing in between.
LEMMA RequestIsAny == [RequestNext]_allVars => Any \/ UNCHANGED vars
<1> SUFFICES ASSUME [RequestNext]_allVars PROVE Any \/ UNCHANGED vars
  OBVIOUS
<1>1. Client => Any \/ UNCHANGED vars
  BY DEF Client, Drive, TakeOutput, GiveInput, Wait, Cleanup, Any
<1>2. WaitFails => UNCHANGED vars
  BY DEF WaitFails
<1>3. Server \/ Expire => Any
  BY DEF Any
<1> QED
  BY <1>1, <1>2, <1>3, ApplicationIsAny DEF RequestNext, allVars

\* The invariant of the exchange, whatever application drives it.
THEOREM ExchangeInvariant == Spec => []ExchangeInv
<1>1. ExchangeInv /\ [Next]_vars => ExchangeInv'
  BY AnyKeeps, ApplicationIsAny DEF Next, Any
<1> QED
  BY <1>1, InitExchange, PTL DEF Spec

\* The invariant of the exchange, the wrapper request among its applications.
THEOREM RequestInvariant == RequestSpec => []ExchangeInv
<1>1. RequestInit => ExchangeInv
  BY InitExchange DEF RequestInit
<1>2. ExchangeInv /\ [RequestNext]_allVars => ExchangeInv'
  BY AnyKeeps, RequestIsAny
<1> QED
  BY <1>1, <1>2, PTL DEF RequestSpec

\* Exchange.step and supply: over any sequence of short writes, waits, retries
\* and supplies, with buffers and sockets of any size, the transport takes the
\* bytes of the head and the content in order, none twice and none left out,
\* and none once the final head of the response has been seen.
THEOREM UploadsAreInOrder == RequestSpec => UploadInOrder
<1>1. ExchangeInv /\ [RequestNext]_allVars => [TakesInOrder]_vars
  BY AnyKeeps, RequestIsAny
<1> QED
  BY <1>1, RequestInvariant, PTL DEF RequestSpec, UploadInOrder, TakesInOrder

\* Exchange.step: a TLS write that has to come again comes again with the same
\* bytes, and first if it waits to read.
THEOREM WritesComeAgain == RequestSpec => RetriesSameWrite
<1>1. ExchangeInv /\ [RequestNext]_allVars => [Retries]_vars
  BY AnyKeeps, RequestIsAny
<1> QED
  BY <1>1, RequestInvariant, PTL DEF RequestSpec, RetriesSameWrite, Retries

\* Exchange.step and cancel: an exchange that is over, by whichever way and
\* whatever failed, holds no socket and no session, and stays over.
THEOREM OverIsReleased == RequestSpec => Released
<1>1. ExchangeInv /\ [RequestNext]_allVars => [Releases]_vars
  BY AnyKeeps, RequestIsAny
<1> QED
  BY <1>1, RequestInvariant, PTL DEF RequestSpec, Released, Releases

\* ResponseDecoder.feed, Exchange.step and consume: whatever a server sends, in
\* whatever pieces it arrives, with buffers and limits of any size, the
\* application is handed the data of the response in order, none twice and none
\* left out, and an exchange is only complete with all of them.
THEOREM BodiesAreExact == RequestSpec => []BodyExact
<1>1. RequestInit => BodyInv
  BY InitBody DEF RequestInit
<1>2. BodyInv /\ [RequestNext]_allVars => BodyInv'
  BY AnyDecodes, RequestIsAny
<1>3. BodyInv => BodyExact
  <2> SUFFICES ASSUME BodyInv PROVE BodyExact
    OBVIOUS
  <2>1. delivered \in Seq(Bytes) /\ \A j \in 1..Len(delivered) : delivered[j] = Datum(0 + j)
    BY DEF BodyInv, DataFrom
  <2>2. \A i \in DOMAIN delivered : delivered[i] = Datum(i)
    <3>1. DOMAIN delivered = 1..Len(delivered) /\ Len(delivered) \in Nat
      BY <2>1, LenProperties
    <3>2. \A i \in 1..Len(delivered) : 0 + i = i
      BY <3>1
    <3> QED
      BY <2>1, <3>1, <3>2
  <2> QED
    BY <2>2 DEF BodyInv, BodyExact
<1> QED
  BY <1>1, <1>2, <1>3, PTL DEF RequestSpec

=============================================================================
