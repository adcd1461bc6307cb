----------------------- MODULE ChildCommunicateProofs -----------------------
(***************************************************************************)
(* Proofs about ChildCommunicate, for any capacity of the pipes, any       *)
(* input, any buffers and any number of writes.                            *)
(*                                                                         *)
(* CommunicateInv is the inductive invariant: every byte of an output is   *)
(* in the buffer or in the pipe (Accounted) and of the input in the pipe   *)
(* or with the child (InputAccounted), and a stream is closed only at its  *)
(* end (Drained), so that an outcome that only looks at what is closed     *)
(* (Outcome) says something of the bytes.                                  *)
(***************************************************************************)
EXTENDS ChildCommunicate, TLAPS

TypeOK ==
    /\ at \in {"clock", "input", "output", "errors", "poll", "wait", "cleanup", "done"}
    /\ open \in [Streams -> BOOLEAN] /\ holds \in [Streams -> BOOLEAN]
    /\ sent \in 0..Input /\ received \in [Outputs -> Nat] /\ wrote \in [Outputs -> Nat]
    /\ pipe \in [Streams -> 0..Capacity] /\ consumed \in Nat
    /\ finished \in BOOLEAN /\ expired \in BOOLEAN /\ sawEnd \in BOOLEAN
    /\ result \in {"none", "ok", "timeout", "limit", "failed", "cleanup"}
    /\ alive \in {"live", "zombie", "reaped"} /\ want \in Wants

\* The call has an outcome when pump is over; it is the child's only when pump
\* has seen the ends of both outputs and of the child.
Outcome ==
    /\ result = "none" <=> at \notin {"cleanup", "done"}
    /\ result = "ok" => finished /\ \A o \in Outputs : ~open[o]
    /\ finished => alive = "reaped"

\* What was written is in the buffer or in the pipe, but for the probe of an
\* excess, and never more in the buffer than there is room for.
Accounted ==
    \A o \in Outputs :
        /\ received[o] <= Room[o]
        /\ result \notin {"limit", "cleanup"} => received[o] + pipe[o] = wrote[o]

\* An output is closed only at its end.
Drained ==
    result \in {"none", "ok"} =>
        \A o \in Outputs : ~open[o] => pipe[o] = 0 /\ ~holds[o]

\* What was sent was consumed or is in the pipe, and the end of the input
\* follows all of it or nobody is left to read it.
InputAccounted ==
    /\ sent = consumed + pipe["input"]
    /\ ~open["input"] /\ result = "none" => sent = Input \/ ~holds["input"]
    /\ alive = "live" /\ want = "read" => holds["input"]

CommunicateInv ==
    /\ TypeOK /\ Outcome /\ Accounted /\ Drained /\ InputAccounted
    /\ CaptureExact /\ InputComplete

-----------------------------------------------------------------------------

\* Nothing has been sent, written or read.
LEMMA InitCommunicate == Init => CommunicateInv
<1> SUFFICES ASSUME Init PROVE CommunicateInv
  OBVIOUS
<1>1. TypeOK
  <2>1. /\ at \in {"clock", "input", "output", "errors", "poll", "wait", "cleanup", "done"}
        /\ result \in {"none", "ok", "timeout", "limit", "failed", "cleanup"}
    BY Sizes DEF Init, Streams, Outputs
  <2>2. open \in [Streams -> BOOLEAN]
    BY Sizes DEF Init, Streams, Outputs
  <2>3. holds \in [Streams -> BOOLEAN]
    BY Sizes DEF Init, Streams, Outputs
  <2>4. /\ sent \in 0..Input /\ received \in [Outputs -> Nat] /\ wrote \in [Outputs -> Nat]
        /\ consumed \in Nat
    BY Sizes DEF Init, Streams, Outputs
  <2>5. pipe \in [Streams -> 0..Capacity]
    BY Sizes DEF Init, Streams, Outputs
  <2>6. finished \in BOOLEAN /\ expired \in BOOLEAN /\ sawEnd \in BOOLEAN
    BY Sizes DEF Init, Streams, Outputs
  <2>7. alive \in {"live", "zombie", "reaped"} /\ want \in Wants
    BY DEF Init, Wants
  <2> QED
    BY <2>1, <2>2, <2>3, <2>4, <2>5, <2>6, <2>7 DEF TypeOK
<1>2. Outcome /\ Accounted /\ Drained
  BY Sizes DEF Init, Outcome, Accounted, Drained, Outputs, Streams
<1>3. InputAccounted /\ CaptureExact /\ InputComplete
  BY DEF Init, InputAccounted, CaptureExact, CapturesAll, LimitExact, InputComplete, Streams
<1> QED
  BY <1>1, <1>2, <1>3 DEF CommunicateInv

\* Steps of pump that move no byte.
LEMMA PumpStep == ASSUME CommunicateInv, Clock \/ Poll \/ Wait PROVE CommunicateInv'
<1> USE Sizes DEF CommunicateInv, TypeOK, Outputs, Streams, Finish, caller, program, Clock, Poll, Wait, OutOfTime, Complete
<1>1. TypeOK'
  <2>1. /\ at' \in {"clock", "input", "output", "errors", "poll", "wait", "cleanup", "done"}
        /\ result' \in {"none", "ok", "timeout", "limit", "failed", "cleanup"}
    OBVIOUS
  <2>2. open' \in [Streams -> BOOLEAN]
    OBVIOUS
  <2>3. holds' \in [Streams -> BOOLEAN]
    OBVIOUS
  <2>4. /\ sent' \in 0..Input /\ received' \in [Outputs -> Nat] /\ wrote' \in [Outputs -> Nat]
        /\ consumed' \in Nat
    OBVIOUS
  <2>5. pipe' \in [Streams -> 0..Capacity]
    OBVIOUS
  <2>6. finished' \in BOOLEAN /\ expired' \in BOOLEAN /\ sawEnd' \in BOOLEAN
    OBVIOUS
  <2>7. alive' \in {"live", "zombie", "reaped"} /\ want' \in Wants
    BY DEF Wants
  <2> QED
    BY <2>1, <2>2, <2>3, <2>4, <2>5, <2>6, <2>7
<1>2. Outcome'
  BY DEF Outcome
<1>3. Accounted'
  BY DEF Accounted, Outcome
<1>4. Drained'
  BY DEF Drained, Outcome
<1>5. InputAccounted'
  BY DEF InputAccounted, Outcome
<1>6. CaptureExact'
  BY DEF CaptureExact, CapturesAll, LimitExact, Outcome, Accounted, Drained
<1>7. InputComplete'
  BY DEF InputComplete, InputAccounted, Outcome
<1> QED
  BY <1>1, <1>2, <1>3, <1>4, <1>5, <1>6, <1>7

\* Bytes go to the child, and the end of the input after them.
LEMMA FeedStep == ASSUME CommunicateInv, FeedInput PROVE CommunicateInv'
<1> USE Sizes DEF CommunicateInv, TypeOK, Outputs, Streams, Finish, caller, program, FeedInput, InputDone, ChildEnd
<1>1. TypeOK'
  <2>1. /\ at' \in {"clock", "input", "output", "errors", "poll", "wait", "cleanup", "done"}
        /\ result' \in {"none", "ok", "timeout", "limit", "failed", "cleanup"}
    OBVIOUS
  <2>2. open' \in [Streams -> BOOLEAN]
    OBVIOUS
  <2>3. holds' \in [Streams -> BOOLEAN]
    OBVIOUS
  <2>4. /\ sent' \in 0..Input /\ received' \in [Outputs -> Nat] /\ wrote' \in [Outputs -> Nat]
        /\ consumed' \in Nat
    OBVIOUS
  <2>5. pipe' \in [Streams -> 0..Capacity]
    OBVIOUS
  <2>6. finished' \in BOOLEAN /\ expired' \in BOOLEAN /\ sawEnd' \in BOOLEAN
    OBVIOUS
  <2>7. alive' \in {"live", "zombie", "reaped"} /\ want' \in Wants
    BY DEF Wants
  <2> QED
    BY <2>1, <2>2, <2>3, <2>4, <2>5, <2>6, <2>7
<1>2. Outcome'
  BY DEF Outcome
<1>3. Accounted'
  BY DEF Accounted, Outcome
<1>4. Drained'
  BY DEF Drained, Outcome
<1>5. InputAccounted'
  BY DEF InputAccounted, Outcome
<1>6. CaptureExact'
  BY DEF CaptureExact, CapturesAll, LimitExact, Outcome, Accounted, Drained
<1>7. InputComplete'
  BY DEF InputComplete, InputAccounted, Outcome
<1> QED
  BY <1>1, <1>2, <1>3, <1>4, <1>5, <1>6, <1>7

\* Bytes of an output go to the buffer, or exceed it.
LEMMA ReadDataStep == ASSUME CommunicateInv, NEW o \in Outputs, ReadData(o) PROVE CommunicateInv'
<1> USE Sizes DEF CommunicateInv, TypeOK, Outputs, Streams, Finish, caller, program, ReadData, Storage, Exceeds, After
<1>1. TypeOK'
  BY DEF Wants
<1>2. Outcome'
  BY DEF Outcome
<1>3. Accounted'
  BY DEF Accounted, Outcome
<1>4. Drained'
  BY DEF Drained, Outcome
<1>5. InputAccounted'
  BY DEF InputAccounted, Outcome
<1>6. CaptureExact'
  BY DEF CaptureExact, CapturesAll, LimitExact, Outcome, Accounted, Drained
<1>7. InputComplete'
  BY DEF InputComplete, InputAccounted, Outcome
<1> QED
  BY <1>1, <1>2, <1>3, <1>4, <1>5, <1>6, <1>7

\* An output is at its end, or has nothing yet.
LEMMA ReadNothingStep == ASSUME CommunicateInv, NEW o \in Outputs, ReadNothing(o) PROVE CommunicateInv'
<1> USE Sizes DEF CommunicateInv, TypeOK, Outputs, Streams, Finish, caller, program, ReadNothing, ChildEnd, After
<1>1. TypeOK'
  BY DEF Wants
<1>2. Outcome'
  BY DEF Outcome
<1>3. Accounted'
  BY DEF Accounted, Outcome
<1>4. Drained'
  BY DEF Drained, Outcome
<1>5. InputAccounted'
  BY DEF InputAccounted, Outcome
<1>6. CaptureExact'
  BY DEF CaptureExact, CapturesAll, LimitExact, Outcome, Accounted, Drained
<1>7. InputComplete'
  BY DEF InputComplete, InputAccounted, Outcome
<1> QED
  BY <1>1, <1>2, <1>3, <1>4, <1>5, <1>6, <1>7

\* A call of the system fails, or the deadline passes.
LEMMA FailStep == ASSUME CommunicateInv, Fails \/ Expire PROVE CommunicateInv'
<1> USE Sizes DEF CommunicateInv, TypeOK, Outputs, Streams, Finish, caller, program, Fails, Expire
<1>1. TypeOK'
  <2>1. /\ at' \in {"clock", "input", "output", "errors", "poll", "wait", "cleanup", "done"}
        /\ result' \in {"none", "ok", "timeout", "limit", "failed", "cleanup"}
    OBVIOUS
  <2>2. open' \in [Streams -> BOOLEAN]
    OBVIOUS
  <2>3. holds' \in [Streams -> BOOLEAN]
    OBVIOUS
  <2>4. /\ sent' \in 0..Input /\ received' \in [Outputs -> Nat] /\ wrote' \in [Outputs -> Nat]
        /\ consumed' \in Nat
    OBVIOUS
  <2>5. pipe' \in [Streams -> 0..Capacity]
    OBVIOUS
  <2>6. finished' \in BOOLEAN /\ expired' \in BOOLEAN /\ sawEnd' \in BOOLEAN
    OBVIOUS
  <2>7. alive' \in {"live", "zombie", "reaped"} /\ want' \in Wants
    BY DEF Wants
  <2> QED
    BY <2>1, <2>2, <2>3, <2>4, <2>5, <2>6, <2>7
<1>2. Outcome'
  BY DEF Outcome
<1>3. Accounted'
  BY DEF Accounted, Outcome
<1>4. Drained'
  BY DEF Drained, Outcome
<1>5. InputAccounted'
  BY DEF InputAccounted, Outcome
<1>6. CaptureExact'
  BY DEF CaptureExact, CapturesAll, LimitExact, Outcome, Accounted, Drained
<1>7. InputComplete'
  BY DEF InputComplete, InputAccounted, Outcome
<1> QED
  BY <1>1, <1>2, <1>3, <1>4, <1>5, <1>6, <1>7

\* The streams are closed and the child is reaped, or that fails.
LEMMA CleanupStep == ASSUME CommunicateInv, Cleanup PROVE CommunicateInv'
<1> USE Sizes DEF CommunicateInv, TypeOK, Outputs, Streams, Finish, caller, program, Cleanup
<1>1. TypeOK'
  BY DEF Wants
<1>2. Outcome'
  BY DEF Outcome
<1>3. Accounted'
  BY DEF Accounted, Outcome
<1>4. Drained'
  BY DEF Drained, Outcome
<1>5. InputAccounted'
  BY DEF InputAccounted, Outcome
<1>6. CaptureExact'
  BY DEF CaptureExact, CapturesAll, LimitExact, Outcome, Accounted, Drained
<1>7. InputComplete'
  BY DEF InputComplete, InputAccounted, Outcome
<1> QED
  BY <1>1, <1>2, <1>3, <1>4, <1>5, <1>6, <1>7

\* The child decides, reads or closes a stream.
LEMMA ChildStep == ASSUME CommunicateInv, Decide \/ Read \/ (\E s \in Streams : CloseOwn(s)) PROVE CommunicateInv'
<1> USE Sizes DEF CommunicateInv, TypeOK, Outputs, Streams, Finish, caller, program, Decide, Read, CloseOwn, Wants
<1>1. TypeOK'
  <2>1. /\ at' \in {"clock", "input", "output", "errors", "poll", "wait", "cleanup", "done"}
        /\ result' \in {"none", "ok", "timeout", "limit", "failed", "cleanup"}
    OBVIOUS
  <2>2. open' \in [Streams -> BOOLEAN]
    OBVIOUS
  <2>3. holds' \in [Streams -> BOOLEAN]
    OBVIOUS
  <2>4. /\ sent' \in 0..Input /\ received' \in [Outputs -> Nat] /\ wrote' \in [Outputs -> Nat]
        /\ consumed' \in Nat
    OBVIOUS
  <2>5. pipe' \in [Streams -> 0..Capacity]
    OBVIOUS
  <2>6. finished' \in BOOLEAN /\ expired' \in BOOLEAN /\ sawEnd' \in BOOLEAN
    OBVIOUS
  <2>7. alive' \in {"live", "zombie", "reaped"} /\ want' \in Wants
    BY DEF Wants
  <2> QED
    BY <2>1, <2>2, <2>3, <2>4, <2>5, <2>6, <2>7
<1>2. Outcome'
  BY DEF Outcome
<1>3. Accounted'
  BY DEF Accounted, Outcome
<1>4. Drained'
  BY DEF Drained, Outcome
<1>5. InputAccounted'
  BY DEF InputAccounted, Outcome
<1>6. CaptureExact'
  BY DEF CaptureExact, CapturesAll, LimitExact, Outcome, Accounted, Drained
<1>7. InputComplete'
  <2>1. CASE Decide \/ \E s \in Streams : CloseOwn(s)
    BY <2>1 DEF InputComplete, Outcome
  <2>2. CASE Read /\ pipe["input"] > 0
    <3>1. sent = consumed + pipe["input"]
      BY DEF InputAccounted
    <3>2. sent # consumed /\ consumed # Input
      BY <2>2, <3>1
    <3>3. ~sawEnd \/ at \in {"cleanup", "done"}
      BY <3>2 DEF InputComplete
    <3>4. sawEnd' = sawEnd /\ at' = at
      BY <2>2
    <3> QED
      BY <3>3, <3>4, Zenon DEF InputComplete
  <2>3. CASE Read /\ pipe["input"] = 0
    BY <2>3 DEF InputComplete, InputAccounted, Outcome
  <2> QED
    BY <2>1, <2>2, <2>3
<1> QED
  BY <1>1, <1>2, <1>3, <1>4, <1>5, <1>6, <1>7

\* The child or a descendant writes.
LEMMA WriteStep == ASSUME CommunicateInv, NEW o \in Outputs, Write(o) \/ DescendantWrites(o) PROVE CommunicateInv'
<1> USE Sizes DEF CommunicateInv, TypeOK, Outputs, Streams, Finish, caller, program, Write, DescendantWrites
<1>1. TypeOK'
  BY DEF Wants
<1>2. Outcome'
  BY DEF Outcome
<1>3. Accounted'
  BY DEF Accounted, Outcome
<1>4. Drained'
  BY DEF Drained, Outcome
<1>5. InputAccounted'
  BY DEF InputAccounted, Outcome
<1>6. CaptureExact'
  BY DEF CaptureExact, CapturesAll, LimitExact, Outcome, Accounted, Drained
<1>7. InputComplete'
  BY DEF InputComplete, InputAccounted, Outcome
<1> QED
  BY <1>1, <1>2, <1>3, <1>4, <1>5, <1>6, <1>7

\* The child or its descendants end.
LEMMA EndStep == ASSUME CommunicateInv, Exit \/ DescendantExits PROVE CommunicateInv'
<1> USE Sizes DEF CommunicateInv, TypeOK, Outputs, Streams, Finish, caller, program, Exit, DescendantExits
<1>1. TypeOK'
  <2>1. /\ at' \in {"clock", "input", "output", "errors", "poll", "wait", "cleanup", "done"}
        /\ result' \in {"none", "ok", "timeout", "limit", "failed", "cleanup"}
    OBVIOUS
  <2>2. open' \in [Streams -> BOOLEAN]
    OBVIOUS
  <2>3. holds' \in [Streams -> BOOLEAN]
    OBVIOUS
  <2>4. /\ sent' \in 0..Input /\ received' \in [Outputs -> Nat] /\ wrote' \in [Outputs -> Nat]
        /\ consumed' \in Nat
    OBVIOUS
  <2>5. pipe' \in [Streams -> 0..Capacity]
    OBVIOUS
  <2>6. finished' \in BOOLEAN /\ expired' \in BOOLEAN /\ sawEnd' \in BOOLEAN
    OBVIOUS
  <2>7. alive' \in {"live", "zombie", "reaped"} /\ want' \in Wants
    BY DEF Wants
  <2> QED
    BY <2>1, <2>2, <2>3, <2>4, <2>5, <2>6, <2>7
<1>2. Outcome'
  BY DEF Outcome
<1>3. Accounted'
  BY DEF Accounted, Outcome
<1>4. Drained'
  BY DEF Drained, Outcome
<1>5. InputAccounted'
  BY DEF InputAccounted, Outcome
<1>6. CaptureExact'
  BY DEF CaptureExact, CapturesAll, LimitExact, Outcome, Accounted, Drained
<1>7. InputComplete'
  BY DEF InputComplete, InputAccounted, Outcome
<1> QED
  BY <1>1, <1>2, <1>3, <1>4, <1>5, <1>6, <1>7

-----------------------------------------------------------------------------

\* No step of the caller, the child or its descendants breaks the invariant.
LEMMA StepCommunicate == CommunicateInv /\ [Next]_vars => CommunicateInv'
<1> SUFFICES ASSUME CommunicateInv, [Next]_vars PROVE CommunicateInv'
  OBVIOUS
<1>1. CASE Caller \/ Fails \/ Expire
  BY <1>1, PumpStep, FeedStep, ReadDataStep, ReadNothingStep, FailStep, CleanupStep DEF Caller
<1>2. CASE ChildWorks \/ DescendantExits \/ (\E o \in Outputs : DescendantWrites(o))
           \/ \E s \in Streams : CloseOwn(s)
  BY <1>2, ChildStep, WriteStep, EndStep DEF ChildWorks
<1>3. CASE UNCHANGED vars
  BY <1>3 DEF vars, caller, program, CommunicateInv, TypeOK, Outcome, Accounted, Drained,
    InputAccounted, CaptureExact, CapturesAll, LimitExact, InputComplete
<1> QED
  BY <1>1, <1>2, <1>3 DEF Next

\* Every byte is accounted for, whatever the child and its descendants do.
THEOREM BytesAccounted == Spec => []CommunicateInv
  BY InitCommunicate, StepCommunicate, PTL DEF Spec

\* A capture is everything that was written, or it is refused because that did
\* not fit the buffer.
THEOREM CapturesAreExact == Spec => []CaptureExact
  BY BytesAccounted, PTL DEF CommunicateInv

\* The child sees the end of its input only after all of it, unless the call
\* has been given up.
THEOREM InputsAreComplete == Spec => []InputComplete
  BY BytesAccounted, PTL DEF CommunicateInv

=============================================================================
