-------------------------- MODULE ChildCommunicate --------------------------
(***************************************************************************)
(* Child.communicate of stdlib/process.gloin: one thread feeds a child's   *)
(* standard input and drains its output and errors through three bounded   *)
(* pipes, until the child has ended and both outputs are at their end, or  *)
(* the deadline passes, or an output exceeds the caller's buffer.          *)
(*                                                                         *)
(* Bytes are counted, not named: a pipe is a queue and keeps their order.  *)
(* The child does anything a program can do with its three streams: it     *)
(* commits to one operation at a time and blocks in it, may close streams, *)
(* may leave a descendant behind that keeps its outputs open.              *)
(***************************************************************************)
EXTENDS Naturals

CONSTANTS
    Capacity,   \* bytes a pipe holds
    Input,      \* bytes the caller wants to send
    Room,       \* bytes of the caller's buffer, per output
    MaxWrites   \* bound: bytes written to one output

ASSUME Sizes ==
    /\ Capacity \in Nat \ {0} /\ Input \in Nat /\ MaxWrites \in Nat
    /\ Room \in [{"output", "errors"} -> Nat]

Outputs == {"output", "errors"}
Streams == {"input", "output", "errors"}

VARIABLES
    \* the caller's side
    at,         \* the next step of pump
    open,       \* parent ends not closed yet
    sent,
    received,   \* per output
    finished,   \* the cached end of the child
    expired,    \* the deadline has passed
    result,     \* "none", "ok", "timeout", "limit", "failed" or "cleanup"
    \* the pipes
    pipe,       \* bytes in each
    \* the child's side
    alive,      \* "live", "zombie" or "reaped"
    want,       \* the operation it is committed to
    consumed, sawEnd,
    wrote,      \* per output
    holds       \* descendants keep these child ends open

caller == <<at, open, sent, received, finished, expired, result>>
program == <<alive, want, consumed, sawEnd, wrote, holds>>
vars == <<caller, pipe, program>>

Wants == {"think", "read", "output", "errors"}

Init ==
    /\ at = "clock"
    /\ open = [s \in Streams |-> TRUE]
    /\ sent = 0 /\ received = [o \in Outputs |-> 0]
    /\ finished = FALSE /\ expired = FALSE /\ result = "none"
    /\ pipe = [s \in Streams |-> 0]
    /\ alive = "live" /\ want = "think"
    /\ consumed = 0 /\ sawEnd = FALSE
    /\ wrote = [o \in Outputs |-> 0]
    /\ holds = [s \in Streams |-> TRUE]

\* Does anybody on the child's side have its end of the stream?
ChildEnd(s) == holds[s]

-----------------------------------------------------------------------------
(* pump                                                                    *)

\* The error path of pump and its end both go to close.
Finish(r) == at' = "cleanup" /\ result' = r

\* Mutant: the deadline is for the child alone.
OutOfTime_Ended == expired /\ ~finished

OutOfTime == expired

\* At the top of the loop, before any more data is moved.
Clock ==
    /\ at = "clock"
    /\ IF OutOfTime THEN Finish("timeout") ELSE at' = "input" /\ UNCHANGED result
    /\ UNCHANGED <<open, sent, received, finished, expired, pipe, program>>

\* Mutants: end of input after the first bytes; never.
InputDone_First(total) == total > 0
InputDone_Never(total) == FALSE

InputDone(total) == total = Input

\* write_stdin accepts what fits; a reader that went away closes the stream;
\* when everything is accepted close_stdin sends the end of the input.
FeedInput ==
    /\ at = "input"
    /\ at' = "output"
    /\ IF ~open["input"] THEN UNCHANGED <<open, sent, pipe>>
       ELSE IF sent < Input /\ ~ChildEnd("input")
       THEN open' = [open EXCEPT !["input"] = FALSE] /\ UNCHANGED <<sent, pipe>>
       ELSE \E n \in 0..(Capacity - pipe["input"]) :
              /\ n <= Input - sent
              /\ n = 0 => sent = Input \/ pipe["input"] = Capacity
              /\ sent' = sent + n
              /\ pipe' = [pipe EXCEPT !["input"] = @ + n]
              /\ open' = [open EXCEPT !["input"] = ~InputDone(sent + n)]
    /\ UNCHANGED <<received, finished, expired, result, program>>

After(o) == IF o = "output" THEN "errors" ELSE "poll"

\* A full buffer still reads: one probe byte tells the end from an excess.
Storage(o) == IF received[o] < Room[o] THEN Room[o] - received[o] ELSE 1

\* Mutant: a buffer that is just full is an excess.
Exceeds_WhenFull(o, n) == n >= Room[o] - received[o]

Exceeds(o, n) == n > Room[o] - received[o]

ReadData(o) ==
    /\ at = o /\ open[o] /\ pipe[o] > 0
    /\ \E n \in 1..pipe[o] :
         /\ n <= Storage(o)
         /\ pipe' = [pipe EXCEPT ![o] = @ - n]
         /\ IF Exceeds(o, n)
            THEN Finish("limit") /\ UNCHANGED received
            ELSE /\ received' = [received EXCEPT ![o] = @ + n]
                 /\ at' = After(o) /\ UNCHANGED result
    /\ UNCHANGED <<open, sent, finished, expired, program>>

\* END closes the stream; WOULD_BLOCK leaves it; a closed one is skipped.
ReadNothing(o) ==
    /\ at = o /\ (~open[o] \/ pipe[o] = 0)
    /\ at' = After(o)
    /\ open' = [open EXCEPT ![o] = @ /\ ChildEnd(o)]
    /\ UNCHANGED <<sent, received, finished, expired, result, pipe, program>>

Complete(ended) == ended /\ ~open["output"] /\ ~open["errors"]

\* poll reaps a child that has ended and caches its status.
Poll ==
    /\ at = "poll"
    /\ finished' = (finished \/ alive = "zombie")
    /\ alive' = IF alive = "zombie" THEN "reaped" ELSE alive
    /\ IF Complete(finished') THEN Finish("ok") ELSE at' = "wait" /\ UNCHANGED result
    /\ UNCHANGED <<open, sent, received, expired, pipe, want, consumed, sawEnd, wrote, holds>>

\* wait_io returns on readiness or after at most ten milliseconds.
Wait ==
    /\ at = "wait" /\ at' = "clock"
    /\ UNCHANGED <<open, sent, received, finished, expired, result, pipe, program>>

\* A call of the system fails: the clock, a pipe's read or write or wait, or the
\* status query. A stream that was being closed is closed all the same.
Fails ==
    /\ at \notin {"cleanup", "done"}
    /\ Finish("failed")
    /\ open' \in {open} \cup {[open EXCEPT ![s] = FALSE] : s \in {at} \cap Streams}
    /\ UNCHANGED <<sent, received, finished, expired, pipe, program>>

\* close: the pipes are closed, the child is killed, with its group if it has
\* one, and reaped; a failure takes precedence over what pump returned.
Cleanup ==
    /\ at = "cleanup" /\ at' = "done"
    /\ open' = [s \in Streams |-> FALSE]
    /\ \/ alive' = "reaped" /\ finished' = TRUE /\ UNCHANGED result
          /\ \E kept \in {{}, Outputs} :
               holds' = [s \in Streams |-> holds[s] /\ s \in kept]
       \/ result' = "cleanup" /\ UNCHANGED <<alive, finished, holds>>
    /\ UNCHANGED <<sent, received, expired, pipe, want, consumed, sawEnd, wrote>>

Caller ==
    \/ Clock \/ FeedInput \/ Poll \/ Wait \/ Cleanup
    \/ \E o \in Outputs : ReadData(o) \/ ReadNothing(o)

-----------------------------------------------------------------------------
(* The child and its descendants.                                          *)

Decide ==
    /\ alive = "live" /\ want = "think"
    /\ want' \in {w \in Wants \ {"think"} :
                    /\ w = "read" => ~sawEnd /\ holds["input"]
                    /\ w \in Outputs => holds[w] /\ wrote[w] < MaxWrites}
    /\ UNCHANGED <<caller, pipe, alive, consumed, sawEnd, wrote, holds>>

\* It blocks while its input is empty and open.
Read ==
    /\ alive = "live" /\ want = "read"
    /\ \/ /\ pipe["input"] > 0
          /\ pipe' = [pipe EXCEPT !["input"] = @ - 1]
          /\ consumed' = consumed + 1 /\ UNCHANGED sawEnd
       \/ /\ pipe["input"] = 0 /\ ~open["input"]
          /\ sawEnd' = TRUE /\ UNCHANGED <<pipe, consumed>>
    /\ want' = "think"
    /\ UNCHANGED <<caller, alive, wrote, holds>>

\* It blocks while the pipe is full.
Write(o) ==
    /\ alive = "live" /\ want = o
    /\ open[o] /\ pipe[o] < Capacity
    /\ pipe' = [pipe EXCEPT ![o] = @ + 1]
    /\ wrote' = [wrote EXCEPT ![o] = @ + 1]
    /\ want' = "think"
    /\ UNCHANGED <<caller, alive, consumed, sawEnd, holds>>

CloseOwn(s) ==
    /\ alive = "live" /\ want = "think" /\ holds[s]
    /\ holds' = [holds EXCEPT ![s] = FALSE]
    /\ UNCHANGED <<caller, pipe, alive, want, consumed, sawEnd, wrote>>

\* Its streams close with it, except those a descendant keeps.
Exit ==
    /\ alive = "live" /\ want = "think"
    /\ alive' = "zombie"
    /\ \E kept \in {{}, Outputs} :
         holds' = [s \in Streams |-> holds[s] /\ s \in kept]
    /\ UNCHANGED <<caller, pipe, want, consumed, sawEnd, wrote>>

ChildWorks == Decide \/ Read \/ (\E o \in Outputs : Write(o)) \/ Exit

DescendantWrites(o) ==
    /\ alive # "live" /\ holds[o] /\ open[o]
    /\ pipe[o] < Capacity /\ wrote[o] < MaxWrites
    /\ pipe' = [pipe EXCEPT ![o] = @ + 1]
    /\ wrote' = [wrote EXCEPT ![o] = @ + 1]
    /\ UNCHANGED <<caller, alive, want, consumed, sawEnd, holds>>

DescendantExits ==
    /\ alive # "live" /\ \E s \in Streams : holds[s]
    /\ holds' = [s \in Streams |-> FALSE]
    /\ UNCHANGED <<caller, pipe, alive, want, consumed, sawEnd, wrote>>

Expire ==
    /\ at # "done" /\ ~expired /\ expired' = TRUE
    /\ UNCHANGED <<at, open, sent, received, finished, result, pipe, program>>

Next ==
    \/ Caller \/ Fails \/ Expire \/ ChildWorks \/ DescendantExits
    \/ \E o \in Outputs : DescendantWrites(o)
    \/ \E s \in Streams : CloseOwn(s)

Spec == Init /\ [][Next]_vars

-----------------------------------------------------------------------------
(* Fairness.                                                               *)

\* The caller's thread runs and time passes; the child owes nothing.
Fair == WF_vars(Caller) /\ WF_vars(Expire)

\* The child works whenever it is not blocked, and does not outlive its work.
Working ==
    /\ WF_vars(Caller) /\ WF_vars(DescendantExits)
    /\ WF_vars(Decide) /\ WF_vars(Read) /\ WF_vars(Exit)
    /\ \A o \in Outputs : WF_vars(Write(o))

-----------------------------------------------------------------------------
(* Properties.                                                             *)

\* What communicate returns is everything the child and its descendants wrote,
\* also after the child ended and although one read may take less than there
\* is; and the child has ended and is no zombie.
CapturesAll ==
    at = "done" /\ result = "ok" =>
        /\ \A o \in Outputs : received[o] = wrote[o] /\ ~holds[o]
        /\ alive = "reaped"

\* An output that fits the buffer, even one that fills it exactly, never fails
\* the call, and one that does not is never returned cut short.
LimitExact ==
    result = "limit" => \E o \in Outputs : wrote[o] > Room[o]

\* A capture is complete, or it is refused because it could not be.
CaptureExact == CapturesAll /\ LimitExact

\* The child sees the end of its input only after all of it, unless the call
\* has been given up.
InputComplete ==
    sawEnd /\ at \notin {"cleanup", "done"} => consumed = Input

\* The call returns whatever the child does, blocked on any stream or not.
Returns == Fair => <>(at = "done")

\* The call needs no deadline with a child that works: neither side ever waits
\* for a pipe that only the other could relieve.
NoStall == Working => <>(expired \/ at = "done")

=============================================================================
