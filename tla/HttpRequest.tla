------------------------------ MODULE HttpRequest ------------------------------
(***************************************************************************)
(* request of stdlib/http_client.gloin: the convenience wrapper that drives *)
(* one HttpExchange to its end and waits for the socket in between; or any  *)
(* other application, which calls the exchange as it likes.                *)
(***************************************************************************)
EXTENDS HttpExchange

CONSTANT Driven     \* the responses request is tried with

VARIABLES
    at,     \* what the loop of request does next, or "any": the application is another one
    ready   \* readiness for the next step

driverVars == <<at, ready>>
allVars == <<vars, driverVars>>

RequestInit ==
    /\ Init /\ ready = NONE
    /\ at \in {"any", "step"} /\ (at = "step" => message \in Driven)

\* request returns; its deferred cleanup cancels an exchange that is not over.
Return(how) == at' = how

\* Where step's answer leads.
Following ==
    [PROGRESS |-> "step", WAIT |-> "wait", NEED_INPUT |-> "input", HAVE_OUTPUT |-> "output",
     COMPLETE |-> "done", ERROR |-> "failed"]

Drive ==
    /\ at = "step" /\ step(ready)
    /\ ready' = NONE /\ Return(Following[last'.state])

\* The whole output is copied behind what was received before.
TakeOutput ==
    /\ at = "output" /\ consume_output(Len(body) - bodyOffset)
    /\ at' = "step" /\ UNCHANGED ready

\* All that is left is offered; a part of it may be accepted.
GiveInput ==
    /\ at = "input" /\ supply(Content - supplied)
    /\ at' = "step" /\ UNCHANGED ready

\* poll on the socket: a mask of what is ready among what is waited for.
Ready ==
    (IF arrived > taken \/ ended THEN READABLE ELSE NONE)
      + (IF reached /\ Len(uploaded) - accepted < SocketRoom THEN WRITABLE ELSE NONE)

Among(mask, wanted) == IF wanted = 3 THEN mask ELSE IF mask \in {wanted, 3} THEN wanted ELSE NONE

\* Mutant: a wait that ran into the deadline goes on.
TimedOut_Never == FALSE

TimedOut == late

\* Socket.wait, no longer than the deadline.
Wait ==
    /\ at = "wait"
    /\ \/ Among(Ready, last.wait) # NONE /\ ready' = Among(Ready, last.wait) /\ at' = "step"
       \/ TimedOut /\ ready' = NONE /\ at' = "step"
       \/ transport = "tls" /\ ready' \in 0..3 /\ at' = "step"
    /\ UNCHANGED vars

\* It fails and the deferred cleanup runs, or a signal cuts it short, or an
\* error of the connection stands for all that is waited for.
WaitFails ==
    /\ at = "wait" /\ MayFail /\ UNCHANGED vars
    /\ \/ at' = "cleanup" /\ UNCHANGED ready
       \/ at' = "step" /\ ready' \in {NONE, last.wait}

Cleanup ==
    /\ at = "cleanup" /\ cancel
    /\ at' = "failed" /\ UNCHANGED ready

Client == Drive \/ TakeOutput \/ GiveInput \/ Wait \/ Cleanup

RequestNext ==
    \/ Client \/ WaitFails
    \/ at = "any" /\ Application /\ UNCHANGED driverVars
    \/ (Server \/ Expire) /\ UNCHANGED driverVars

RequestSpec == RequestInit /\ [][RequestNext]_allVars

Returned == at \in {"done", "failed"}

-----------------------------------------------------------------------------
(* Fairness.                                                               *)

OfRequest(A) == at # "any" /\ A /\ UNCHANGED driverVars

\* The thread runs and time passes, whatever the server does.
Fair == WF_allVars(Client) /\ WF_allVars(OfRequest(Expire))

\* A server that takes in what it is sent until it begins to answer, if it does
\* not begin before, and answers to the end.
WorkingServer ==
    \/ Establish \/ Answer
    \/ arrived = 0 /\ Accept
    \/ arrived = Len(message.wire) /\ End

\* Sockets without TLS, whose session may want to read or write for ever, and
\* signals that do not cut every wait short.
Working ==
    /\ transport = "plain"
    /\ WF_allVars(Client) /\ SF_allVars(Wait) /\ WF_allVars(OfRequest(WorkingServer))

-----------------------------------------------------------------------------
(* Properties.                                                             *)

\* With a server and a network that never answer, or that trickle, request
\* returns when its time is over.
Returns == Fair => (at = "any" \/ <>Returned)

\* Against a server that works, request needs no deadline: neither end waits
\* for the other, also when the server answers and reads no more of the request.
NoStall == Working => (at = "any" \/ <>(late \/ Returned))

=============================================================================
