----------------------------- MODULE ChildLaunch -----------------------------
(***************************************************************************)
(* One launch of a child: pipes, status channel, fork and exec, as done by *)
(* Pipes, start and start_limited (process_runtime.cpp and                 *)
(* process_limits_runtime.cpp).  ChildProcess takes a launch as one step;  *)
(* here every system call of it may fail on its own.                       *)
(*                                                                         *)
(* Descriptors are numbers, given out lowest first, because the point of   *)
(* half of this code is that 0, 1 and 2 are the targets of the child: a    *)
(* host that has closed standard streams gets pipes with these numbers.    *)
(***************************************************************************)
EXTENDS Integers, FiniteSets

CONSTANT MaxFd      \* the largest descriptor number RLIMIT_NOFILE can allow
ASSUME EnoughNumbers == MaxFd \in Nat /\ MaxFd >= 3

Numbers == 0..MaxFd

\* The files of a descriptor table: the host's standard streams, another file
\* of the host, and the ends of our pipes.
PipeEnds == <<"in_r", "in_w", "out_r", "out_w", "err_r", "err_w", "st_r", "st_w">>
Slots    == 1..8
Hosts    == {"std0", "std1", "std2", "file"}
Files    == {"none"} \cup Hosts \cup {PipeEnds[k] : k \in Slots}
Std      == <<"std0", "std1", "std2">>

VARIABLES
    limit,      \* RLIMIT_NOFILE: numbers below it can be opened
    table,      \* the host's descriptor table
    piped, limited,
    at, k,      \* the next step of the launch, and the slot it works on
    held,       \* the descriptors our destructors will close, -1 if none
    out,        \* what the caller gets: the three parent ends, -1 if none
    child,      \* "none", "setup", "running", "zombie" or "reaped"
    step,       \* the next thing the forked child does
    ctable,     \* its descriptor table
    report,     \* did it write its errno into the status pipe?
    doomed      \* was it sent SIGKILL?

vars == <<limit, table, piped, limited, at, k, held, out,
          child, step, ctable, report, doomed>>
host   == <<limit, piped, limited>>
forked == <<child, step, ctable, report, doomed>>

NoFd == -1

NoOutput == [s \in {"input", "output", "errors"} |-> NoFd]

\* The first pipe to make; 9 when there is none.
FirstSlot(p, l) == IF p THEN 1 ELSE IF l THEN 7 ELSE 9

Init ==
    /\ limit \in 3..(MaxFd + 1)
    /\ \E open \in SUBSET (0..2) :
         table = [f \in Numbers |-> IF f \in open THEN Std[f + 1] ELSE "none"]
    /\ piped \in BOOLEAN /\ limited \in BOOLEAN
    /\ k = FirstSlot(piped, limited)
    /\ at = IF k = 9 THEN "launch" ELSE "pipe"
    /\ held = [s \in Slots |-> NoFd]
    /\ out = NoOutput
    /\ child = "none" /\ step = "prologue"
    /\ ctable = [f \in Numbers |-> "none"]
    /\ report = FALSE /\ doomed = FALSE

-----------------------------------------------------------------------------
(* Descriptor tables.                                                      *)

FreeFrom(low) == {f \in low..MaxFd : f < limit /\ table[f] = "none"}
Lowest(S) == CHOOSE f \in S : \A g \in S : f <= g

\* dup2 of the child; on itself it only clears close-on-exec.
Dup2(t, source, target) ==
    IF t[source] = "none" THEN t ELSE [t EXCEPT ![target] = t[source]]

Source(fd) == IF piped THEN held[<<1, 4, 6>>[fd + 1]] ELSE fd

KeepOnly(t, S) == [f \in Numbers |-> IF f \in S THEN t[f] ELSE "none"]

-----------------------------------------------------------------------------
(* The launching thread.                                                   *)

\* The destructors of Pipes and StatusPipe close what is still held.
Destroy(t, h) ==
    [f \in Numbers |-> IF \E s \in Slots : h[s] = f THEN "none" ELSE t[f]]

\* A failure before there is a child.
Fail ==
    /\ at' = "failed"
    /\ table' = Destroy(table, held)
    /\ held' = [s \in Slots |-> NoFd]
    /\ UNCHANGED <<host, k, out, forked>>

StepFails == at \in {"pipe", "move", "flags", "launch"} /\ Fail

\* pipe2 for the slots k and k + 1: two numbers, lowest first.
MakePipe ==
    /\ at = "pipe"
    /\ Cardinality(FreeFrom(0)) >= 2
    /\ LET r == Lowest(FreeFrom(0))
           w == Lowest(FreeFrom(0) \ {r})
       IN /\ table' = [table EXCEPT ![r] = PipeEnds[k], ![w] = PipeEnds[k + 1]]
          /\ held' = [held EXCEPT ![k] = r, ![k + 1] = w]
    /\ at' = "move"
    /\ UNCHANGED <<host, k, out, forked>>

\* After slot k: its other end, the next pipe, the flags, or the launch.
NextAfterMove ==
    IF k \in {1, 3, 5, 7} THEN "move"
    ELSE IF k \in {2, 4} THEN "pipe"
    ELSE IF k = 6 THEN "flags" ELSE "launch"

\* Mutant: a low number is left where it is.
NeedsMove_Never(fd) == FALSE

NeedsMove(fd) == fd < 3

\* Mutant: the old number stays recorded.
Relocate_Stale(fd, to) ==
    /\ table' = [table EXCEPT ![to] = PipeEnds[k], ![fd] = "none"]
    /\ UNCHANGED held

Relocate(fd, to) ==
    /\ table' = [table EXCEPT ![to] = PipeEnds[k], ![fd] = "none"]
    /\ held' = [held EXCEPT ![k] = to]

\* F_DUPFD_CLOEXEC keeps our descriptors away from the child's targets.
Move ==
    /\ at = "move"
    /\ IF NeedsMove(held[k])
       THEN FreeFrom(3) # {} /\ Relocate(held[k], Lowest(FreeFrom(3)))
       ELSE UNCHANGED <<table, held>>
    /\ at' = NextAfterMove /\ k' = k + 1
    /\ UNCHANGED <<host, out, forked>>

SetFlags ==
    /\ at = "flags"
    /\ k' = IF limited THEN 7 ELSE 9
    /\ at' = IF limited THEN "pipe" ELSE "launch"
    /\ UNCHANGED <<host, table, held, out, forked>>

\* Mutant: the child ends are not left to the destructor.
ParentEnds_All == IF piped THEN 1..6 ELSE {}

\* The slots that release hands over to the caller.
ParentEnds == IF piped THEN {2, 3, 5} ELSE {}

Succeed ==
    /\ at' = "ok"
    /\ out' = IF piped THEN [s \in {"input", "output", "errors"} |->
                               IF s = "input" THEN held[2]
                               ELSE IF s = "output" THEN held[3] ELSE held[5]]
              ELSE out
    /\ LET left == [s \in Slots |-> IF s \in ParentEnds THEN NoFd ELSE held[s]]
       IN table' = Destroy(table, left)
    /\ held' = [s \in Slots |-> NoFd]
    /\ UNCHANGED <<host, k>>

\* posix_spawn returns once the child runs its program, or leaves no child.
Spawn ==
    /\ at = "launch" /\ ~limited
    /\ child' = "running"
    /\ ctable' = KeepOnly(Dup2(Dup2(Dup2(table, Source(0), 0), Source(1), 1),
                               Source(2), 2), 0..2)
    /\ Succeed
    /\ UNCHANGED <<step, report, doomed>>

Forks ==
    /\ at = "launch" /\ limited
    /\ child' = "setup" /\ ctable' = table
    /\ at' = "restore"
    /\ UNCHANGED <<host, table, held, out, k, step, report, doomed>>

\* The signal mask is restored, then the parent closes its write end.
Restore ==
    /\ at = "restore"
    /\ at' = "listen"
    /\ UNCHANGED <<host, table, held, out, k, forked>>

\* Mutant: the parent keeps its write end, and waits for itself.
CloseWriteEnd_Kept == UNCHANGED <<table, held>>

CloseWriteEnd ==
    /\ table' = [table EXCEPT ![held[8]] = "none"]
    /\ held' = [held EXCEPT ![8] = NoFd]

Listen ==
    /\ at = "listen"
    /\ CloseWriteEnd
    /\ at' = "read"
    /\ UNCHANGED <<host, out, k, forked>>

HasWriter == (\E f \in Numbers : table[f] = "st_w") \/ (\E f \in Numbers : ctable[f] = "st_w")

\* End of file: the writer was consumed by exec, or the child is gone.
ReadEof ==
    /\ at = "read" /\ ~report /\ ~HasWriter
    /\ Succeed
    /\ UNCHANGED forked

\* reap_failed: kill and wait for the child, then report the failure.  Both
\* restoring the mask and reading the report may fail as well.
GiveUp ==
    /\ at = "restore" \/ at = "read"
    /\ at' = "reap" /\ doomed' = TRUE
    /\ UNCHANGED <<host, table, held, out, k, child, step, ctable, report>>

Reap ==
    /\ at = "reap" /\ child = "zombie"
    /\ child' = "reaped"
    /\ at' = "failed"
    /\ table' = Destroy(table, held)
    /\ held' = [s \in Slots |-> NoFd]
    /\ UNCHANGED <<host, k, out, step, ctable, report, doomed>>

Launcher ==
    \/ StepFails \/ MakePipe \/ Move \/ SetFlags \/ Spawn \/ Forks
    \/ Restore \/ Listen \/ ReadEof \/ Reap
    \/ at = "read" /\ report /\ GiveUp

-----------------------------------------------------------------------------
(* The forked child, until exec.                                           *)

ChildExits ==
    /\ child' = "zombie"
    /\ ctable' = [f \in Numbers |-> "none"]

\* Signal handlers, process group and working directory.
Prologue ==
    /\ child = "setup" /\ step = "prologue"
    /\ step' = "dup0"
    /\ UNCHANGED <<host, table, at, k, held, out, child, ctable, report, doomed>>

\* A standard stream the host has closed stays closed.
DupStream(n, here, after) ==
    /\ child = "setup" /\ step = here
    /\ ctable' = Dup2(ctable, Source(n), n)
    /\ step' = after
    /\ UNCHANGED <<host, table, at, k, held, out, child, report, doomed>>

CloseRest ==
    /\ child = "setup" /\ step = "close"
    /\ ctable' = KeepOnly(ctable, (0..2) \cup {f \in Numbers : ctable[f] = "st_w"})
    /\ step' = "exec"
    /\ UNCHANGED <<host, table, at, k, held, out, child, report, doomed>>

\* The status writer is close-on-exec.
Exec ==
    /\ child = "setup" /\ step = "exec"
    /\ child' = "running"
    /\ ctable' = KeepOnly(ctable, 0..2)
    /\ UNCHANGED <<host, table, at, k, held, out, step, report, doomed>>

\* Any of these fails: the child writes errno and exits.
SetupFails ==
    /\ child = "setup" /\ step # "report"
    /\ step' = "report" /\ report' = TRUE
    /\ UNCHANGED <<host, table, at, k, held, out, child, ctable, doomed>>

ExitAfterReport ==
    /\ child = "setup" /\ step = "report"
    /\ ChildExits
    /\ UNCHANGED <<host, table, at, k, held, out, step, report, doomed>>

SetupStep ==
    \/ Prologue \/ DupStream(0, "dup0", "dup1") \/ DupStream(1, "dup1", "dup2")
    \/ DupStream(2, "dup2", "close") \/ CloseRest \/ Exec
    \/ SetupFails \/ ExitAfterReport

\* The program ends, or anybody kills the child at any point.
ChildDies ==
    /\ child \in {"setup", "running"}
    /\ ChildExits
    /\ UNCHANGED <<host, table, at, k, held, out, step, report, doomed>>

\* Another thread of the host opens a file while the launch goes on.
HostOpens ==
    /\ at \notin {"ok", "failed"}
    /\ FreeFrom(0) # {} /\ \A f \in Numbers : table[f] # "file"
    /\ table' = [table EXCEPT ![Lowest(FreeFrom(0))] = "file"]
    /\ UNCHANGED <<host, at, k, held, out, forked>>

Next == Launcher \/ GiveUp \/ SetupStep \/ ChildDies \/ HostOpens

Spec == Init /\ [][Next]_vars

\* Both processes keep running, and SIGKILL ends the child.  No system call is
\* bound to fail: only a report makes the parent give up.
FairSpec ==
    /\ Spec /\ WF_vars(Launcher) /\ WF_vars(SetupStep)
    /\ WF_vars(doomed /\ ChildDies)

-----------------------------------------------------------------------------
(* Properties.                                                             *)

Ours == {PipeEnds[s] : s \in Slots}

\* A launch that fails, at whatever step, leaves no pipe end in the host and no
\* child to reap; one that succeeds leaves exactly the three parent ends, at
\* the numbers it returns, nothing of the status channel, and a program that
\* started: the caller learns of every failure to start it.
NothingLeft ==
    /\ at = "failed" =>
         /\ \A f \in Numbers : table[f] \notin Ours
         /\ child \in {"none", "reaped"} /\ out = NoOutput
    /\ at = "ok" =>
         /\ {f \in Numbers : table[f] \in Ours}
              = {out[s] : s \in DOMAIN out} \ {NoFd}
         /\ child \in {"running", "zombie"}
         /\ piped => /\ table[out["input"]] = "in_w"
                     /\ table[out["output"]] = "out_r"
                     /\ table[out["errors"]] = "err_r"

\* The program starts with its three streams where it expects them and no
\* other descriptor, whichever standard streams the host had closed.
ChildStreams ==
    child = "running" =>
        /\ \A f \in Numbers \ (0..2) : ctable[f] = "none"
        /\ piped => <<ctable[0], ctable[1], ctable[2]>> = <<"in_r", "out_w", "err_w">>
        /\ ~piped => \A f \in 0..2 : ctable[f] \in {"none", "file", Std[f + 1]}

\* The launch never closes or replaces a descriptor of the host.
HostKept ==
    [][\A f \in Numbers : table[f] \in Hosts => table'[f] = table[f]]_vars

\* The launch returns: the parent never waits for a report nobody can send.
Returns == <>(at \in {"ok", "failed"})

=============================================================================
