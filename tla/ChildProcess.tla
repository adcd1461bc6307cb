---------------------------- MODULE ChildProcess ----------------------------
(***************************************************************************)
(* The owner of a child process: the Child handle of stdlib/process.gloin  *)
(* over the system calls of src/process_runtime.cpp.                       *)
(*                                                                         *)
(* A Gloin program is one thread, so at most one call on a handle is in    *)
(* progress: `op' on handle `who', about to make the system call named by  *)
(* `at'.  Between two of its system calls the rest of the machine moves:   *)
(* children exit, group members fork or leave, process identifiers and     *)
(* descriptors are taken and given back by other threads of the embedding  *)
(* host and by unrelated processes, so both kinds of number are recycled.  *)
(*                                                                         *)
(* With HostReaps the embedding host also reaps children that belong to a  *)
(* Gloin program, which the library detects (ECHILD) but cannot prevent.   *)
(***************************************************************************)
EXTENDS Naturals

CONSTANTS
    Children,   \* handles; each is started at most once
    Pids,       \* process identifiers of the machine
    Fds,        \* descriptor numbers of the host process
    NoPid,      \* ChildState.pid = 0
    NoFd,       \* a ChildState descriptor of -1
    Stranger,   \* a process that is no direct child of ours
    Nobody,     \* no call is in progress
    Free, Host, \* a descriptor number nobody has, or one of the host's own
    NotYet,     \* a child that has not ended
    HostReaps   \* does the embedding host reap our children?

ASSUME SentinelsApart ==
    /\ NoPid \notin Pids
    /\ NoFd \notin Fds
    /\ Stranger \notin Children
    /\ Nobody \notin Children
    /\ Free \notin Children
    /\ Host \notin Children
    /\ Free # Host
    /\ NotYet \notin {"exited", "terminated", "killed"}
    /\ HostReaps \in BOOLEAN

Streams == {"input", "output", "errors"}
Ends    == {"exited", "terminated", "killed"}
Ops     == {"none", "poll", "wait", "wait_timeout", "terminate", "kill", "close"}
Idle    == {"returned", "failed"}
Steps   == {"pipes", "observe", "clock", "sleep", "signal", "check",
            "group", "leader", "await", "reap", "finish"}

VARIABLES
    \* ChildState, one per handle (process.gloin)
    phase,      \* "none" before start, then "open" until closed is set
    group,      \* started with new_process_group
    pid,
    fd,         \* the parent ends of the three pipes
    finished,
    status,
    \* the call in progress: its next step, or how the last call ended
    at, op, who,
    expired,    \* the deadline of wait_timeout has passed
    exitSeen,   \* the leader had exited when group_signal looked
    released,   \* close_pipes reported no failure
    \* the kernel
    run,        \* "free", "live" or "zombie", per process identifier
    kin,        \* the handle whose direct child this is, or Stranger
    grp,        \* the process group, when it is one a handle created
    sig,        \* the strongest signal sent to it
    ended,      \* how the child of a handle ended
    fdOwner

childVars  == <<phase, group, pid, fd, finished, status>>
callVars   == <<at, op, who, expired, exitSeen, released>>
procVars   == <<run, kin, grp, sig>>
kernelVars == <<run, kin, grp, sig, ended, fdOwner>>
vars       == <<childVars, callVars, kernelVars>>

TypeOK ==
    /\ phase \in [Children -> {"none", "open", "closed"}]
    /\ group \in [Children -> BOOLEAN]
    /\ pid \in [Children -> Pids \cup {NoPid}]
    /\ fd \in [Children -> [Streams -> Fds \cup {NoFd}]]
    /\ finished \in [Children -> BOOLEAN]
    /\ status \in [Children -> Ends \cup {NotYet}]
    /\ at \in Idle \cup Steps
    /\ op \in Ops
    /\ who \in Children \cup {Nobody}
    /\ at \in Steps => op # "none" /\ who \in Children
    /\ expired \in BOOLEAN
    /\ exitSeen \in BOOLEAN
    /\ released \in BOOLEAN
    /\ run \in [Pids -> {"free", "live", "zombie"}]
    /\ kin \in [Pids -> Children \cup {Stranger}]
    /\ grp \in [Pids -> Pids \cup {NoPid}]
    /\ sig \in [Pids -> {"none", "term", "kill"}]
    /\ ended \in [Children -> Ends \cup {NotYet}]
    /\ fdOwner \in [Fds -> Children \cup {Free, Host}]

Init ==
    /\ phase = [c \in Children |-> "none"]
    /\ group = [c \in Children |-> FALSE]
    /\ pid = [c \in Children |-> NoPid]
    /\ fd = [c \in Children |-> [s \in Streams |-> NoFd]]
    /\ finished = [c \in Children |-> FALSE]
    /\ status = [c \in Children |-> NotYet]
    /\ at = "returned" /\ op = "none" /\ who = Nobody
    /\ expired = FALSE /\ exitSeen = FALSE /\ released = TRUE
    /\ run = [p \in Pids |-> "free"]
    /\ kin = [p \in Pids |-> Stranger]
    /\ grp = [p \in Pids |-> NoPid]
    /\ sig = [p \in Pids |-> "none"]
    /\ ended = [c \in Children |-> NotYet]
    /\ fdOwner = [f \in Fds |-> Free]

-----------------------------------------------------------------------------
(* The kernel's side of a call.                                            *)

\* An identifier is reusable once no process and no process group has it.
Available(p) == run[p] = "free" /\ \A q \in Pids : grp[q] # p

\* waitpid and waitid succeed on any child of this host process; ECHILD else.
Waitable(p) == run[p] # "free" /\ kin[p] \in Children

Release(p) ==
    /\ run' = [run EXCEPT ![p] = "free"]
    /\ kin' = [kin EXCEPT ![p] = Stranger]
    /\ grp' = [grp EXCEPT ![p] = NoPid]
    /\ sig' = [sig EXCEPT ![p] = "none"]

\* Mutant: close asks with SIGTERM.
Forced_KillOnly == op = "kill"

Forced == op \in {"kill", "close"}

\* kill(2): a SIGKILL cannot be taken back, a zombie takes no signal.
Deliver(targets) ==
    sig' = [p \in Pids |->
              IF p \notin targets \/ run[p] # "live" THEN sig[p]
              ELSE IF Forced THEN "kill"
              ELSE IF sig[p] = "kill" THEN "kill" ELSE "term"]

-----------------------------------------------------------------------------
(* Steps of a call.                                                        *)

NoStreams == [s \in Streams |-> NoFd]

\* Mutant: the descriptor stays recorded.
close_descriptor_Kept(c, s) ==
    /\ UNCHANGED fd
    /\ fdOwner' = [f \in Fds |-> IF f = fd[c][s] THEN Free ELSE fdOwner[f]]

\* The recorded descriptor becomes -1 whatever close(2) then says: the number
\* is consumed, and another thread may reuse it at once.
close_descriptor(c, s) ==
    /\ fd' = [fd EXCEPT ![c] = [@ EXCEPT ![s] = NoFd]]
    /\ fdOwner' = [f \in Fds |-> IF f = fd[c][s] THEN Free ELSE fdOwner[f]]

close_pipes(c) ==
    /\ fd' = [fd EXCEPT ![c] = NoStreams]
    /\ fdOwner' = [f \in Fds |-> IF \E s \in Streams : f = fd[c][s]
                                 THEN Free ELSE fdOwner[f]]

EndCall(how) ==
    /\ at' = how /\ op' = "none" /\ who' = Nobody
    /\ expired' = FALSE /\ exitSeen' = FALSE /\ released' = TRUE

Goto(step) ==
    IF step \in Idle THEN EndCall(step)
    ELSE at' = step /\ UNCHANGED <<op, who, expired, exitSeen, released>>

\* The child was reaped outside its owner: give up the handle.
Abandon(c) ==
    /\ close_pipes(c)
    /\ phase' = [phase EXCEPT ![c] = "closed"]
    /\ pid' = [pid EXCEPT ![c] = NoPid]
    /\ EndCall("failed")
    /\ UNCHANGED <<group, finished, status>>

\* Mutant: close does not wait.
AfterSignal_NoWait == IF op = "close" THEN "finish" ELSE "returned"

\* close waits for the end of the child it has killed.
AfterSignal == IF op = "close" THEN "await" ELSE "returned"

\* Mutant: a group whose leader has ended is not signalled.
AfterPoll_SkipsGroup(ready) ==
    IF ready THEN AfterSignal ELSE IF group[who] THEN "check" ELSE "signal"

\* send_signal: only a single child that has ended needs no signal.
AfterPoll(ready) ==
    IF group[who] THEN "check" ELSE IF ready THEN AfterSignal ELSE "signal"

\* Mutant: close forgets to reap the leader of a group.
AfterObserve_NoReap(ready) ==
    IF at = "await" THEN "finish"
    ELSE IF op = "wait_timeout" THEN (IF ready THEN "returned" ELSE "clock")
    ELSE IF op \in {"poll", "wait"} THEN "returned" ELSE AfterPoll(ready)

\* Where a call goes once observe has returned PollOutcome.ready = ready.
AfterObserve(ready) ==
    IF at = "await" THEN (IF group[who] THEN "reap" ELSE "finish")
    ELSE IF op = "wait_timeout" THEN (IF ready THEN "returned" ELSE "clock")
    ELSE IF op \in {"poll", "wait"} THEN "returned" ELSE AfterPoll(ready)

Observing == at \in {"observe", "await"}
Blocking  == op = "wait" \/ at = "await"

ObserveCached ==
    /\ Observing
    /\ finished[who]
    /\ Goto(AfterObserve(TRUE))
    /\ UNCHANGED <<childVars, kernelVars>>

ObserveLive ==
    /\ Observing /\ ~Blocking
    /\ ~finished[who] /\ Waitable(pid[who]) /\ run[pid[who]] = "live"
    /\ Goto(AfterObserve(FALSE))
    /\ UNCHANGED <<childVars, kernelVars>>

\* Mutants: the pid of a group leader is forgotten; a group leader is reaped by
\* the first call that sees its end.
Collect_ForgetsLeader ==
    /\ pid' = [pid EXCEPT ![who] = NoPid]
    /\ IF group[who] THEN UNCHANGED procVars ELSE Release(pid[who])
Collect_ReapsLeader ==
    /\ Release(pid[who])
    /\ pid' = IF group[who] THEN pid ELSE [pid EXCEPT ![who] = NoPid]

\* waitpid reaps the child; waitid with WNOWAIT leaves a group leader a zombie.
Collect ==
    IF group[who]
    THEN UNCHANGED <<pid, procVars>>
    ELSE Release(pid[who]) /\ pid' = [pid EXCEPT ![who] = NoPid]

ObserveExit ==
    /\ Observing
    /\ ~finished[who] /\ Waitable(pid[who]) /\ run[pid[who]] = "zombie"
    /\ finished' = [finished EXCEPT ![who] = TRUE]
    /\ status' = [status EXCEPT ![who] = ended[kin[pid[who]]]]
    /\ Collect
    /\ Goto(AfterObserve(TRUE))
    /\ UNCHANGED <<phase, group, fd, ended, fdOwner>>

ObserveGone ==
    /\ Observing
    /\ ~finished[who] /\ ~Waitable(pid[who])
    /\ Abandon(who)
    /\ UNCHANGED <<procVars, ended>>

\* __process_signal: on a process outside any group of ours.
SignalChild ==
    /\ at = "signal"
    /\ run[pid[who]] # "free"
    /\ Deliver({pid[who]})
    /\ Goto(AfterSignal)
    /\ UNCHANGED <<childVars, run, kin, grp, ended, fdOwner>>

\* kill(2) refuses: ESRCH for a lost process, EPERM for one that changed user.
\* send_signal returns the error and the handle stays open.
SignalRefused ==
    /\ at \in {"signal", "group", "leader"}
    /\ EndCall("failed")
    /\ UNCHANGED <<childVars, kernelVars>>

\* __process_group_signal first makes sure that the leader is still ours.
GroupCheck ==
    /\ at = "check"
    /\ Waitable(pid[who])
    /\ at' = "group"
    /\ exitSeen' = (run[pid[who]] = "zombie")
    /\ UNCHANGED <<childVars, op, who, expired, released, kernelVars>>

GroupGone ==
    /\ at = "check"
    /\ ~Waitable(pid[who])
    /\ Abandon(who)
    /\ UNCHANGED <<procVars, ended>>

\* kill(-pid): ESRCH, an empty group, is no error.
GroupKill ==
    /\ at = "group"
    /\ Deliver({p \in Pids : grp[p] = pid[who]})
    /\ Goto(IF exitSeen THEN AfterSignal ELSE "leader")
    /\ UNCHANGED <<childVars, run, kin, grp, ended, fdOwner>>

\* The leader may have left its own group: it is signalled by itself too.
LeaderKill ==
    /\ at = "leader"
    /\ Deliver({pid[who]})
    /\ Goto(AfterSignal)
    /\ UNCHANGED <<childVars, run, kin, grp, ended, fdOwner>>

\* Mutant: the budget starts anew with every round.
wait_interval_Restarted == "sleep"

wait_interval == IF expired THEN "returned" ELSE "sleep"

\* wait_timeout: out of budget it returns ready = FALSE; the clock may fail.
Clock ==
    /\ at = "clock"
    /\ \/ Goto(wait_interval)
       \/ EndCall("failed")
    /\ UNCHANGED <<childVars, kernelVars>>

Sleep ==
    /\ at = "sleep"
    /\ Goto("observe") \/ EndCall("failed")
    /\ UNCHANGED <<childVars, kernelVars>>

\* close: the pipes go first, and a failure there is remembered to the end.
ClosePipes ==
    /\ at = "pipes"
    /\ close_pipes(who)
    /\ at' = "observe"
    /\ released' \in {TRUE, (\A s \in Streams : fd[who][s] = NoFd)}
    /\ UNCHANGED <<op, who, expired, exitSeen>>
    /\ UNCHANGED <<phase, group, pid, finished, status, procVars, ended>>

\* close of a group: only now is the leader's identifier given back.
ReapLeader ==
    /\ at = "reap"
    /\ Waitable(pid[who]) /\ run[pid[who]] = "zombie"
    /\ Release(pid[who])
    /\ pid' = [pid EXCEPT ![who] = NoPid]
    /\ Goto("finish")
    /\ UNCHANGED <<phase, group, fd, finished, status, ended, fdOwner>>

LeaderGone ==
    /\ at = "reap"
    /\ ~Waitable(pid[who])
    /\ phase' = [phase EXCEPT ![who] = "closed"]
    /\ pid' = [pid EXCEPT ![who] = NoPid]
    /\ EndCall("failed")
    /\ UNCHANGED <<group, fd, finished, status, kernelVars>>

FinishClose ==
    /\ at = "finish"
    /\ phase' = [phase EXCEPT ![who] = "closed"]
    /\ EndCall(IF released THEN "returned" ELSE "failed")
    /\ UNCHANGED <<group, pid, fd, finished, status, kernelVars>>

CallStep ==
    \/ ObserveCached \/ ObserveLive \/ ObserveExit \/ ObserveGone
    \/ SignalChild \/ SignalRefused
    \/ GroupCheck \/ GroupGone \/ GroupKill \/ LeaderKill
    \/ Clock \/ Sleep
    \/ ClosePipes \/ ReapLeader \/ LeaderGone \/ FinishClose

-----------------------------------------------------------------------------
(* Calls.  One on a handle that is not open returns without effect.        *)

\* A launch that fails leaves no process and no descriptor (ChildLaunch).
Start(c, p, streams, leads) ==
    /\ at \in Idle /\ phase[c] = "none"
    /\ Available(p)
    /\ phase' = [phase EXCEPT ![c] = "open"]
    /\ group' = [group EXCEPT ![c] = leads]
    /\ pid' = [pid EXCEPT ![c] = p]
    /\ fd' = [fd EXCEPT ![c] = streams]
    /\ run' = [run EXCEPT ![p] = "live"]
    /\ kin' = [kin EXCEPT ![p] = c]
    /\ grp' = [grp EXCEPT ![p] = IF leads THEN p ELSE NoPid]
    /\ fdOwner' = [f \in Fds |-> IF \E s \in Streams : f = streams[s]
                                 THEN c ELSE fdOwner[f]]
    /\ UNCHANGED <<finished, status, callVars, sig, ended>>

\* Three new pipe ends, or none.
NewStreams ==
    {NoStreams} \cup
    {streams \in [Streams -> {f \in Fds : fdOwner[f] = Free}] :
        \A s, t \in Streams : s # t => streams[s] # streams[t]}

Call(o, c) ==
    /\ at \in Idle /\ phase[c] = "open"
    /\ op' = o /\ who' = c
    /\ at' = IF o = "close" THEN "pipes" ELSE "observe"
    /\ UNCHANGED <<expired, exitSeen, released, childVars, kernelVars>>

\* close_stdin, write_stdin after the reader went away, and a read that meets
\* the end of its stream: one descriptor is closed.
CloseStream(c, s) ==
    /\ at \in Idle /\ phase[c] = "open" /\ fd[c][s] # NoFd
    /\ close_descriptor(c, s)
    /\ UNCHANGED <<phase, group, pid, finished, status, callVars, procVars, ended>>

-----------------------------------------------------------------------------
(* The rest of the machine.                                                *)

\* A process ends by itself or by a signal sent to it.  Our direct children
\* stay zombies; anybody else's process is reaped by its own parent.
Die(p) ==
    /\ run[p] = "live"
    /\ IF kin[p] \in Children
       THEN /\ run' = [run EXCEPT ![p] = "zombie"]
            /\ sig' = [sig EXCEPT ![p] = "none"]
            /\ \E e \in Ends :
                 /\ e = "terminated" => sig[p] # "none"
                 /\ e = "killed" <=> sig[p] = "kill"
                 /\ ended' = [ended EXCEPT ![kin[p]] = e]
            /\ UNCHANGED <<kin, grp>>
       ELSE Release(p) /\ UNCHANGED ended
    /\ UNCHANGED <<childVars, callVars, fdOwner>>

\* A process that has not been killed may fork into its group ...
Fork(q, r) ==
    /\ run[q] = "live" /\ sig[q] # "kill" /\ grp[q] # NoPid
    /\ Available(r)
    /\ run' = [run EXCEPT ![r] = "live"]
    /\ grp' = [grp EXCEPT ![r] = grp[q]]
    /\ UNCHANGED <<childVars, callVars, kin, sig, ended, fdOwner>>

\* ... and may leave it, the leader included.
LeaveGroup(q) ==
    /\ run[q] = "live" /\ sig[q] # "kill" /\ grp[q] # NoPid
    /\ grp' = [grp EXCEPT ![q] = NoPid]
    /\ UNCHANGED <<childVars, callVars, run, kin, sig, ended, fdOwner>>

StrangerStarts(p) ==
    /\ Available(p)
    /\ run' = [run EXCEPT ![p] = "live"]
    /\ UNCHANGED <<childVars, callVars, kin, grp, sig, ended, fdOwner>>

HostOpens(f) ==
    /\ fdOwner[f] = Free
    /\ fdOwner' = [fdOwner EXCEPT ![f] = Host]
    /\ UNCHANGED <<childVars, callVars, procVars, ended>>

HostCloses(f) ==
    /\ fdOwner[f] = Host
    /\ fdOwner' = [fdOwner EXCEPT ![f] = Free]
    /\ UNCHANGED <<childVars, callVars, procVars, ended>>

HostReapsChild(p) ==
    /\ HostReaps
    /\ run[p] = "zombie"
    /\ Release(p)
    /\ UNCHANGED <<childVars, callVars, ended, fdOwner>>

\* Time runs out for the wait_timeout in progress.
Expire ==
    /\ at \in Steps /\ op = "wait_timeout" /\ ~expired
    /\ expired' = TRUE
    /\ UNCHANGED <<childVars, at, op, who, exitSeen, released, kernelVars>>

Program ==
    \/ CallStep
    \/ \E c \in Children, o \in Ops \ {"none"} : Call(o, c)
    \/ \E c \in Children, s \in Streams : CloseStream(c, s)
    \/ \E c \in Children, p \in Pids, leads \in BOOLEAN :
         \E streams \in NewStreams : Start(c, p, streams, leads)

Machine ==
    \/ \E p \in Pids : Die(p) \/ LeaveGroup(p) \/ StrangerStarts(p) \/ HostReapsChild(p)
    \/ \E q, r \in Pids : Fork(q, r)
    \/ \E f \in Fds : HostOpens(f) \/ HostCloses(f)
    \/ Expire

Next == Program \/ Machine

Spec == Init /\ [][Next]_vars

\* The thread keeps running its call, a process that was sent SIGKILL dies,
\* and time passes.
FairSpec ==
    /\ Spec
    /\ WF_vars(CallStep)
    /\ WF_vars(Expire)
    /\ \A p \in Pids : WF_vars(sig[p] = "kill" /\ Die(p))

-----------------------------------------------------------------------------
(* Safety.                                                                 *)

\* Every descriptor a handle records is open and was opened for that handle,
\* and every descriptor opened for a handle is recorded by exactly one of its
\* streams: nothing is read, written or closed after the number was recycled
\* by another thread of the host, and no descriptor leaks, whatever ends the
\* call and even when the host reaps the child.
DescriptorsExact ==
    /\ \A c \in Children, s \in Streams :
         fd[c][s] # NoFd => fdOwner[fd[c][s]] = c
    /\ \A f \in Fds : fdOwner[f] \in Children =>
         \E s \in Streams : fd[fdOwner[f]][s] = f
    /\ \A c \in Children, s, t \in Streams :
         s # t /\ fd[c][s] = fd[c][t] => fd[c][s] = NoFd
    /\ \A c \in Children : phase[c] # "open" => fd[c] = NoStreams

\* The pid a handle records is that of its own unreaped child, and an unreaped
\* child is recorded by its own open handle: close leaves no zombie behind and
\* a recycled identifier is never mistaken for the child.
ProcessExact ==
    \A c \in Children, p \in Pids :
        (run[p] # "free" /\ kin[p] = c) <=> (phase[c] = "open" /\ pid[c] = p)

\* A handle that has not seen its child end still has it, and a handle on a
\* group keeps the leader until the last step of close: every wait, poll and
\* signal can reach them, also after a call that failed half way.
OwnedUntilKnown ==
    \A c \in Children :
        phase[c] = "open" =>
            (pid[c] = NoPid <=>
                finished[c] /\ (~group[c] \/ (at = "finish" /\ who = c)))

\* What the steps of a call rely on; with TypeOK and OwnedUntilKnown it is
\* inductive.
CallInv ==
    /\ at \in Steps => phase[who] = "open"
    /\ at \in {"pipes", "await", "reap", "finish"} => op = "close"
    /\ at = "signal" => ~group[who] /\ ~finished[who]
    /\ at \in {"check", "group", "leader", "reap"} => group[who]
    /\ at \in {"reap", "finish"} => finished[who]
    /\ op = "close" /\ at \in Steps \ {"pipes"} => fd[who] = NoStreams
    /\ \A c \in Children : phase[c] # "open" => fd[c] = NoStreams /\ pid[c] = NoPid
    /\ \A c \in Children : phase[c] = "none" => ~finished[c]

\* A signal is delivered only by a call, and only to the child of its handle
\* or to a member of the group that child leads.
SignalsInScope ==
    [][\A p \in Pids : sig'[p] \notin {"none", sig[p]} =>
          /\ at \in Steps
          /\ \/ kin[p] = who
             \/ group[who] /\ grp[p] = pid[who]]_vars

\* The leader's identifier, which names the group, is given back only when
\* everybody left in the group has been killed: close sweeps the whole scope,
\* also when the leader ended long before.
GroupSwept ==
    [][\A c \in Children :
         group[c] /\ pid[c] # NoPid /\ pid'[c] = NoPid =>
            \A q \in Pids : run[q] = "live" /\ grp[q] = pid[c] => sig[q] = "kill"]_vars

-----------------------------------------------------------------------------
(* Liveness.                                                               *)

\* close waits for the operating system without a deadline, and returns: it
\* has sent SIGKILL, or lost the child, before it starts to wait.
CloseReturns == (op = "close" /\ at \in Steps) ~> at \in Idle

\* wait_timeout returns although its child never ends.
TimeoutReturns == (op = "wait_timeout" /\ at \in Steps) ~> at \in Idle

-----------------------------------------------------------------------------
(* The promise of the handle.                                              *)

Owned == INSTANCE OwnedChild WITH
    handle   <- phase,
    occupied <- [c \in Children |->
                   \E p \in Pids : run[p] # "free" /\ kin[p] = c],
    outcome  <- ended,
    told     <- [c \in Children |-> IF finished[c] THEN status[c] ELSE NotYet]

\* Every behaviour of the library keeps the promise of OwnedChild, as long as
\* the host leaves the children of the program to it.
KeepsPromise == Owned!Spec

=============================================================================
