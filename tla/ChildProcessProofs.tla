------------------------- MODULE ChildProcessProofs -------------------------
(***************************************************************************)
(* Proofs about ChildProcess, for any sets of handles, process identifiers *)
(* and descriptors.                                                        *)
(*                                                                         *)
(* HandleInv is the inductive invariant: the types, what the steps of a    *)
(* call rely on, and that a handle keeps its child until it knows its end. *)
(* It holds whether or not the host reaps our children.  OwnerInv adds,    *)
(* when it does not, that handles and unreaped children correspond, and    *)
(* EndsKnown what either of them knows of the end of the child: with them  *)
(* every step of the library is a step of OwnedChild.                      *)
(***************************************************************************)
EXTENDS ChildProcess, TLAPS

HandleInv == TypeOK /\ OwnedUntilKnown /\ CallInv

\* Initially no handle has been started and no call is in progress.
LEMMA HandleInit == Init => HandleInv
<1> SUFFICES ASSUME Init PROVE HandleInv
  OBVIOUS
<1>1. NoStreams \in [Streams -> Fds \cup {NoFd}]
  BY DEF NoStreams
<1>2. fd \in [Children -> [Streams -> Fds \cup {NoFd}]]
  BY <1>1 DEF Init, NoStreams
<1>3. TypeOK
  BY <1>2 DEF Init, TypeOK, Idle, Steps, Ops, Ends
<1>4. CallInv /\ OwnedUntilKnown
  BY DEF Init, CallInv, OwnedUntilKnown, Steps, NoStreams
<1> QED
  BY <1>3, <1>4 DEF HandleInv

\* Whatever observe saw, the call goes on at one of its steps or ends; it ends
\* or needs a signal only as send_signal and close ask for it.
LEMMA AfterPollCases ==
    \A ready : /\ AfterPoll(ready) \in {"check", "signal", "await", "returned"}
               /\ AfterPoll(ready) = "check" => group[who]
               /\ AfterPoll(ready) = "signal" => ~group[who] /\ ~ready
               /\ AfterPoll(ready) = "await" => op = "close"
  BY DEF AfterPoll, AfterSignal

LEMMA AfterObserveCases ==
    \A ready : /\ AfterObserve(ready) \in {"reap", "finish", "clock", "check",
                                            "signal", "await", "returned"}
               /\ AfterObserve(ready) = "check" => group[who]
               /\ AfterObserve(ready) = "signal" => ~group[who] /\ ~ready
               /\ AfterObserve(ready) = "await" => op = "close"
               /\ AfterObserve(ready) = "reap" => group[who] /\ at = "await"
               /\ AfterObserve(ready) = "finish" => ~group[who] /\ at = "await"
<1>1. \A ready : \/ AfterObserve(ready) = "reap" /\ group[who] /\ at = "await"
                 \/ AfterObserve(ready) = "finish" /\ ~group[who] /\ at = "await"
                 \/ AfterObserve(ready) \in {"clock", "returned"}
                 \/ AfterObserve(ready) = AfterPoll(ready)
  BY DEF AfterObserve
<1> QED
  BY <1>1, AfterPollCases

\* Each step of a call keeps the invariant.
LEMMA HandleCallStep == HandleInv /\ CallStep => HandleInv'
<1> SUFFICES ASSUME HandleInv, CallStep PROVE HandleInv'
  OBVIOUS
<1> USE SentinelsApart DEF HandleInv, Idle, Steps, Ops, Ends, Goto, EndCall
<1>1. CASE ObserveCached
  <2> DEFINE next == AfterObserve(TRUE)
  <2>0. /\ next \in {"reap", "finish", "clock", "check", "signal", "await", "returned"}
        /\ next = "check" => group[who]
        /\ next = "signal" => ~group[who] /\ FALSE
        /\ next = "await" => op = "close"
        /\ next = "reap" => group[who] /\ at = "await"
        /\ next = "finish" => ~group[who] /\ at = "await"
    BY AfterObserveCases
  <2>1. Goto(next) /\ at \in {"observe", "await"} /\ op # "none" /\ who \in Children
    BY <1>1 DEF ObserveCached, Observing, TypeOK
  <2> HIDE DEF next
  <2>2. TypeOK'
    BY <2>0, <2>1, <1>1, ZenonT(60) DEF TypeOK, ObserveCached, childVars, kernelVars
  <2>3. OwnedUntilKnown'
    BY <2>0, <2>1, <1>1 DEF TypeOK, OwnedUntilKnown, ObserveCached, childVars
  <2>4. CallInv'
    BY <2>0, <2>1, <1>1 DEF TypeOK, CallInv, ObserveCached, childVars
  <2> QED
    BY <2>2, <2>3, <2>4
<1>2. CASE ObserveLive
  <2> DEFINE next == AfterObserve(FALSE)
  <2>0. /\ next \in {"reap", "finish", "clock", "check", "signal", "await", "returned"}
        /\ next = "check" => group[who]
        /\ next = "signal" => ~group[who]
        /\ next = "await" => op = "close"
        /\ next = "reap" => group[who] /\ at = "await"
        /\ next = "finish" => ~group[who] /\ at = "await"
    BY AfterObserveCases
  <2>1. Goto(next) /\ at \in {"observe", "await"} /\ op # "none" /\ who \in Children
    BY <1>2 DEF ObserveLive, Observing, TypeOK
  <2> HIDE DEF next
  <2>2. TypeOK'
    BY <2>0, <2>1, <1>2, ZenonT(60) DEF TypeOK, ObserveLive, childVars, kernelVars
  <2>3. OwnedUntilKnown'
    BY <2>0, <2>1, <1>2 DEF TypeOK, OwnedUntilKnown, ObserveLive, Blocking, childVars
  <2>4. CallInv'
    BY <2>0, <2>1, <1>2 DEF TypeOK, CallInv, ObserveLive, Blocking, childVars
  <2> QED
    BY <2>2, <2>3, <2>4
<1>3. CASE ObserveExit
  <2> DEFINE next == AfterObserve(TRUE)
  <2>0. /\ next \in {"reap", "finish", "clock", "check", "signal", "await", "returned"}
        /\ next = "check" => group[who]
        /\ next = "signal" => ~group[who] /\ FALSE
        /\ next = "await" => op = "close"
        /\ next = "reap" => group[who] /\ at = "await"
        /\ next = "finish" => ~group[who] /\ at = "await"
    BY AfterObserveCases
  <2>1. Goto(next) /\ at \in {"observe", "await"} /\ op # "none" /\ who \in Children
    BY <1>3 DEF ObserveExit, Collect, Observing, TypeOK
  <2> HIDE DEF next
  <2>2. phase[who] = "open" /\ ~finished[who] /\ pid[who] \in Pids
    BY <2>1, <1>3 DEF TypeOK, OwnedUntilKnown, CallInv, ObserveExit
  <2>3. ended[kin[pid[who]]] \in Ends \cup {NotYet}
    BY <2>2, <1>3 DEF TypeOK, ObserveExit, Collect, Waitable
  <2>4. /\ finished' = [finished EXCEPT ![who] = TRUE]
        /\ pid' = IF group[who] THEN pid ELSE [pid EXCEPT ![who] = NoPid]
        /\ UNCHANGED <<phase, group, fd, ended, fdOwner>>
    BY <1>3 DEF ObserveExit, Collect
  <2>5. run' \in [Pids -> {"free", "live", "zombie"}] /\ kin' \in [Pids -> Children \cup {Stranger}]
        /\ grp' \in [Pids -> Pids \cup {NoPid}] /\ sig' \in [Pids -> {"none", "term", "kill"}]
    <3>1. CASE group[who]
      BY <3>1, <1>3 DEF TypeOK, ObserveExit, Collect, procVars
    <3>2. CASE ~group[who]
      BY <3>2, <1>3, ZenonT(60) DEF TypeOK, ObserveExit, Collect, Release
    <3> QED
      BY <3>1, <3>2
  <2>6. status' \in [Children -> Ends \cup {NotYet}]
    BY <2>1, <2>3, <1>3 DEF TypeOK, ObserveExit, Collect
  <2>7. TypeOK'
    <3>1. pid' \in [Children -> Pids \cup {NoPid}] /\ finished' \in [Children -> BOOLEAN]
      BY <2>1, <2>4 DEF TypeOK
    <3>2. /\ at' \in Idle \cup Steps /\ op' \in Ops /\ who' \in Children \cup {Nobody}
          /\ at' \in Steps => op' # "none" /\ who' \in Children
          /\ expired' \in BOOLEAN /\ exitSeen' \in BOOLEAN /\ released' \in BOOLEAN
      BY <2>0, <2>1, ZenonT(60) DEF TypeOK
    <3> QED
      BY <2>4, <2>5, <2>6, <3>1, <3>2 DEF TypeOK
  <2>8. OwnedUntilKnown'
    BY <2>0, <2>1, <2>2, <2>4 DEF TypeOK, OwnedUntilKnown
  <2>9. CallInv'
    BY <2>0, <2>1, <2>2, <2>4 DEF TypeOK, CallInv
  <2> QED
    BY <2>7, <2>8, <2>9
<1>4. CASE ObserveGone
  <2>1. TypeOK'
    BY <1>4 DEF TypeOK, OwnedUntilKnown, CallInv, ObserveGone, Observing, Abandon, close_pipes, NoStreams, procVars
  <2>2. OwnedUntilKnown'
    BY <1>4 DEF TypeOK, OwnedUntilKnown, CallInv, ObserveGone, Observing, Abandon, close_pipes, NoStreams, procVars
  <2>3. CallInv'
    BY <1>4 DEF TypeOK, OwnedUntilKnown, CallInv, ObserveGone, Observing, Abandon, close_pipes, NoStreams, procVars
  <2> QED
    BY <2>1, <2>2, <2>3
<1>5. CASE SignalChild
  <2>1. TypeOK'
    BY <1>5, ZenonT(60) DEF TypeOK, OwnedUntilKnown, CallInv, SignalChild, Deliver, AfterSignal, childVars
  <2>2. OwnedUntilKnown'
    BY <1>5 DEF TypeOK, OwnedUntilKnown, CallInv, SignalChild, Deliver, AfterSignal, childVars
  <2>3. CallInv'
    BY <1>5 DEF TypeOK, OwnedUntilKnown, CallInv, SignalChild, Deliver, AfterSignal, childVars
  <2> QED
    BY <2>1, <2>2, <2>3
<1>6. CASE SignalRefused
  <2>1. TypeOK'
    BY <1>6 DEF TypeOK, OwnedUntilKnown, CallInv, SignalRefused, childVars, kernelVars
  <2>2. OwnedUntilKnown'
    BY <1>6 DEF TypeOK, OwnedUntilKnown, CallInv, SignalRefused, childVars, kernelVars
  <2>3. CallInv'
    BY <1>6 DEF TypeOK, OwnedUntilKnown, CallInv, SignalRefused, childVars, kernelVars
  <2> QED
    BY <2>1, <2>2, <2>3
<1>7. CASE GroupCheck
  <2>1. TypeOK'
    BY <1>7 DEF TypeOK, OwnedUntilKnown, CallInv, GroupCheck, childVars, kernelVars
  <2>2. OwnedUntilKnown'
    BY <1>7 DEF TypeOK, OwnedUntilKnown, CallInv, GroupCheck, childVars, kernelVars
  <2>3. CallInv'
    BY <1>7 DEF TypeOK, OwnedUntilKnown, CallInv, GroupCheck, childVars, kernelVars
  <2> QED
    BY <2>1, <2>2, <2>3
<1>8. CASE GroupGone
  <2>1. TypeOK'
    BY <1>8 DEF TypeOK, OwnedUntilKnown, CallInv, GroupGone, Abandon, close_pipes, NoStreams, procVars
  <2>2. OwnedUntilKnown'
    BY <1>8 DEF TypeOK, OwnedUntilKnown, CallInv, GroupGone, Abandon, close_pipes, NoStreams, procVars
  <2>3. CallInv'
    BY <1>8 DEF TypeOK, OwnedUntilKnown, CallInv, GroupGone, Abandon, close_pipes, NoStreams, procVars
  <2> QED
    BY <2>1, <2>2, <2>3
<1>9. CASE GroupKill
  <2>1. TypeOK'
    BY <1>9, ZenonT(60) DEF TypeOK, OwnedUntilKnown, CallInv, GroupKill, Deliver, AfterSignal, childVars
  <2>2. OwnedUntilKnown'
    BY <1>9 DEF TypeOK, OwnedUntilKnown, CallInv, GroupKill, Deliver, AfterSignal, childVars
  <2>3. CallInv'
    BY <1>9 DEF TypeOK, OwnedUntilKnown, CallInv, GroupKill, Deliver, AfterSignal, childVars
  <2> QED
    BY <2>1, <2>2, <2>3
<1>10. CASE LeaderKill
  <2>1. TypeOK'
    BY <1>10, ZenonT(60) DEF TypeOK, OwnedUntilKnown, CallInv, LeaderKill, Deliver, AfterSignal, childVars
  <2>2. OwnedUntilKnown'
    BY <1>10 DEF TypeOK, OwnedUntilKnown, CallInv, LeaderKill, Deliver, AfterSignal, childVars
  <2>3. CallInv'
    BY <1>10 DEF TypeOK, OwnedUntilKnown, CallInv, LeaderKill, Deliver, AfterSignal, childVars
  <2> QED
    BY <2>1, <2>2, <2>3
<1>11. CASE Clock
  <2>1. TypeOK'
    BY <1>11, ZenonT(60) DEF TypeOK, OwnedUntilKnown, CallInv, Clock, wait_interval, childVars, kernelVars
  <2>2. OwnedUntilKnown'
    BY <1>11 DEF TypeOK, OwnedUntilKnown, CallInv, Clock, wait_interval, childVars, kernelVars
  <2>3. CallInv'
    BY <1>11 DEF TypeOK, OwnedUntilKnown, CallInv, Clock, wait_interval, childVars, kernelVars
  <2> QED
    BY <2>1, <2>2, <2>3
<1>12. CASE Sleep
  <2>1. TypeOK'
    BY <1>12, ZenonT(60) DEF TypeOK, OwnedUntilKnown, CallInv, Sleep, childVars, kernelVars
  <2>2. OwnedUntilKnown'
    BY <1>12 DEF TypeOK, OwnedUntilKnown, CallInv, Sleep, childVars, kernelVars
  <2>3. CallInv'
    BY <1>12 DEF TypeOK, OwnedUntilKnown, CallInv, Sleep, childVars, kernelVars
  <2> QED
    BY <2>1, <2>2, <2>3
<1>13. CASE ClosePipes
  <2>1. TypeOK'
    BY <1>13 DEF TypeOK, OwnedUntilKnown, CallInv, ClosePipes, close_pipes, NoStreams, procVars
  <2>2. OwnedUntilKnown'
    BY <1>13 DEF TypeOK, OwnedUntilKnown, CallInv, ClosePipes, close_pipes, NoStreams, procVars
  <2>3. CallInv'
    BY <1>13 DEF TypeOK, OwnedUntilKnown, CallInv, ClosePipes, close_pipes, NoStreams, procVars
  <2> QED
    BY <2>1, <2>2, <2>3
<1>14. CASE ReapLeader
  <2>1. TypeOK'
    BY <1>14 DEF TypeOK, OwnedUntilKnown, CallInv, ReapLeader, Release
  <2>2. OwnedUntilKnown'
    BY <1>14 DEF TypeOK, OwnedUntilKnown, CallInv, ReapLeader, Release
  <2>3. CallInv'
    BY <1>14 DEF TypeOK, OwnedUntilKnown, CallInv, ReapLeader, Release
  <2> QED
    BY <2>1, <2>2, <2>3
<1>15. CASE LeaderGone
  <2>1. TypeOK'
    BY <1>15 DEF TypeOK, OwnedUntilKnown, CallInv, LeaderGone, kernelVars
  <2>2. OwnedUntilKnown'
    BY <1>15 DEF TypeOK, OwnedUntilKnown, CallInv, LeaderGone, kernelVars
  <2>3. CallInv'
    BY <1>15 DEF TypeOK, OwnedUntilKnown, CallInv, LeaderGone, kernelVars
  <2> QED
    BY <2>1, <2>2, <2>3
<1>16. CASE FinishClose
  <2>1. TypeOK'
    BY <1>16 DEF TypeOK, OwnedUntilKnown, CallInv, FinishClose, kernelVars
  <2>2. OwnedUntilKnown'
    BY <1>16 DEF TypeOK, OwnedUntilKnown, CallInv, FinishClose, kernelVars
  <2>3. CallInv'
    BY <1>16 DEF TypeOK, OwnedUntilKnown, CallInv, FinishClose, kernelVars
  <2> QED
    BY <2>1, <2>2, <2>3
<1> QED
  BY <1>1, <1>2, <1>3, <1>4, <1>5, <1>6, <1>7, <1>8, <1>9, <1>10, <1>11, <1>12, <1>13, <1>14, <1>15, <1>16 DEF CallStep

\* So does a call that begins, and a launch.
LEMMA HandleProgram == HandleInv /\ Program => HandleInv'
<1> SUFFICES ASSUME HandleInv, Program PROVE HandleInv'
  OBVIOUS
<1> USE SentinelsApart DEF HandleInv, Idle, Steps, Ops, Ends
<1>1. CASE CallStep
  BY <1>1, HandleCallStep
<1>2. ASSUME NEW c \in Children, NEW o \in Ops \ {"none"}, Call(o, c)
      PROVE  HandleInv'
  <2>1. TypeOK'
    BY <1>2 DEF TypeOK, Call, childVars, kernelVars
  <2>2. OwnedUntilKnown'
    BY <1>2 DEF TypeOK, OwnedUntilKnown, Call, childVars
  <2>3. CallInv'
    BY <1>2 DEF TypeOK, CallInv, Call, childVars
  <2> QED
    BY <2>1, <2>2, <2>3
<1>3. ASSUME NEW c \in Children, NEW s \in Streams, CloseStream(c, s)
      PROVE  HandleInv'
  <2>1. TypeOK'
    BY <1>3 DEF TypeOK, CloseStream, close_descriptor, callVars, procVars
  <2>2. OwnedUntilKnown'
    BY <1>3 DEF TypeOK, OwnedUntilKnown, CloseStream, callVars
  <2>3. CallInv'
    BY <1>3 DEF TypeOK, CallInv, CloseStream, close_descriptor, callVars
  <2> QED
    BY <2>1, <2>2, <2>3
<1>4. ASSUME NEW c \in Children, NEW p \in Pids, NEW leads \in BOOLEAN,
             NEW streams \in NewStreams, Start(c, p, streams, leads)
      PROVE  HandleInv'
  <2>1. streams \in [Streams -> Fds \cup {NoFd}]
    BY DEF NewStreams, NoStreams
  <2>2. TypeOK'
    BY <1>4, <2>1 DEF TypeOK, Start, callVars
  <2>3. OwnedUntilKnown'
    BY <1>4 DEF TypeOK, OwnedUntilKnown, CallInv, Start, callVars
  <2>4. CallInv'
    BY <1>4 DEF TypeOK, CallInv, Start, callVars
  <2> QED
    BY <2>2, <2>3, <2>4
<1> QED
  BY <1>1, <1>2, <1>3, <1>4 DEF Program

\* The rest of the machine never touches a handle.
LEMMA HandleMachine == HandleInv /\ Machine => HandleInv'
<1> SUFFICES ASSUME HandleInv, Machine PROVE HandleInv'
  OBVIOUS
<1> USE SentinelsApart DEF HandleInv, TypeOK
<1>1. UNCHANGED childVars /\ UNCHANGED <<at, op, who, exitSeen, released>>
      /\ expired' \in BOOLEAN
  BY DEF Machine, Die, Fork, LeaveGroup, StrangerStarts, HostOpens, HostCloses,
         HostReapsChild, Expire, callVars, childVars
<1>2. OwnedUntilKnown' /\ CallInv'
  BY <1>1 DEF childVars, OwnedUntilKnown, CallInv
<1>3. /\ run' \in [Pids -> {"free", "live", "zombie"}]
      /\ kin' \in [Pids -> Children \cup {Stranger}]
      /\ grp' \in [Pids -> Pids \cup {NoPid}]
      /\ sig' \in [Pids -> {"none", "term", "kill"}]
      /\ ended' \in [Children -> Ends \cup {NotYet}]
      /\ fdOwner' \in [Fds -> Children \cup {Free, Host}]
  <2>1. ASSUME NEW p \in Pids, Die(p) PROVE <1>3!:
    <3>1. CASE kin[p] \in Children
      <4>1. PICK e \in Ends : ended' = [ended EXCEPT ![kin[p]] = e]
        BY <2>1, <3>1 DEF Die
      <4> QED
        BY <2>1, <3>1, <4>1 DEF Die
    <3>2. CASE kin[p] \notin Children
      BY <2>1, <3>2, ZenonT(60) DEF Die, Release
    <3> QED
      BY <3>1, <3>2
  <2>2. ASSUME NEW p \in Pids, LeaveGroup(p) \/ StrangerStarts(p) PROVE <1>3!:
    BY <2>2, ZenonT(60) DEF LeaveGroup, StrangerStarts
  <2>3. ASSUME NEW p \in Pids, HostReapsChild(p) PROVE <1>3!:
    BY <2>3 DEF HostReapsChild, Release
  <2>4. ASSUME NEW q \in Pids, NEW r \in Pids, Fork(q, r) PROVE <1>3!:
    BY <2>4 DEF Fork
  <2>5. ASSUME NEW f \in Fds, HostOpens(f) \/ HostCloses(f) PROVE <1>3!:
    BY <2>5 DEF HostOpens, HostCloses, procVars
  <2>6. CASE Expire
    BY <2>6 DEF Expire, kernelVars
  <2> QED
    BY <2>1, <2>2, <2>3, <2>4, <2>5, <2>6 DEF Machine
<1>4. TypeOK'
  BY <1>1, <1>3 DEF childVars
<1> QED
  BY <1>2, <1>4

\* The invariant of the handles holds throughout, host reaping included.
THEOREM HandleInvariant == Spec => []HandleInv
<1>1. HandleInv /\ [Next]_vars => HandleInv'
  <2> SUFFICES ASSUME HandleInv, [Next]_vars PROVE HandleInv'
    OBVIOUS
  <2>1. CASE Next
    BY <2>1, HandleProgram, HandleMachine DEF Next
  <2>2. CASE UNCHANGED vars
    BY <2>2 DEF vars, childVars, callVars, kernelVars, HandleInv, TypeOK,
                OwnedUntilKnown, CallInv
  <2> QED
    BY <2>1, <2>2
<1> QED
  BY <1>1, HandleInit, PTL DEF Spec

\* Every variable of the component keeps its type.
THEOREM TypeCorrect == Spec => []TypeOK
  BY HandleInvariant, PTL DEF HandleInv

\* A handle that has not seen its child end still has it, for any host.
THEOREM ChildKeptUntilKnown == Spec => []OwnedUntilKnown
  BY HandleInvariant, PTL DEF HandleInv

-----------------------------------------------------------------------------
(* Descriptors.                                                            *)

\* Closing all three pipes leaves the other handles' descriptors alone.
LEMMA ClosePipesExact ==
    ASSUME HandleInv, DescriptorsExact, NEW c \in Children, close_pipes(c),
           \A d \in Children \ {c} : phase'[d] = phase[d]
    PROVE  DescriptorsExact'
<1> USE SentinelsApart DEF HandleInv, TypeOK
<1>1. /\ fd' \in [Children -> [Streams -> Fds \cup {NoFd}]]
      /\ \A d \in Children, s \in Streams :
           fd'[d][s] = IF d = c THEN NoFd ELSE fd[d][s]
      /\ fd'[c] = NoStreams /\ \A d \in Children \ {c} : fd'[d] = fd[d]
  BY DEF close_pipes, NoStreams
<1>2. \A f \in Fds : fdOwner'[f] = IF \E s \in Streams : f = fd[c][s]
                                   THEN Free ELSE fdOwner[f]
  BY DEF close_pipes
<1>3. ASSUME NEW d \in Children, NEW s \in Streams, fd'[d][s] # NoFd
      PROVE  fdOwner'[fd'[d][s]] = d
  BY <1>1, <1>2, <1>3 DEF DescriptorsExact
<1>4. ASSUME NEW f \in Fds, fdOwner'[f] \in Children
      PROVE  \E s \in Streams : fd'[fdOwner'[f]][s] = f
  <2>1. fdOwner'[f] = fdOwner[f] /\ \A s \in Streams : f # fd[c][s]
    BY <1>2, <1>4
  <2>2. PICK s \in Streams : fd[fdOwner[f]][s] = f
    BY <1>4, <2>1 DEF DescriptorsExact
  <2>3. fdOwner[f] # c
    BY <2>1, <2>2
  <2> QED
    BY <1>1, <1>4, <2>1, <2>2, <2>3
<1> QED
  BY <1>1, <1>3, <1>4 DEF DescriptorsExact

\* No step reads, closes or forgets a descriptor that is not its own.
LEMMA DescriptorsStep ==
    HandleInv /\ DescriptorsExact /\ [Next]_vars => DescriptorsExact'
<1> SUFFICES ASSUME HandleInv, DescriptorsExact, [Next]_vars
             PROVE  DescriptorsExact'
  OBVIOUS
<1> USE SentinelsApart
<1>0. ASSUME UNCHANGED <<fd, fdOwner>>,
             \A c \in Children : phase'[c] # phase[c] => fd[c] = NoStreams
      PROVE  DescriptorsExact'
  BY <1>0 DEF DescriptorsExact
<1>1. CASE ObserveGone \/ GroupGone \/ ClosePipes
  <2>1. who \in Children
    BY <1>1 DEF HandleInv, TypeOK, ObserveGone, Observing, GroupGone, ClosePipes, Steps
  <2>2. close_pipes(who) /\ \A d \in Children \ {who} : phase'[d] = phase[d]
    BY <1>1 DEF HandleInv, TypeOK, ObserveGone, GroupGone, ClosePipes, Abandon
  <2> QED
    BY <2>1, <2>2, ClosePipesExact
<1>2. CASE LeaderGone \/ FinishClose
  <2>1. UNCHANGED <<fd, fdOwner>> /\ fd[who] = NoStreams
    BY <1>2 DEF HandleInv, CallInv, LeaderGone, FinishClose, kernelVars, Steps
  <2>2. \A c \in Children : phase'[c] # phase[c] => c = who
    BY <1>2 DEF HandleInv, TypeOK, LeaderGone, FinishClose
  <2> QED
    BY <1>0, <2>1, <2>2
<1>3. CASE ObserveCached \/ ObserveLive \/ ObserveExit \/ SignalChild \/ SignalRefused
           \/ GroupCheck \/ GroupKill \/ LeaderKill \/ Clock \/ Sleep \/ ReapLeader
  <2>1. UNCHANGED <<fd, fdOwner, phase>>
    BY <1>3 DEF ObserveCached, ObserveLive, ObserveExit, Collect, SignalChild, SignalRefused,
                GroupCheck, GroupKill, LeaderKill, Clock, Sleep, ReapLeader,
                childVars, kernelVars
  <2> QED
    BY <1>0, <2>1
<1>4. ASSUME NEW c \in Children, NEW o \in Ops \ {"none"}, Call(o, c)
      PROVE  DescriptorsExact'
  BY <1>0, <1>4 DEF Call, childVars, kernelVars
<1>5. ASSUME NEW c \in Children, NEW s \in Streams, CloseStream(c, s)
      PROVE  DescriptorsExact'
  <2> USE DEF HandleInv, TypeOK
  <2>1. /\ \A d \in Children, t \in Streams :
             fd'[d][t] = IF d = c /\ t = s THEN NoFd ELSE fd[d][t]
        /\ \A d \in Children \ {c} : fd'[d] = fd[d]
        /\ phase' = phase /\ phase[c] = "open"
    BY <1>5 DEF CloseStream, close_descriptor
  <2>2. \A f \in Fds : fdOwner'[f] = IF f = fd[c][s] THEN Free ELSE fdOwner[f]
    BY <1>5 DEF CloseStream, close_descriptor
  <2>3. ASSUME NEW d \in Children, NEW t \in Streams, fd'[d][t] # NoFd
        PROVE  fdOwner'[fd'[d][t]] = d
    BY <2>1, <2>2, <2>3 DEF DescriptorsExact
  <2>4. ASSUME NEW f \in Fds, fdOwner'[f] \in Children
        PROVE  \E t \in Streams : fd'[fdOwner'[f]][t] = f
    <3>1. fdOwner'[f] = fdOwner[f] /\ f # fd[c][s]
      BY <2>2, <2>4
    <3>2. PICK t \in Streams : fd[fdOwner[f]][t] = f
      BY <2>4, <3>1 DEF DescriptorsExact
    <3>3. ~(fdOwner[f] = c /\ t = s)
      BY <3>1, <3>2
    <3>4. PICK d \in Children : d = fdOwner[f]
      BY <2>4, <3>1
    <3>5. fd'[d][t] = fd[d][t]
      BY <2>1, <3>3, <3>4
    <3> QED
      BY <3>1, <3>2, <3>4, <3>5
  <2> QED
    BY <2>1, <2>3, <2>4 DEF DescriptorsExact
<1>6. ASSUME NEW c \in Children, NEW p \in Pids, NEW leads \in BOOLEAN,
             NEW streams \in NewStreams, Start(c, p, streams, leads)
      PROVE  DescriptorsExact'
  <2> USE DEF HandleInv, TypeOK
  <2>1. /\ phase[c] = "none" /\ phase' = [phase EXCEPT ![c] = "open"]
        /\ fd' = [fd EXCEPT ![c] = streams]
        /\ \A f \in Fds : fdOwner'[f] = IF \E s \in Streams : f = streams[s]
                                         THEN c ELSE fdOwner[f]
    BY <1>6 DEF Start
  <2>2. /\ streams \in [Streams -> Fds \cup {NoFd}]
        /\ \A s \in Streams : streams[s] # NoFd => fdOwner[streams[s]] = Free
        /\ \A s, t \in Streams : s # t /\ streams[s] = streams[t] => streams[s] = NoFd
    BY DEF NewStreams, NoStreams
  <2>3. \A s \in Streams : fd[c][s] = NoFd
    BY <2>1 DEF CallInv, NoStreams
  <2>4. ASSUME NEW d \in Children, NEW s \in Streams, fd'[d][s] # NoFd
        PROVE  fdOwner'[fd'[d][s]] = d
    BY <2>1, <2>2, <2>4 DEF DescriptorsExact
  <2>5. ASSUME NEW f \in Fds, fdOwner'[f] \in Children
        PROVE  \E s \in Streams : fd'[fdOwner'[f]][s] = f
    <3>1. CASE \E s \in Streams : f = streams[s]
      BY <2>1, <3>1
    <3>2. CASE ~ \E s \in Streams : f = streams[s]
      <4>1. fdOwner'[f] = fdOwner[f]
        BY <2>1, <3>2
      <4>2. PICK s \in Streams : fd[fdOwner[f]][s] = f
        BY <2>5, <4>1 DEF DescriptorsExact
      <4>3. fdOwner[f] # c
        BY <2>3, <4>2
      <4> QED
        BY <2>1, <2>5, <4>1, <4>2, <4>3
    <3> QED
      BY <3>1, <3>2
  <2> QED
    BY <2>1, <2>2, <2>4, <2>5 DEF DescriptorsExact
<1>7. ASSUME NEW f \in Fds, HostOpens(f) \/ HostCloses(f)
      PROVE  DescriptorsExact'
  <2>1. UNCHANGED <<fd, phase>>
    BY <1>7 DEF HostOpens, HostCloses, childVars
  <2>2. /\ fdOwner[f] \in {Free, Host} /\ fdOwner'[f] \in {Free, Host}
        /\ \A g \in Fds \ {f} : fdOwner'[g] = fdOwner[g]
    BY <1>7 DEF HostOpens, HostCloses, HandleInv, TypeOK
  <2>3. \A c \in Children, s \in Streams : fd[c][s] # f
    BY <2>2 DEF HandleInv, TypeOK, DescriptorsExact
  <2> QED
    BY <2>1, <2>2, <2>3 DEF HandleInv, TypeOK, DescriptorsExact
<1>8. CASE Expire \/ \E p \in Pids : \/ Die(p) \/ LeaveGroup(p) \/ StrangerStarts(p)
                                     \/ HostReapsChild(p) \/ \E r \in Pids : Fork(p, r)
  <2>1. UNCHANGED <<fd, fdOwner, phase>>
    BY <1>8 DEF Expire, Die, LeaveGroup, StrangerStarts, HostReapsChild, Fork,
                childVars, kernelVars
  <2> QED
    BY <1>0, <2>1
<1>9. CASE UNCHANGED vars
  BY <1>0, <1>9 DEF vars, childVars, kernelVars
<1> QED
  BY <1>1, <1>2, <1>3, <1>4, <1>5, <1>6, <1>7, <1>8, <1>9
     DEF Next, Program, Machine, CallStep

\* Descriptors are neither leaked nor used after their number was recycled,
\* whoever else opens and closes descriptors, and even if the host reaps.
THEOREM DescriptorsAreExact == Spec => []DescriptorsExact
<1>1. Init => DescriptorsExact
  BY SentinelsApart DEF Init, DescriptorsExact, NoStreams
<1> QED
  BY <1>1, DescriptorsStep, HandleInvariant, PTL DEF Spec

-----------------------------------------------------------------------------
(* Processes, when the host leaves our children to us.                     *)

\* An identifier that is free is in no group and is nobody's child; once
\* close has signalled a group, whoever is left in it is dying.
FreeIsClean ==
    \A p \in Pids : run[p] = "free" => kin[p] = Stranger /\ grp[p] = NoPid

Sweeping ==
    op = "close" /\ at \in {"leader", "await", "reap"} /\ group[who] =>
        \A q \in Pids : run[q] = "live" /\ grp[q] = pid[who] => sig[q] = "kill"

OwnerInv == HandleInv /\ ProcessExact /\ FreeIsClean /\ Sweeping

\* The child of a call in progress is there to be waited for.
LEMMA ChildIsThere ==
    ASSUME OwnerInv, at \in Steps, pid[who] # NoPid
    PROVE  /\ who \in Children /\ pid[who] \in Pids
           /\ Waitable(pid[who]) /\ kin[pid[who]] = who
  BY SentinelsApart
     DEF OwnerInv, HandleInv, TypeOK, CallInv, ProcessExact, Waitable

\* In every state in which it is asked for, so nothing is ever found lost.
LEMMA NeverLost ==
    OwnerInv => ~ObserveGone /\ ~GroupGone /\ ~LeaderGone
<1> SUFFICES ASSUME OwnerInv, ObserveGone \/ GroupGone \/ LeaderGone PROVE FALSE
  OBVIOUS
<1>1. at \in Steps /\ ~Waitable(pid[who])
  BY DEF ObserveGone, Observing, GroupGone, LeaderGone, Steps
<1>2. who \in Children /\ phase[who] = "open" /\ at # "finish"
      /\ (~finished[who] \/ group[who])
  BY <1>1 DEF OwnerInv, HandleInv, TypeOK, CallInv, ObserveGone, Observing, GroupGone, LeaderGone
<1>3. pid[who] # NoPid
  BY <1>2 DEF OwnerInv, HandleInv, OwnedUntilKnown
<1> QED
  BY <1>1, <1>3, ChildIsThere

\* Giving a child back frees its identifier and forgets it in its handle.
LEMMA ReleaseOwned ==
    ASSUME OwnerInv, at \in Steps, pid[who] # NoPid, Release(pid[who]),
           pid' = [pid EXCEPT ![who] = NoPid], UNCHANGED phase
    PROVE  ProcessExact' /\ FreeIsClean'
<1>1. who \in Children /\ pid[who] \in Pids /\ kin[pid[who]] = who
  BY ChildIsThere
<1>2. /\ \A p \in Pids : run'[p] = IF p = pid[who] THEN "free" ELSE run[p]
      /\ \A p \in Pids : kin'[p] = IF p = pid[who] THEN Stranger ELSE kin[p]
      /\ \A p \in Pids : grp'[p] = IF p = pid[who] THEN NoPid ELSE grp[p]
      /\ \A c \in Children : pid'[c] = IF c = who THEN NoPid ELSE pid[c]
  BY <1>1 DEF OwnerInv, HandleInv, TypeOK, Release
<1>3. run[pid[who]] # "free"
  BY <1>1, ChildIsThere DEF Waitable
<1>4. ProcessExact'
  BY <1>1, <1>2, <1>3, SentinelsApart DEF OwnerInv, HandleInv, TypeOK, ProcessExact
<1>5. FreeIsClean'
  BY <1>1, <1>2 DEF OwnerInv, FreeIsClean
<1> QED
  BY <1>4, <1>5

\* Steps of a call and launches keep handles and processes in agreement.
LEMMA ProcessProgram ==
    OwnerInv /\ Program => ProcessExact' /\ FreeIsClean'
<1> SUFFICES ASSUME OwnerInv, Program PROVE ProcessExact' /\ FreeIsClean'
  OBVIOUS
<1>0. ASSUME UNCHANGED <<phase, pid, run, kin, grp>>
      PROVE  ProcessExact' /\ FreeIsClean'
  BY <1>0 DEF OwnerInv, ProcessExact, FreeIsClean
<1>1. CASE ObserveCached \/ ObserveLive \/ SignalChild \/ SignalRefused \/ GroupCheck
           \/ GroupKill \/ LeaderKill \/ Clock \/ Sleep \/ ClosePipes
  <2>1. UNCHANGED <<phase, pid, run, kin, grp>>
    BY <1>1 DEF ObserveCached, ObserveLive, SignalChild, SignalRefused, GroupCheck,
                GroupKill, LeaderKill, Clock, Sleep, ClosePipes,
                childVars, kernelVars, procVars
  <2> QED
    BY <1>0, <2>1
<1>2. CASE ObserveExit
  <2>1. at \in Steps /\ phase[who] = "open" /\ pid[who] # NoPid
    BY <1>2 DEF ObserveExit, Collect, Observing, Steps, OwnerInv, HandleInv, TypeOK, CallInv,
                OwnedUntilKnown
  <2>2. CASE group[who]
    BY <1>0, <1>2, <2>2 DEF ObserveExit, Collect, procVars
  <2>3. CASE ~group[who]
    BY <1>2, <2>1, <2>3, ReleaseOwned DEF ObserveExit, Collect
  <2> QED
    BY <2>2, <2>3
<1>3. CASE ReapLeader
  <2>1. at \in Steps /\ phase[who] = "open" /\ pid[who] # NoPid
    BY <1>3 DEF ReapLeader, Steps, OwnerInv, HandleInv, TypeOK, CallInv, OwnedUntilKnown
  <2> QED
    BY <1>3, <2>1, ReleaseOwned DEF ReapLeader
<1>4. CASE FinishClose
  <2>1. who \in Children /\ phase[who] = "open" /\ pid[who] = NoPid
    BY <1>4 DEF FinishClose, Steps, OwnerInv, HandleInv, TypeOK, CallInv, OwnedUntilKnown
  <2>2. UNCHANGED <<pid, run, kin, grp>> /\ phase' = [phase EXCEPT ![who] = "closed"]
    BY <1>4 DEF FinishClose, kernelVars
  <2> QED
    BY <2>1, <2>2, SentinelsApart
       DEF OwnerInv, HandleInv, TypeOK, ProcessExact, FreeIsClean
<1>5. ASSUME NEW c \in Children, NEW o \in Ops \ {"none"}, Call(o, c)
      PROVE  ProcessExact' /\ FreeIsClean'
  BY <1>0, <1>5 DEF Call, childVars, kernelVars
<1>6. ASSUME NEW c \in Children, NEW s \in Streams, CloseStream(c, s)
      PROVE  ProcessExact' /\ FreeIsClean'
  BY <1>0, <1>6 DEF CloseStream, procVars
<1>7. ASSUME NEW c \in Children, NEW p \in Pids, NEW leads \in BOOLEAN,
             NEW streams \in NewStreams, Start(c, p, streams, leads)
      PROVE  ProcessExact' /\ FreeIsClean'
  <2> USE DEF OwnerInv, HandleInv, TypeOK
  <2>1. /\ phase[c] = "none" /\ run[p] = "free"
        /\ \A d \in Children : phase'[d] = IF d = c THEN "open" ELSE phase[d]
        /\ \A d \in Children : pid'[d] = IF d = c THEN p ELSE pid[d]
        /\ \A q \in Pids : run'[q] = IF q = p THEN "live" ELSE run[q]
        /\ \A q \in Pids : kin'[q] = IF q = p THEN c ELSE kin[q]
        /\ \A q \in Pids \ {p} : grp'[q] = grp[q]
    BY <1>7 DEF Start, Available
  <2>2. ProcessExact'
    BY <2>1, SentinelsApart DEF ProcessExact
  <2>3. FreeIsClean'
    BY <2>1 DEF FreeIsClean
  <2> QED
    BY <2>2, <2>3
<1> QED
  BY <1>1, <1>2, <1>3, <1>4, <1>5, <1>6, <1>7, NeverLost DEF Program, CallStep

\* So does the rest of the machine, when the host does not reap.
LEMMA ProcessMachine ==
    ASSUME ~HostReaps, OwnerInv, Machine
    PROVE  ProcessExact' /\ FreeIsClean'
<1> USE SentinelsApart DEF OwnerInv, HandleInv, TypeOK
<1>0. UNCHANGED <<phase, pid>>
  BY DEF Machine, Die, Fork, LeaveGroup, StrangerStarts, HostOpens, HostCloses,
         HostReapsChild, Expire, childVars
<1>1. ASSUME NEW p \in Pids, Die(p) PROVE ProcessExact' /\ FreeIsClean'
  <2>1. CASE kin[p] \in Children
    BY <1>0, <1>1, <2>1 DEF Die, ProcessExact, FreeIsClean
  <2>2. CASE kin[p] \notin Children
    BY <1>0, <1>1, <2>2 DEF Die, Release, ProcessExact, FreeIsClean
  <2> QED
    BY <2>1, <2>2
<1>2. ASSUME NEW p \in Pids, LeaveGroup(p) PROVE ProcessExact' /\ FreeIsClean'
  BY <1>0, <1>2 DEF LeaveGroup, ProcessExact, FreeIsClean
<1>3. ASSUME NEW p \in Pids, StrangerStarts(p) PROVE ProcessExact' /\ FreeIsClean'
  BY <1>0, <1>3 DEF StrangerStarts, Available, ProcessExact, FreeIsClean
<1>4. ASSUME NEW q \in Pids, NEW r \in Pids, Fork(q, r)
      PROVE  ProcessExact' /\ FreeIsClean'
  BY <1>0, <1>4 DEF Fork, Available, ProcessExact, FreeIsClean
<1>5. CASE Expire \/ \E f \in Fds : HostOpens(f) \/ HostCloses(f)
  <2>1. UNCHANGED <<run, kin, grp>>
    BY <1>5 DEF Expire, HostOpens, HostCloses, kernelVars, procVars
  <2> QED
    BY <1>0, <2>1 DEF ProcessExact, FreeIsClean
<1> QED
  BY <1>1, <1>2, <1>3, <1>4, <1>5 DEF Machine, HostReapsChild

\* Nobody joins a group, or survives in it, once close has signalled it.
LEMMA SweepingStep == OwnerInv /\ [Next]_vars => Sweeping'
<1> SUFFICES ASSUME OwnerInv, [Next]_vars PROVE Sweeping'
  OBVIOUS
<1> USE SentinelsApart DEF OwnerInv, HandleInv, TypeOK, Steps, Idle, Ops
<1>0. ASSUME op' # "close" \/ at' \notin {"leader", "await", "reap"} PROVE Sweeping'
  BY <1>0 DEF Sweeping
<1>1. ASSUME UNCHANGED <<op, who, group, run, grp, sig, pid>>,
             at' \in {"leader", "await", "reap"} => at \in {"leader", "await", "reap"}
      PROVE  Sweeping'
  BY <1>1 DEF Sweeping
<1>2. CASE ObserveCached \/ ObserveExit
  <2> DEFINE next == AfterObserve(TRUE)
  <2>1. Goto(next) /\ at \in {"observe", "await"} /\ UNCHANGED group
    BY <1>2 DEF ObserveCached, ObserveExit, Collect, Observing, childVars
  <2>2. /\ next = "await" => ~group[who]
        /\ next = "reap" => at = "await"
        /\ next # "leader"
    BY <2>1 DEF AfterObserve, AfterPoll, AfterSignal
  <2> HIDE DEF next
  <2>3. CASE group[who] /\ at = "await" /\ next = "reap"
    <3>1. UNCHANGED <<op, who, group, run, grp, sig, pid>>
      BY <1>2, <2>1, <2>3 DEF ObserveCached, ObserveExit, Collect, Goto, childVars, kernelVars, procVars
    <3> QED
      BY <1>1, <2>3, <3>1
  <2>4. CASE next \notin {"await", "reap"}
    BY <1>0, <2>1, <2>2, <2>4 DEF Goto, EndCall
  <2>5. CASE ~group[who]
    BY <2>1, <2>5 DEF Goto, EndCall, Sweeping
  <2> QED
    BY <2>2, <2>3, <2>4, <2>5
<1>3. CASE ObserveLive
  <2>1. AfterObserve(FALSE) \notin {"leader", "await", "reap"}
    BY <1>3 DEF ObserveLive, Observing, Blocking, AfterObserve, AfterPoll
  <2> QED
    BY <1>0, <1>3, <2>1 DEF ObserveLive, Goto, EndCall
<1>4. CASE SignalChild
  <2>1. ~group'[who'] \/ at' \notin {"leader", "await", "reap"}
    BY <1>4 DEF SignalChild, CallInv, Goto, EndCall, childVars
  <2> QED
    BY <1>0, <2>1 DEF Sweeping
<1>5. CASE GroupKill
  <2>1. UNCHANGED <<group, run, grp, pid>> /\ Deliver({p \in Pids : grp[p] = pid[who]})
    BY <1>5 DEF GroupKill, childVars
  <2>2. op' = "close" => op = "close" /\ who' = who
    BY <1>5 DEF GroupKill, Goto, EndCall
  <2>3. op = "close" =>
          \A q \in Pids : run[q] = "live" /\ grp[q] = pid[who] => sig'[q] = "kill"
    <3> SUFFICES ASSUME op = "close", NEW q \in Pids, run[q] = "live", grp[q] = pid[who]
                 PROVE  sig'[q] = "kill"
      OBVIOUS
    <3>1. q \in {p \in Pids : grp[p] = pid[who]}
      OBVIOUS
    <3> QED
      BY <2>1, <3>1 DEF Deliver, Forced
  <2> QED
    BY <2>1, <2>2, <2>3 DEF Sweeping
<1>6. CASE LeaderKill
  <2>1. UNCHANGED <<group, run, grp, pid>> /\ Deliver({pid[who]}) /\ at = "leader"
    BY <1>6 DEF LeaderKill, childVars
  <2>2. op' = "close" => op = "close" /\ who' = who
    BY <1>6 DEF LeaderKill, Goto, EndCall
  <2>3. \A q \in Pids : sig[q] = "kill" => sig'[q] = "kill"
    BY <2>1 DEF Deliver
  <2> QED
    BY <2>1, <2>2, <2>3 DEF Sweeping
<1>7. CASE SignalRefused \/ GroupCheck \/ Clock \/ Sleep \/ ClosePipes \/ ReapLeader
           \/ FinishClose \/ \E c \in Children, o \in Ops : Call(o, c)
  BY <1>0, <1>7 DEF SignalRefused, GroupCheck, Clock, wait_interval, Sleep, ClosePipes, ReapLeader,
                    FinishClose, Call, Goto, EndCall
<1>8. CASE (\E c \in Children, s \in Streams : CloseStream(c, s))
           \/ \E c \in Children, p \in Pids, leads \in BOOLEAN :
                \E streams \in NewStreams : Start(c, p, streams, leads)
  BY <1>0, <1>8 DEF CloseStream, Start, callVars
<1>9. CASE Expire \/ \E f \in Fds : HostOpens(f) \/ HostCloses(f)
  BY <1>1, <1>9 DEF Expire, HostOpens, HostCloses, callVars, childVars, kernelVars, procVars
<1>10. CASE UNCHANGED vars
  BY <1>1, <1>10 DEF vars, callVars, childVars, kernelVars
<1>11. CASE \E p \in Pids : \/ Die(p) \/ LeaveGroup(p) \/ StrangerStarts(p)
                            \/ HostReapsChild(p) \/ \E r \in Pids : Fork(p, r)
  <2>1. UNCHANGED <<at, op, who, group, pid>>
    BY <1>11 DEF Die, LeaveGroup, StrangerStarts, HostReapsChild, Fork, callVars, childVars
  <2>2. SUFFICES ASSUME op = "close", at \in {"leader", "await", "reap"}, group[who],
                        NEW q \in Pids, run'[q] = "live", grp'[q] = pid[who]
                 PROVE  sig'[q] = "kill"
    BY <2>1 DEF Sweeping
  <2>3. who \in Children /\ pid[who] \in Pids
    BY <2>2 DEF CallInv, OwnedUntilKnown
  <2>4. \A p \in Pids : run[p] = "live" /\ grp[p] = pid[who] => sig[p] = "kill"
    BY <2>2 DEF Sweeping
  <2>5. ASSUME NEW p \in Pids, Die(p) \/ HostReapsChild(p) PROVE sig'[q] = "kill"
    <3>1. run'[p] # "live" /\ \A r \in Pids \ {p} :
              run'[r] = run[r] /\ grp'[r] = grp[r] /\ sig'[r] = sig[r]
      BY <2>5 DEF Die, HostReapsChild, Release
    <3> QED
      BY <2>2, <2>4, <3>1
  <2>6. ASSUME NEW p \in Pids, LeaveGroup(p) \/ StrangerStarts(p) PROVE sig'[q] = "kill"
    BY <2>2, <2>3, <2>4, <2>6 DEF LeaveGroup, StrangerStarts, Available, FreeIsClean
  <2>7. ASSUME NEW p \in Pids, NEW r \in Pids, Fork(p, r) PROVE sig'[q] = "kill"
    BY <2>2, <2>4, <2>7 DEF Fork
  <2> QED
    BY <1>11, <2>5, <2>6, <2>7
<1> QED
  BY <1>2, <1>3, <1>4, <1>5, <1>6, <1>7, <1>8, <1>9, <1>10, <1>11, NeverLost
     DEF Next, Program, Machine, CallStep

\* The three parts together are inductive when the host does not reap.
THEOREM OwnerInvariant == ~HostReaps /\ Spec => []OwnerInv
<1> SUFFICES ASSUME ~HostReaps PROVE Spec => []OwnerInv
  OBVIOUS
<1>1. Init => OwnerInv
  BY HandleInit, SentinelsApart
     DEF Init, OwnerInv, ProcessExact, FreeIsClean, Sweeping
<1>2. OwnerInv /\ [Next]_vars => OwnerInv'
  <2> SUFFICES ASSUME OwnerInv, [Next]_vars PROVE OwnerInv'
    OBVIOUS
  <2>1. HandleInv'
    BY HandleProgram, HandleMachine
       DEF OwnerInv, Next, vars, childVars, callVars, kernelVars, HandleInv, TypeOK,
           OwnedUntilKnown, CallInv
  <2>2. ProcessExact' /\ FreeIsClean'
    <3>1. CASE UNCHANGED vars
      BY <3>1 DEF vars, childVars, kernelVars, OwnerInv, ProcessExact, FreeIsClean
    <3> QED
      BY <3>1, ProcessProgram, ProcessMachine DEF Next
  <2> QED
    BY <2>1, <2>2, SweepingStep DEF OwnerInv
<1> QED
  BY <1>1, <1>2, PTL DEF Spec

\* Handles and unreaped children correspond exactly: close leaves no zombie,
\* and no recycled identifier is ever taken for a child.
THEOREM ProcessesAreExact == ~HostReaps /\ Spec => []ProcessExact
<1> SUFFICES ASSUME ~HostReaps PROVE Spec => []ProcessExact
  OBVIOUS
<1> QED
  BY OwnerInvariant, PTL DEF OwnerInv

\* Signals land on the child of the handle or in the group it leads, never on
\* a process that took over an identifier.
THEOREM SignalsStayInScope == ~HostReaps /\ Spec => SignalsInScope
<1> SUFFICES ASSUME ~HostReaps PROVE Spec => SignalsInScope
  OBVIOUS
<1>1. ASSUME OwnerInv, [Next]_vars, NEW p \in Pids, sig'[p] \notin {"none", sig[p]}
      PROVE  at \in Steps /\ (kin[p] = who \/ (group[who] /\ grp[p] = pid[who]))
  <2>0. at \in Steps /\ pid[who] # NoPid => kin[pid[who]] = who
    BY <1>1, ChildIsThere
  <2> USE DEF OwnerInv, HandleInv, TypeOK
  <2>1. CASE GroupKill
    BY <1>1, <2>1 DEF GroupKill, Deliver, Steps, CallInv
  <2>2. CASE SignalChild \/ LeaderKill
    <3>1. at \in {"signal", "leader"} /\ p = pid[who]
      BY <1>1, <2>2 DEF SignalChild, LeaderKill, Deliver
    <3>2. at \in Steps /\ pid[who] # NoPid
      BY <3>1, SentinelsApart DEF Steps
    <3>3. kin[p] = who
      BY <2>0, <3>1, <3>2, Zenon
    <3> QED
      BY <3>2, <3>3
  <2>3. CASE \E q \in Pids : Die(q) \/ HostReapsChild(q)
    BY <1>1, <2>3 DEF Die, HostReapsChild, Release
  <2>4. CASE ObserveExit \/ ReapLeader
    BY <1>1, <2>4 DEF ObserveExit, Collect, ReapLeader, Release, procVars
  <2>5. CASE UNCHANGED sig
    BY <1>1, <2>5
  <2>6. ObserveCached \/ ObserveLive \/ SignalRefused \/ GroupCheck \/ Clock \/ Sleep
        \/ ClosePipes \/ FinishClose => UNCHANGED sig
    BY DEF ObserveCached, ObserveLive, SignalRefused, GroupCheck, Clock, wait_interval, Sleep,
           ClosePipes, FinishClose, kernelVars, procVars
  <2>7. \A c \in Children : /\ \A o \in Ops : Call(o, c) => UNCHANGED sig
                            /\ \A s \in Streams : CloseStream(c, s) => UNCHANGED sig
    BY DEF Call, CloseStream, kernelVars, procVars
  <2>8. \A c \in Children, q \in Pids, leads \in BOOLEAN, streams \in NewStreams :
            Start(c, q, streams, leads) => UNCHANGED sig
    BY DEF Start
  <2>9. \A q \in Pids : /\ LeaveGroup(q) \/ StrangerStarts(q) => UNCHANGED sig
                        /\ \A r \in Pids : Fork(q, r) => UNCHANGED sig
    BY DEF LeaveGroup, StrangerStarts, Fork
  <2>10. Expire \/ (\E f \in Fds : HostOpens(f) \/ HostCloses(f)) \/ UNCHANGED vars
            => UNCHANGED sig
    BY DEF Expire, HostOpens, HostCloses, vars, kernelVars, procVars
  <2> QED
    BY <1>1, <2>1, <2>2, <2>3, <2>4, <2>5, <2>6, <2>7, <2>8, <2>9, <2>10, NeverLost
       DEF Next, Program, Machine, CallStep
<1>2. OwnerInv /\ [Next]_vars =>
        [\A p \in Pids : sig'[p] \notin {"none", sig[p]} =>
            /\ at \in Steps
            /\ \/ kin[p] = who
               \/ group[who] /\ grp[p] = pid[who]]_vars
  BY <1>1
<1> QED
  BY <1>2, OwnerInvariant, PTL DEF Spec, SignalsInScope

\* The identifier that names a group is given back only when everybody left in
\* the group is dying: whatever the order of exits, close sweeps its scope.
THEOREM GroupsAreSwept == ~HostReaps /\ Spec => GroupSwept
<1> SUFFICES ASSUME ~HostReaps PROVE Spec => GroupSwept
  OBVIOUS
<1>1. ASSUME OwnerInv, [Next]_vars, NEW c \in Children, group[c],
             pid[c] # NoPid, pid'[c] = NoPid,
             NEW q \in Pids, run[q] = "live", grp[q] = pid[c]
      PROVE  sig[q] = "kill"
  <2> USE DEF OwnerInv, HandleInv, TypeOK
  <2>1. CASE ReapLeader
    <3>1. who = c /\ at = "reap" /\ op = "close"
      BY <1>1, <2>1 DEF ReapLeader, CallInv
    <3> QED
      BY <1>1, <3>1 DEF Sweeping
  <2>2. CASE ObserveExit
    BY <1>1, <2>2 DEF ObserveExit, Collect
  <2>3. CASE UNCHANGED pid
    BY <1>1, <2>3
  <2>4. ObserveCached \/ ObserveLive \/ SignalChild \/ SignalRefused \/ GroupCheck
        \/ GroupKill \/ LeaderKill \/ Clock \/ Sleep \/ ClosePipes \/ FinishClose
            => UNCHANGED pid
    BY DEF ObserveCached, ObserveLive, SignalChild, SignalRefused, GroupCheck,
           GroupKill, LeaderKill, Clock, Sleep, ClosePipes, FinishClose, childVars
  <2>5. \A d \in Children : /\ \A o \in Ops : Call(o, d) => UNCHANGED pid
                            /\ \A s \in Streams : CloseStream(d, s) => UNCHANGED pid
    BY DEF Call, CloseStream, childVars
  <2>6. \A d \in Children, p \in Pids, leads \in BOOLEAN, streams \in NewStreams :
            Start(d, p, streams, leads) => pid' = pid \/ pid'[c] # NoPid
    BY <1>1, SentinelsApart DEF Start
  <2>7. Machine \/ UNCHANGED vars => UNCHANGED pid
    BY DEF Machine, Die, Fork, LeaveGroup, StrangerStarts, HostOpens, HostCloses,
           HostReapsChild, Expire, vars, childVars
  <2> QED
    BY <1>1, <2>1, <2>2, <2>3, <2>4, <2>5, <2>6, <2>7, NeverLost
       DEF Next, Program, CallStep
<1>2. OwnerInv /\ [Next]_vars =>
        [\A c \in Children :
           group[c] /\ pid[c] # NoPid /\ pid'[c] = NoPid =>
             \A q \in Pids : run[q] = "live" /\ grp[q] = pid[c] => sig[q] = "kill"]_vars
  BY <1>1
<1> QED
  BY <1>2, OwnerInvariant, PTL DEF Spec, GroupSwept

-----------------------------------------------------------------------------
(* The promise of the handle, when the host leaves our children to us.     *)

\* A child that was started and not given back has ended exactly when it is a
\* zombie, and a handle that has finished knows an end.
EndsKnown ==
    /\ \A c \in Children : finished[c] => status[c] # NotYet
    /\ \A c \in Children : phase[c] = "none" => ended[c] = NotYet
    /\ \A p \in Pids : kin[p] \in Children =>
          /\ run[p] = "live" => ended[kin[p]] = NotYet
          /\ run[p] = "zombie" => ended[kin[p]] # NotYet

PromiseInv == OwnerInv /\ EndsKnown

\* The refinement mapping of Owned: what the handle of OwnedChild occupies, and
\* what its holder was told.
Occupied == [c \in Children |-> \E p \in Pids : run[p] # "free" /\ kin[p] = c]
Told == [c \in Children |-> IF finished[c] THEN status[c] ELSE NotYet]

\* A child is kept exactly by the open handle that records its identifier.
Holds(c) == phase[c] = "open" /\ pid[c] # NoPid

LEMMA OccupiedIsHeld ==
  ASSUME HandleInv, ProcessExact
  PROVE  Occupied = [c \in Children |-> Holds(c)]
<1>1. ASSUME NEW c \in Children
      PROVE  (\E p \in Pids : run[p] # "free" /\ kin[p] = c) <=> Holds(c)
  <2>1. pid[c] # NoPid => pid[c] \in Pids
    BY DEF HandleInv, TypeOK
  <2> QED
    BY <2>1, SentinelsApart DEF ProcessExact, Holds
<1>2. ASSUME NEW c \in Children
      PROVE  (\E p \in Pids : run[p] # "free" /\ kin[p] = c) = Holds(c)
  BY <1>1, Zenon DEF Holds
<1> QED
  BY <1>2, Zenon DEF Occupied

\* Every step of the library is a step of OwnedChild, or changes nothing of it.
LEMMA PromiseStep ==
  ASSUME ~HostReaps, PromiseInv, OwnerInv', [Next]_vars
  PROVE  EndsKnown' /\ [Owned!Next]_(Owned!vars)
<1> USE SentinelsApart DEF PromiseInv, OwnerInv, HandleInv
<1>1. /\ Occupied = [c \in Children |-> Holds(c)]
      /\ Occupied' = [c \in Children |-> Holds(c)']
  <2>1. Occupied = [c \in Children |-> Holds(c)]
    BY OccupiedIsHeld
  <2>2. (HandleInv /\ ProcessExact => Occupied = [c \in Children |-> Holds(c)])'
    BY OccupiedIsHeld, PTL
  <2> QED
    BY <2>1, <2>2
<1>3. ASSUME UNCHANGED <<phase, pid, finished, status, ended>>
      PROVE  UNCHANGED Owned!vars
  <2>1. Occupied' = Occupied /\ Told' = Told
    BY <1>1, <1>3 DEF Holds, Told
  <2> QED
    BY <1>3, <2>1 DEF Owned!vars, Occupied, Told
<1>4. ASSUME UNCHANGED <<phase, pid, finished, status, ended, run, kin>>
      PROVE  EndsKnown' /\ [Owned!Next]_(Owned!vars)
  <2>1. EndsKnown'
    BY <1>4 DEF EndsKnown
  <2> QED
    BY <1>3, <1>4, <2>1
<1>5. ASSUME NEW r \in Pids, run[r] = "free", run' = [run EXCEPT ![r] = "live"],
             UNCHANGED <<phase, pid, finished, status, ended, kin>>
      PROVE  EndsKnown' /\ [Owned!Next]_(Owned!vars)
  <2>1. kin[r] = Stranger
    BY <1>5 DEF FreeIsClean
  <2>2. EndsKnown'
    BY <1>5, <2>1 DEF EndsKnown, TypeOK
  <2> QED
    BY <1>3, <1>5, <2>2
<1>6. ASSUME NEW c \in Children, NEW p \in Pids, NEW leads \in BOOLEAN, NEW streams \in NewStreams,
             Start(c, p, streams, leads)
      PROVE  EndsKnown' /\ [Owned!Next]_(Owned!vars)
  <2>1. /\ phase[c] = "none" /\ run[p] = "free"
        /\ phase' = [phase EXCEPT ![c] = "open"] /\ pid' = [pid EXCEPT ![c] = p]
        /\ run' = [run EXCEPT ![p] = "live"] /\ kin' = [kin EXCEPT ![p] = c]
        /\ UNCHANGED <<finished, status, ended>>
    BY <1>6 DEF Start, Available
  <2>2. EndsKnown'
    BY <2>1 DEF EndsKnown, TypeOK
  <2>3. Occupied' = [Occupied EXCEPT ![c] = TRUE]
    <3>1. \A d \in Children : Holds(d)' <=> d = c \/ Holds(d)
      BY <2>1 DEF Holds, TypeOK
    <3>2. ASSUME NEW d \in Children
          PROVE  Holds(d)' = (IF d = c THEN TRUE ELSE Holds(d))
      BY <3>1, Zenon DEF Holds
    <3>3. [Occupied EXCEPT ![c] = TRUE] = [d \in Children |-> IF d = c THEN TRUE ELSE Holds(d)]
      BY <1>1
    <3> QED
      BY <1>1, <3>2, <3>3
  <2>4. UNCHANGED Told
    BY <2>1 DEF Told
  <2>5. Owned!Acquire(c)
    BY <2>1, <2>3, <2>4 DEF Owned!Acquire, Occupied, Told
  <2> QED
    BY <2>2, <2>5 DEF Owned!Next
<1>7. ASSUME NEW p \in Pids, Die(p)
      PROVE  EndsKnown' /\ [Owned!Next]_(Owned!vars)
  <2>1. CASE kin[p] \in Children
    <3> DEFINE c == kin[p]
    <3>1. /\ run[p] = "live" /\ run' = [run EXCEPT ![p] = "zombie"]
          /\ UNCHANGED <<kin, phase, pid, finished, status>>
      BY <1>7, <2>1 DEF Die, childVars
    <3>2. PICK e \in Ends : ended' = [ended EXCEPT ![c] = e]
      BY <1>7, <2>1 DEF Die
    <3>3. phase[c] = "open" /\ pid[c] = p /\ ended[c] = NotYet
      BY <2>1, <3>1 DEF ProcessExact, EndsKnown
    <3>4. EndsKnown'
      BY <2>1, <3>1, <3>2, <3>3 DEF EndsKnown, TypeOK, ProcessExact, Ends
    <3>5. UNCHANGED <<Occupied, Told>>
      BY <1>1, <3>1 DEF Holds, Told
    <3>6. Occupied[c]
      BY <1>1, <2>1, <3>3 DEF Holds
    <3>7. Owned!Finish(c)
      BY <2>1, <3>1, <3>2, <3>3, <3>5, <3>6 DEF Owned!Finish, Owned!Ends, Ends, Occupied, Told
    <3> QED
      BY <2>1, <3>4, <3>7 DEF Owned!Next
  <2>2. CASE kin[p] \notin Children
    <3>1. /\ run' = [run EXCEPT ![p] = "free"] /\ kin' = [kin EXCEPT ![p] = Stranger]
          /\ UNCHANGED <<phase, pid, finished, status, ended>>
      BY <1>7, <2>2 DEF Die, Release, childVars
    <3>2. EndsKnown'
      BY <3>1 DEF EndsKnown, TypeOK
    <3> QED
      BY <1>3, <3>1, <3>2
  <2> QED
    BY <2>1, <2>2
<1>8. CASE ObserveExit
  <2>1. /\ at \in Steps /\ who \in Children /\ phase[who] = "open" /\ pid[who] \in Pids
        /\ ~finished[who] /\ run[pid[who]] = "zombie" /\ kin[pid[who]] = who
    <3>1. at \in Steps /\ phase[who] = "open" /\ who \in Children /\ ~finished[who]
      BY <1>8 DEF ObserveExit, Collect, Observing, Steps, TypeOK, CallInv
    <3>2. pid[who] # NoPid
      BY <3>1 DEF OwnedUntilKnown
    <3> QED
      BY <1>8, <3>1, <3>2, ChildIsThere DEF ObserveExit, Collect
  <2>c. PICK c \in Children : c = who
    BY <2>1
  <2>2. /\ finished' = [finished EXCEPT ![c] = TRUE]
        /\ status' = [status EXCEPT ![c] = ended[c]]
        /\ UNCHANGED <<phase, ended>>
    BY <1>8, <2>1, <2>c DEF ObserveExit, Collect
  <2>3. \/ group[c] /\ UNCHANGED <<pid, run, kin>>
        \/ /\ pid' = [pid EXCEPT ![c] = NoPid]
           /\ run' = [run EXCEPT ![pid[c]] = "free"] /\ kin' = [kin EXCEPT ![pid[c]] = Stranger]
    BY <1>8, <2>c DEF ObserveExit, Collect, Release, procVars
  <2>4. ended[c] # NotYet
    BY <2>1, <2>c DEF EndsKnown
  <2>5. EndsKnown'
    <3>1. /\ \A d \in Children : finished'[d] => status'[d] # NotYet
          /\ \A d \in Children : phase'[d] = "none" => ended'[d] = NotYet
      BY <2>1, <2>c, <2>2, <2>4 DEF EndsKnown, TypeOK
    <3>2. \A p \in Pids : kin'[p] \in Children =>
             /\ kin'[p] = kin[p]
             /\ run'[p] = run[p]
      BY <2>1, <2>c, <2>3 DEF TypeOK
    <3> QED
      BY <2>2, <3>1, <3>2 DEF EndsKnown
  <2>6. Told' = [Told EXCEPT ![c] = ended[c]] /\ Told[c] = NotYet
    <3>1. \A d \in Children : (IF finished[d] THEN status[d] ELSE NotYet)'
             = IF d = c THEN ended[c] ELSE IF finished[d] THEN status[d] ELSE NotYet
      BY <2>1, <2>c, <2>2 DEF TypeOK
    <3>2. Told' = [d \in Children |->
             IF d = c THEN ended[c] ELSE IF finished[d] THEN status[d] ELSE NotYet]
      BY <3>1 DEF Told
    <3> QED
      BY <2>1, <2>c, <3>2 DEF Told
  <2>7. Occupied[c] /\ \E kept \in BOOLEAN : Occupied' = [Occupied EXCEPT ![c] = kept]
    <3>1. \A d \in Children : d # c => (Holds(d)' <=> Holds(d))
      BY <2>1, <2>c, <2>2, <2>3 DEF Holds, TypeOK
    <3>2. Holds(c)' \in BOOLEAN
      BY DEF Holds
    <3>3. Occupied' = [Occupied EXCEPT ![c] = Holds(c)']
      <4>1. ASSUME NEW d \in Children
            PROVE  Holds(d)' = (IF d = c THEN Holds(c)' ELSE Holds(d))
        BY <3>1, Zenon DEF Holds
      <4>2. [Occupied EXCEPT ![c] = Holds(c)']
               = [d \in Children |-> IF d = c THEN Holds(c)' ELSE Holds(d)]
        BY <1>1
      <4> QED
        BY <1>1, <4>1, <4>2
    <3>4. Occupied[c]
      BY <1>1, <2>1, <2>c DEF Holds
    <3> QED
      BY <3>2, <3>3, <3>4
  <2>8. Owned!Learn(c)
    BY <2>1, <2>c, <2>2, <2>4, <2>6, <2>7 DEF Owned!Learn, Occupied, Told
  <2>9. Owned!Next
    BY <2>1, <2>c, <2>8, Zenon DEF Owned!Next
  <2> QED
    BY <2>5, <2>9
<1>9. CASE ReapLeader
  <2>1. at = "reap" /\ at \in Steps /\ who \in Children /\ phase[who] = "open" /\ finished[who]
    BY <1>9 DEF ReapLeader, Steps, TypeOK, CallInv
  <2>c. PICK c \in Children : c = who
    BY <2>1
  <2>2. pid[c] \in Pids /\ kin[pid[c]] = c
    <3>1. pid[c] # NoPid
      BY <1>9, <2>1, <2>c DEF OwnedUntilKnown, CallInv
    <3> QED
      BY <2>1, <2>c, <3>1, ChildIsThere
  <2>3. /\ pid' = [pid EXCEPT ![c] = NoPid]
        /\ run' = [run EXCEPT ![pid[c]] = "free"] /\ kin' = [kin EXCEPT ![pid[c]] = Stranger]
        /\ UNCHANGED <<phase, finished, status, ended>>
    BY <1>9, <2>c DEF ReapLeader, Release
  <2>4. EndsKnown'
    BY <2>2, <2>3 DEF EndsKnown, TypeOK
  <2>5. UNCHANGED Told
    BY <2>3 DEF Told
  <2>6. Occupied[c] /\ Occupied' = [Occupied EXCEPT ![c] = FALSE]
    <3>1. \A d \in Children : Holds(d)' <=> d # c /\ Holds(d)
      BY <2>1, <2>c, <2>3 DEF Holds, TypeOK
    <3>2. Occupied' = [Occupied EXCEPT ![c] = FALSE]
      <4>1. ASSUME NEW d \in Children
            PROVE  Holds(d)' = (IF d = c THEN FALSE ELSE Holds(d))
        BY <3>1, Zenon DEF Holds
      <4>2. [Occupied EXCEPT ![c] = FALSE]
               = [d \in Children |-> IF d = c THEN FALSE ELSE Holds(d)]
        BY <1>1
      <4> QED
        BY <1>1, <4>1, <4>2
    <3>3. Occupied[c]
      BY <1>1, <2>1, <2>c, <2>2 DEF Holds
    <3> QED
      BY <3>2, <3>3
  <2>7. Told[c] # NotYet
    BY <2>1, <2>c DEF Told, EndsKnown
  <2>8. Owned!GiveBack(c)
    BY <2>1, <2>c, <2>3, <2>5, <2>6, <2>7 DEF Owned!GiveBack, Occupied, Told
  <2>9. Owned!Next
    BY <2>1, <2>c, <2>8, Zenon DEF Owned!Next
  <2> QED
    BY <2>4, <2>9
<1>10. CASE FinishClose
  <2>1. at = "finish" /\ who \in Children /\ phase[who] = "open" /\ finished[who] /\ pid[who] = NoPid
    BY <1>10 DEF FinishClose, Steps, TypeOK, CallInv, OwnedUntilKnown
  <2>c. PICK c \in Children : c = who
    BY <2>1
  <2>2. phase' = [phase EXCEPT ![c] = "closed"] /\ UNCHANGED <<pid, run, kin, finished, status, ended>>
    BY <1>10, <2>c DEF FinishClose, kernelVars
  <2>3. EndsKnown'
    BY <2>1, <2>c, <2>2 DEF EndsKnown, TypeOK
  <2>4. UNCHANGED <<Occupied, Told>> /\ ~Occupied[c]
    <3>1. \A d \in Children : Holds(d)' <=> Holds(d)
      BY <2>1, <2>c, <2>2 DEF Holds, TypeOK
    <3>2. ~Holds(c)
      BY <2>1, <2>c DEF Holds
    <3>3. Occupied' = Occupied
      <4>1. ASSUME NEW d \in Children PROVE Holds(d)' = Holds(d)
        BY <3>1, Zenon DEF Holds
      <4> QED
        BY <1>1, <4>1
    <3>4. ~Occupied[c]
      BY <1>1, <2>1, <2>c, <3>2
    <3> QED
      BY <2>2, <3>3, <3>4 DEF Told
  <2>5. Owned!Release(c)
    BY <2>1, <2>c, <2>2, <2>4 DEF Owned!Release, Occupied, Told
  <2> QED
    BY <2>1, <2>c, <2>3, <2>5 DEF Owned!Next
<1>11. ASSUME \/ ObserveCached \/ ObserveLive \/ SignalChild \/ SignalRefused \/ GroupCheck
              \/ GroupKill \/ LeaderKill \/ Clock \/ Sleep \/ ClosePipes
       PROVE  UNCHANGED <<phase, pid, finished, status, ended, run, kin>>
  BY <1>11 DEF ObserveCached, ObserveLive, SignalChild, SignalRefused, GroupCheck, GroupKill,
               LeaderKill, Clock, Sleep, ClosePipes, childVars, kernelVars, procVars
<1>12. ASSUME NEW c \in Children, (\E o \in Ops : Call(o, c)) \/ \E t \in Streams : CloseStream(c, t)
       PROVE  UNCHANGED <<phase, pid, finished, status, ended, run, kin>>
  BY <1>12 DEF Call, CloseStream, childVars, kernelVars, procVars
<1>13. ASSUME \/ UNCHANGED vars \/ Expire \/ \E p \in Pids : LeaveGroup(p)
              \/ \E f \in Fds : HostOpens(f) \/ HostCloses(f)
       PROVE  UNCHANGED <<phase, pid, finished, status, ended, run, kin>>
  BY <1>13 DEF vars, Expire, LeaveGroup, HostOpens, HostCloses, childVars, kernelVars, procVars
<1>14. ASSUME NEW r \in Pids, StrangerStarts(r) \/ \E q \in Pids : Fork(q, r)
       PROVE  /\ run[r] = "free" /\ run' = [run EXCEPT ![r] = "live"]
              /\ UNCHANGED <<phase, pid, finished, status, ended, kin>>
  BY <1>14 DEF StrangerStarts, Fork, Available, childVars
<1>15. CASE Program
  BY <1>15, <1>4, <1>6, <1>8, <1>9, <1>10, <1>11, <1>12, NeverLost DEF Program, CallStep
<1>16. CASE Machine
  BY <1>16, <1>4, <1>5, <1>7, <1>13, <1>14 DEF Machine, HostReapsChild
<1> QED
  BY <1>4, <1>13, <1>15, <1>16 DEF Next

\* A handle that has not been started occupies nothing and was told nothing.
LEMMA PromiseInit == Init => EndsKnown /\ Owned!Init
<1> SUFFICES ASSUME Init PROVE EndsKnown /\ Owned!Init
  OBVIOUS
<1>1. EndsKnown
  BY SentinelsApart DEF Init, EndsKnown
<1>2. Occupied = [c \in Children |-> FALSE] /\ Told = [c \in Children |-> NotYet]
  BY DEF Init, Occupied, Told
<1> QED
  BY <1>1, <1>2 DEF Init, Owned!Init, Occupied, Told

\* Child of process.gloin keeps the promise of OwnedChild: for any number of
\* handles, identifiers and descriptors and any interleaving with the rest of
\* the machine, the status it tells is how its process really ended, told once,
\* and it is not released before the operating system keeps nothing of it.
THEOREM PromiseIsKept == ~HostReaps /\ Spec => KeepsPromise
<1> SUFFICES ASSUME ~HostReaps PROVE Spec => Owned!Spec
  BY DEF KeepsPromise
<1>1. EndsKnown /\ OwnerInv /\ OwnerInv' /\ [Next]_vars => EndsKnown' /\ [Owned!Next]_(Owned!vars)
  BY PromiseStep DEF PromiseInv
<1> QED
  BY <1>1, PromiseInit, OwnerInvariant, PTL DEF Spec, Owned!Spec

=============================================================================
