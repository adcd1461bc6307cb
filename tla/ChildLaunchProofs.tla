-------------------------- MODULE ChildLaunchProofs --------------------------
(***************************************************************************)
(* Proofs about ChildLaunch, for any number of descriptors, any limit on   *)
(* them and any standard streams that the host has closed.                 *)
(*                                                                         *)
(* LaunchInv is the inductive invariant. A launch can clean up because it  *)
(* always knows which descriptors it has: each slot holds its own end of   *)
(* its own pipe when it is its turn (HeldInTurn, HeldExact). The child     *)
(* finds its streams because no end it is given lies where another has to  *)
(* go (Moved, ChildReady).                                                 *)
(***************************************************************************)
EXTENDS ChildLaunch, FiniteSetTheorems, TLAPS

Stages == {"pipe", "move", "flags", "launch", "restore", "listen", "read", "reap", "ok", "failed"}
ChildSteps == {"prologue", "dup0", "dup1", "dup2", "close", "exec", "report"}

TypeOK ==
    /\ limit \in 3..(MaxFd + 1) /\ piped \in BOOLEAN /\ limited \in BOOLEAN
    /\ table \in [Numbers -> Files] /\ ctable \in [Numbers -> Files]
    /\ at \in Stages /\ k \in 1..9
    /\ held \in [Slots -> Numbers \cup {NoFd}]
    /\ out \in [{"input", "output", "errors"} -> Numbers \cup {NoFd}]
    /\ child \in {"none", "setup", "running", "zombie", "reaped"} /\ step \in ChildSteps
    /\ report \in BOOLEAN /\ doomed \in BOOLEAN

\* The slots that this launch uses.
Needed == (IF piped THEN 1..6 ELSE {}) \cup (IF limited THEN 7..8 ELSE {})

\* A slot holds a descriptor from the pipe2 of its pair to the destructors; of
\* a launch that reads or has given up only the status writer may be gone.
Holding(s) ==
    /\ s \in Needed
    /\ \/ at = "pipe" /\ s < k
       \/ at = "move" /\ (s <= k \/ (s = k + 1 /\ k \in {1, 3, 5, 7}))
       \/ at = "flags" /\ s < 7
       \/ at \in {"launch", "restore", "listen", "read", "reap"}

HeldInTurn ==
    \A s \in Slots :
        /\ held[s] # NoFd => Holding(s)
        /\ Holding(s) => held[s] # NoFd \/ (s = 8 /\ at \in {"read", "reap"})

InTurn ==
    /\ at = "pipe" => k \in Needed \cap {1, 3, 5, 7}
    /\ at = "move" => k \in Needed
    /\ at = "flags" => piped
    /\ at \in {"restore", "listen", "read", "reap"} => limited

\* What a slot holds is its end of its pipe, and no end is open otherwise.
HeldExact ==
    /\ \A s \in Slots : held[s] # NoFd => table[held[s]] = PipeEnds[s]
    /\ at # "ok" => \A f \in Numbers : table[f] \in Ours => \E s \in Slots : held[s] = f

\* Ends that have had their turn are out of the way of the child's streams.
Moved ==
    \A s \in Slots : held[s] # NoFd /\ ~(at \in {"pipe", "move"} /\ s >= k) => held[s] >= 3

\* The host's own streams stay at their numbers.
HostPlaced ==
    \A f \in Numbers : table[f] \in Hosts \ {"file"} => f \in 0..2 /\ table[f] = Std[f + 1]

ChildInTurn ==
    /\ at \in {"pipe", "move", "flags", "launch"} => child = "none"
    /\ at \in {"restore", "listen", "read", "reap"} => child \in {"setup", "running", "zombie"}
    /\ at # "ok" => out = NoOutput
    /\ child = "none" => step = "prologue"

\* A child that has not reached exec can still report, and finds the ends it
\* is to have at the numbers it will take them from or has them already.
ChildReady ==
    child = "setup" =>
        /\ \E f \in 3..MaxFd : ctable[f] = "st_w"
        /\ at \in {"restore", "listen", "read", "reap"}
        /\ ~piped => \A f \in 0..2 : ctable[f] \in {"none", "file", Std[f + 1]}
        /\ piped =>
             /\ step \in {"prologue", "dup0"} => ctable[held[1]] = "in_r"
             /\ step \in {"prologue", "dup0", "dup1"} => ctable[held[4]] = "out_w"
             /\ step \in {"prologue", "dup0", "dup1", "dup2"} => ctable[held[6]] = "err_w"
             /\ step \in {"dup1", "dup2", "close", "exec"} => ctable[0] = "in_r"
             /\ step \in {"dup2", "close", "exec"} => ctable[1] = "out_w"
             /\ step \in {"close", "exec"} => ctable[2] = "err_w"

LaunchInv ==
    /\ TypeOK /\ HeldInTurn /\ InTurn /\ HeldExact /\ Moved /\ HostPlaced
    /\ ChildInTurn /\ ChildReady /\ NothingLeft /\ ChildStreams

-----------------------------------------------------------------------------
(* Numbers and pipe ends.                                                  *)

\* F_DUPFD and pipe2 find the lowest number when there is one.
LEMMA LowestIsLeast ==
    ASSUME NEW S \in SUBSET Nat, S # {}
    PROVE  Lowest(S) \in S /\ \A g \in S : Lowest(S) <= g
<1>1. PICK x \in S : \A y \in S : ~(<<y, x>> \in OpToRel(<, Nat))
  BY NatLessThanWellFounded, WFMin, Zenon
<1>2. \A y \in S : x <= y
  <2> SUFFICES ASSUME NEW y \in S PROVE x <= y
    OBVIOUS
  <2>1. x \in Nat /\ y \in Nat
    OBVIOUS
  <2>2. y < x => <<y, x>> \in OpToRel(<, Nat)
    BY <2>1 DEF OpToRel
  <2>3. ~(y < x)
    BY <1>1, <2>2, Zenon
  <2> QED
    BY <2>1, <2>3
<1> QED
  BY <1>1, <1>2 DEF Lowest

\* The numbers that can be opened are free and allowed.
LEMMA FreeNumbers ==
    ASSUME NEW low \in Nat
    PROVE  /\ FreeFrom(low) \subseteq Numbers /\ FreeFrom(low) \subseteq Nat
           /\ IsFiniteSet(FreeFrom(low))
           /\ \A f \in FreeFrom(low) : table[f] = "none" /\ f >= low
<1>1. IsFiniteSet(0..MaxFd)
  BY EnoughNumbers, FS_Interval
<1>2. FreeFrom(low) \subseteq 0..MaxFd
  BY EnoughNumbers DEF FreeFrom
<1>3. IsFiniteSet(FreeFrom(low))
  BY <1>1, <1>2, FS_Subset, Zenon
<1> QED
  BY <1>2, <1>3, EnoughNumbers DEF FreeFrom, Numbers

\* The lowest free number.
LEMMA LowestFree ==
    ASSUME NEW low \in Nat, FreeFrom(low) # {}
    PROVE  Lowest(FreeFrom(low)) \in Numbers /\ table[Lowest(FreeFrom(low))] = "none"
           /\ Lowest(FreeFrom(low)) >= low
  BY FreeNumbers, LowestIsLeast

\* The two lowest free numbers.
LEMMA TwoLowestFree ==
    ASSUME Cardinality(FreeFrom(0)) >= 2
    PROVE  LET r == Lowest(FreeFrom(0))
               w == Lowest(FreeFrom(0) \ {r})
           IN  /\ r \in Numbers /\ table[r] = "none"
               /\ w \in Numbers /\ table[w] = "none" /\ w # r
<1> DEFINE r == Lowest(FreeFrom(0))
<1>1. FreeFrom(0) # {}
  BY FS_EmptySet
<1>2. IsFiniteSet(FreeFrom(0)) /\ Cardinality(FreeFrom(0)) \in Nat
  BY FreeNumbers, FS_CardinalityType
<1>3. r \in FreeFrom(0) /\ r \in Numbers /\ table[r] = "none"
  BY <1>1, FreeNumbers, LowestIsLeast
<1> HIDE DEF r
<1>4. Cardinality(FreeFrom(0) \ {r}) = Cardinality(FreeFrom(0)) - 1
  BY <1>2, <1>3, FS_RemoveElement
<1>5. FreeFrom(0) \ {r} # {}
  <2>1. Cardinality(FreeFrom(0) \ {r}) # 0
    BY <1>2, <1>4
  <2> QED
    BY <2>1, FS_EmptySet
<1>6. Lowest(FreeFrom(0) \ {r}) \in FreeFrom(0) \ {r}
  <2>1. FreeFrom(0) \ {r} \in SUBSET Nat
    BY FreeNumbers
  <2> QED
    BY <1>5, <2>1, LowestIsLeast
<1> QED
  BY <1>3, <1>6, FreeNumbers DEF r

\* Every slot has an end of its own, which is no file of the host.
LEMMA EndsApart ==
    /\ \A s \in Slots : /\ PipeEnds[s] \in Files /\ PipeEnds[s] \in Ours
                        /\ PipeEnds[s] \notin Hosts /\ PipeEnds[s] # "none"
    /\ \A s, t \in Slots : PipeEnds[s] = PipeEnds[t] => s = t
    /\ \A e \in Ours : e \in Files /\ e \notin Hosts /\ e # "none"
                       /\ \E s \in Slots : PipeEnds[s] = e
    /\ PipeEnds[1] = "in_r" /\ PipeEnds[2] = "in_w" /\ PipeEnds[3] = "out_r"
    /\ PipeEnds[4] = "out_w" /\ PipeEnds[5] = "err_r" /\ PipeEnds[6] = "err_w"
    /\ PipeEnds[8] = "st_w"
<1> DEFINE ends == <<"in_r", "in_w", "out_r", "out_w", "err_r", "err_w", "st_r", "st_w">>
<1>1. \A s \in 1..8 : s = 1 \/ s = 2 \/ s = 3 \/ s = 4 \/ s = 5 \/ s = 6 \/ s = 7 \/ s = 8
  OBVIOUS
<1>2. /\ ends[1] = "in_r" /\ ends[2] = "in_w" /\ ends[3] = "out_r" /\ ends[4] = "out_w"
      /\ ends[5] = "err_r" /\ ends[6] = "err_w" /\ ends[7] = "st_r" /\ ends[8] = "st_w"
  OBVIOUS
<1> HIDE DEF ends
<1>3. \A s, t \in 1..8 : ends[s] = ends[t] => s = t
  BY <1>1, <1>2
<1>4. \A s \in 1..8 : ends[s] \notin Hosts /\ ends[s] # "none"
  BY <1>1, <1>2 DEF Hosts
<1>5. PipeEnds = ends
  BY DEF PipeEnds, ends
<1> QED
  BY <1>2, <1>3, <1>4, <1>5 DEF Slots, Files, Ours


-----------------------------------------------------------------------------
(* What the invariant says of the slots in turn.                           *)

\* Nothing has been opened for a launch that starts.
LEMMA InitLaunch == Init => LaunchInv
<1> SUFFICES ASSUME Init PROVE LaunchInv
  OBVIOUS
<1>1. MaxFd \in Nat /\ MaxFd >= 3 /\ Numbers \subseteq Nat /\ 0..2 \subseteq Numbers
  BY EnoughNumbers DEF Numbers
<1>2. \A f \in 0..2 : Std[f + 1] \in Hosts
  BY DEF Std, Hosts
<1>3. PICK open \in SUBSET (0..2) :
        table = [f \in Numbers |-> IF f \in open THEN Std[f + 1] ELSE "none"]
  BY DEF Init
<1>4. /\ table \in [Numbers -> Files]
      /\ \A f \in Numbers : table[f] = "none" \/ (f \in 0..2 /\ table[f] = Std[f + 1])
  BY <1>1, <1>2, <1>3 DEF Files
<1>5. /\ at \in {"pipe", "launch"} /\ k \in {1, 7, 9} /\ (at = "launch" => k = 9)
      /\ (at = "pipe" /\ k = 1 => piped) /\ (at = "pipe" /\ k = 7 => limited /\ ~piped)
      /\ (at = "pipe" => k # 9) /\ (at = "launch" => ~piped /\ ~limited)
      /\ piped \in BOOLEAN /\ limited \in BOOLEAN
  BY DEF Init, FirstSlot
<1>6. \A f \in Numbers : table[f] \notin Ours
  BY <1>1, <1>2, <1>4, EndsApart
<1>7. TypeOK
  <2>1. /\ limit \in 3..(MaxFd + 1) /\ k \in 1..9 /\ at \in Stages
        /\ child \in {"none", "setup", "running", "zombie", "reaped"} /\ step \in ChildSteps
    BY <1>5 DEF Init, Stages, ChildSteps
  <2>2. /\ held \in [Slots -> Numbers \cup {NoFd}]
        /\ out \in [{"input", "output", "errors"} -> Numbers \cup {NoFd}]
    BY DEF Init, NoOutput
  <2>3. ctable \in [Numbers -> Files]
    BY DEF Init, Files
  <2>4. report \in BOOLEAN /\ doomed \in BOOLEAN
    BY DEF Init
  <2> QED
    BY <1>4, <1>5, <2>1, <2>2, <2>3, <2>4 DEF TypeOK
<1>8. HeldInTurn
  <2>1. \A s \in Slots : ~Holding(s)
    BY <1>5 DEF Holding, Needed, Slots
  <2> QED
    BY <2>1 DEF Init, HeldInTurn
<1>9. InTurn
  BY <1>5 DEF InTurn, Needed
<1>10. HeldExact /\ Moved
  BY <1>6 DEF Init, HeldExact, Moved
<1>11. HostPlaced
  BY <1>4 DEF HostPlaced, Hosts
<1>12. ChildInTurn /\ ChildReady /\ ChildStreams
  BY <1>5 DEF Init, ChildInTurn, ChildReady, ChildStreams
<1>13. NothingLeft
  BY <1>5 DEF NothingLeft
<1> QED
  BY <1>7, <1>8, <1>9, <1>10, <1>11, <1>12, <1>13 DEF LaunchInv

\* The destructors close what the slots hold and nothing else.
LEMMA Destroyed ==
    ASSUME LaunchInv, NEW h \in [Slots -> Numbers \cup {NoFd}],
           \A s \in Slots : h[s] \in {held[s], NoFd}
    PROVE  /\ Destroy(table, h) \in [Numbers -> Files]
           /\ \A f \in Numbers : table[f] \in Hosts => Destroy(table, h)[f] = table[f]
           /\ \A f \in Numbers : Destroy(table, h)[f] \in {table[f], "none"}
           /\ \A s \in Slots : h[s] # NoFd => Destroy(table, h)[h[s]] = "none"
           /\ \A s \in Slots : h[s] = NoFd /\ held[s] # NoFd =>
                Destroy(table, h)[held[s]] = table[held[s]]
<1>1. /\ table \in [Numbers -> Files] /\ held \in [Slots -> Numbers \cup {NoFd}]
      /\ NoFd \notin Numbers /\ "none" \in Files
  BY DEF LaunchInv, TypeOK, Numbers, NoFd, Files
<1>2. \A s \in Slots : held[s] # NoFd =>
        held[s] \in Numbers /\ table[held[s]] = PipeEnds[s] /\ table[held[s]] \notin Hosts
  BY <1>1, EndsApart DEF LaunchInv, HeldExact
<1>3. \A s, t \in Slots : held[s] # NoFd /\ held[s] = held[t] => s = t
  BY <1>2, EndsApart
<1> HIDE DEF NoFd
<1>4. \A f \in Numbers : Destroy(table, h)[f] =
        IF \E s \in Slots : h[s] = f THEN "none" ELSE table[f]
  BY DEF Destroy
<1>5. \A f \in Numbers : table[f] \in Hosts => Destroy(table, h)[f] = table[f]
  BY <1>1, <1>2, <1>4
<1>6. \A s \in Slots : h[s] = NoFd /\ held[s] # NoFd =>
                Destroy(table, h)[held[s]] = table[held[s]]
  BY <1>1, <1>2, <1>3, <1>4
<1>7. Destroy(table, h) \in [Numbers -> Files]
  BY <1>1 DEF Destroy
<1> QED
  BY <1>1, <1>4, <1>5, <1>6, <1>7

\* A launch is over without a child: everything is closed.
LEMMA FailedEnd ==
    ASSUME LaunchInv, UNCHANGED <<limit, piped, limited, k, out, step, ctable, report>>,
           at \notin {"ok", "failed"}, at' = "failed", doomed' \in BOOLEAN,
           child' \in {"none", "reaped"}, child' \in {child, "reaped"},
           table' = Destroy(table, held), held' = [s \in Slots |-> NoFd]
    PROVE  LaunchInv'
<1> USE DEF LaunchInv
<1>1. held \in [Slots -> Numbers \cup {NoFd}] /\ \A s \in Slots : held'[s] = NoFd
  BY DEF TypeOK
<1>2. /\ table' \in [Numbers -> Files]
      /\ \A f \in Numbers : table'[f] \in {table[f], "none"}
      /\ \A s \in Slots : held[s] # NoFd => table'[held[s]] = "none"
  BY <1>1, Destroyed
<1>3. \A f \in Numbers : table'[f] \notin Ours
  <2> SUFFICES ASSUME NEW f \in Numbers, table'[f] \in Ours PROVE FALSE
    OBVIOUS
  <2>1. table'[f] = table[f] /\ table[f] \in Ours
    BY <1>2, EndsApart
  <2>2. PICK s \in Slots : held[s] = f
    BY <2>1 DEF HeldExact
  <2>3. f # NoFd
    BY DEF Numbers, NoFd
  <2> QED
    BY <1>2, <2>1, <2>2, <2>3, EndsApart
<1>4. TypeOK'
  BY <1>1, <1>2 DEF TypeOK, Stages
<1>5. HeldInTurn' /\ InTurn' /\ HeldExact' /\ Moved'
  BY <1>1, <1>3 DEF HeldInTurn, InTurn, HeldExact, Moved, Holding
<1>6. HostPlaced'
  BY <1>2 DEF HostPlaced, Hosts
<1>7. ChildInTurn' /\ ChildReady' /\ ChildStreams' /\ NothingLeft'
  BY <1>3 DEF ChildInTurn, ChildReady, ChildStreams, NothingLeft
<1> QED
  BY <1>4, <1>5, <1>6, <1>7

\* The caller takes its ends and everything else is closed.
LEMMA OkEnd ==
    ASSUME LaunchInv, at \in {"launch", "read"}, Succeed,
           child' \in {"running", "zombie"}, ChildStreams', ctable' \in [Numbers -> Files],
           UNCHANGED <<step, report, doomed>>
    PROVE  LaunchInv'
<1> USE DEF LaunchInv
<1> DEFINE left == [s \in Slots |-> IF s \in ParentEnds THEN NoFd ELSE held[s]]
<1>1. /\ held \in [Slots -> Numbers \cup {NoFd}] /\ \A s \in Slots : held'[s] = NoFd
      /\ at' = "ok" /\ UNCHANGED <<limit, piped, limited, k>>
      /\ table' = Destroy(table, left) /\ NoFd \notin Numbers /\ ParentEnds \subseteq Slots
      /\ piped \in BOOLEAN
  BY DEF TypeOK, Succeed, host, NoFd, Numbers, ParentEnds, Slots
<1>2. left \in [Slots -> Numbers \cup {NoFd}] /\ \A s \in Slots : left[s] \in {held[s], NoFd}
  BY <1>1
<1>3. \A s \in Slots : left[s] = IF s \in ParentEnds THEN NoFd ELSE held[s]
  OBVIOUS
<1> HIDE DEF left
<1>4. /\ table' \in [Numbers -> Files]
      /\ \A f \in Numbers : table'[f] \in {table[f], "none"}
      /\ \A s \in Slots : left[s] # NoFd => table'[left[s]] = "none"
      /\ \A s \in Slots : left[s] = NoFd /\ held[s] # NoFd => table'[held[s]] = table[held[s]]
  BY <1>1, <1>2, Destroyed
<1>5. piped => /\ out' = [s \in {"input", "output", "errors"} |->
                            IF s = "input" THEN held[2]
                            ELSE IF s = "output" THEN held[3] ELSE held[5]]
               /\ ParentEnds = {2, 3, 5}
               /\ held[2] # NoFd /\ held[3] # NoFd /\ held[5] # NoFd
  <2>1. piped => Holding(2) /\ Holding(3) /\ Holding(5)
    BY DEF Holding, Needed
  <2> QED
    BY <2>1 DEF Succeed, ParentEnds, HeldInTurn, Slots
<1>6. ~piped => out' = NoOutput /\ ParentEnds = {}
  BY DEF Succeed, ParentEnds, ChildInTurn
<1>7. \A f \in Numbers : table'[f] \in Ours => \E s \in ParentEnds : held[s] = f
  <2> SUFFICES ASSUME NEW f \in Numbers, table'[f] \in Ours
               PROVE  \E s \in ParentEnds : held[s] = f
    OBVIOUS
  <2>1. table'[f] # "none" /\ table[f] = table'[f]
    BY <1>4, EndsApart
  <2>2. PICK s \in Slots : held[s] = f
    BY <2>1 DEF HeldExact
  <2>3. s \in ParentEnds
    BY <1>1, <1>3, <1>4, <2>1, <2>2
  <2> QED
    BY <2>2, <2>3
<1>8. piped => table'[held[2]] = "in_w" /\ table'[held[3]] = "out_r" /\ table'[held[5]] = "err_r"
  <2> SUFFICES ASSUME piped PROVE \A s \in {2, 3, 5} : table'[held[s]] = PipeEnds[s]
    BY EndsApart
  <2> QED
    BY <1>1, <1>3, <1>4, <1>5 DEF HeldExact
<1>9. NothingLeft'
  <2>1. {f \in Numbers : table'[f] \in Ours} = {out'[s] : s \in DOMAIN out'} \ {NoFd}
    <3>1. CASE piped
      <4>1. {out'[s] : s \in DOMAIN out'} = {held[2], held[3], held[5]}
        BY <1>5, <3>1
      <4>2. \A s \in {2, 3, 5} : held[s] \in Numbers /\ table'[held[s]] \in Ours /\ held[s] # NoFd
        BY <1>1, <1>5, <1>8, <3>1, EndsApart DEF Slots
      <4> QED
        BY <1>5, <1>7, <3>1, <4>1, <4>2
    <3>2. CASE ~piped
      <4>1. {out'[s] : s \in DOMAIN out'} = {NoFd}
        BY <1>6, <3>2 DEF NoOutput
      <4> QED
        BY <1>6, <1>7, <3>2, <4>1
    <3> QED
      BY <3>1, <3>2
  <2> QED
    BY <1>1, <1>5, <1>8, <2>1 DEF NothingLeft
<1>10. TypeOK'
  <2>1. out' \in [{"input", "output", "errors"} -> Numbers \cup {NoFd}]
    BY <1>1, <1>5, <1>6 DEF Slots, NoOutput
  <2>2. held' \in [Slots -> Numbers \cup {NoFd}]
    BY DEF Succeed
  <2> QED
    BY <1>1, <1>4, <2>1, <2>2 DEF TypeOK, Stages
<1>11. HeldInTurn' /\ InTurn' /\ HeldExact' /\ Moved'
  BY <1>1 DEF HeldInTurn, InTurn, HeldExact, Moved, Holding
<1>12. HostPlaced'
  BY <1>4 DEF HostPlaced, Hosts
<1>13. ChildInTurn' /\ ChildReady'
  BY <1>1 DEF ChildInTurn, ChildReady
<1> QED
  BY <1>9, <1>10, <1>11, <1>12, <1>13

-----------------------------------------------------------------------------
(* The launching thread.                                                   *)

\* A pipe is made for the slots k and k + 1.
LEMMA MakePipeStep == ASSUME LaunchInv, MakePipe PROVE LaunchInv'
<1> USE DEF LaunchInv
<1>1. PICK r, w \in Numbers :
        /\ table[r] = "none" /\ table[w] = "none" /\ w # r
        /\ table' = [table EXCEPT ![r] = PipeEnds[k], ![w] = PipeEnds[k + 1]]
        /\ held' = [held EXCEPT ![k] = r, ![k + 1] = w]
  BY TwoLowestFree DEF MakePipe
<1>2. /\ at = "pipe" /\ at' = "move" /\ child = "none"
      /\ UNCHANGED <<limit, piped, limited, k, out, child, step, ctable, report, doomed>>
      /\ k \in {1, 3, 5, 7} /\ k \in Needed /\ k + 1 \in Needed /\ k \in Slots /\ k + 1 \in Slots
  BY DEF MakePipe, InTurn, Needed, Slots, host, forked, ChildInTurn
<1>3. /\ table \in [Numbers -> Files] /\ held \in [Slots -> Numbers \cup {NoFd}]
      /\ NoFd \notin Numbers
  BY DEF TypeOK, Numbers, NoFd
<1>4. \A s \in Slots : held[s] # NoFd =>
        held[s] \in Numbers /\ held[s] # r /\ held[s] # w /\ s < k
  BY <1>1, <1>2, <1>3, EndsApart DEF HeldExact, HeldInTurn, Holding
<1>5. /\ \A f \in Numbers \ {r, w} : table'[f] = table[f]
      /\ table'[r] = PipeEnds[k] /\ table'[w] = PipeEnds[k + 1]
      /\ held'[k] = r /\ held'[k + 1] = w
      /\ \A s \in Slots \ {k, k + 1} : held'[s] = held[s]
  BY <1>1, <1>2, <1>3
<1>6. TypeOK'
  BY <1>1, <1>2, <1>3, EndsApart DEF TypeOK, Stages
<1>7. HeldInTurn'
  BY <1>1, <1>2, <1>3, <1>5 DEF HeldInTurn, Holding, Needed, Slots
<1>8. HeldExact'
  BY <1>1, <1>2, <1>3, <1>4, <1>5 DEF HeldExact
<1>9. Moved'
  BY <1>2, <1>5 DEF Moved, Slots
<1>10. HostPlaced'
  <2>1. table'[r] \notin Hosts /\ table'[w] \notin Hosts
    BY <1>2, <1>5, EndsApart
  <2> QED
    BY <1>5, <2>1 DEF HostPlaced
<1>11. InTurn' /\ ChildInTurn' /\ ChildReady' /\ ChildStreams' /\ NothingLeft'
  BY <1>2 DEF InTurn, Needed, ChildInTurn, ChildReady, ChildStreams, NothingLeft
<1> QED
  BY <1>6, <1>7, <1>8, <1>9, <1>10, <1>11

\* An end is moved out of the way of the child's streams.
LEMMA MoveStep == ASSUME LaunchInv, Move PROVE LaunchInv'
<1> USE DEF LaunchInv
<1>1. /\ at = "move" /\ k' = k + 1 /\ at' = NextAfterMove /\ child = "none"
      /\ UNCHANGED <<limit, piped, limited, out, child, step, ctable, report, doomed>>
      /\ k \in Needed /\ k \in Slots /\ k \in 1..8
      /\ held \in [Slots -> Numbers \cup {NoFd}] /\ table \in [Numbers -> Files]
      /\ NoFd \notin Numbers /\ Numbers \subseteq Nat
  BY DEF Move, InTurn, Needed, Slots, host, forked, ChildInTurn, TypeOK, Numbers, NoFd
<1>2. /\ held[k] # NoFd /\ held[k] \in Numbers /\ table[held[k]] = PipeEnds[k]
  BY <1>1 DEF HeldInTurn, Holding, HeldExact
<1>3. PICK to \in Numbers :
        /\ to >= 3
        /\ \/ to = held[k] /\ UNCHANGED <<table, held>>
           \/ /\ table[to] = "none" /\ held' = [held EXCEPT ![k] = to]
              /\ table' = [table EXCEPT ![to] = PipeEnds[k], ![held[k]] = "none"]
  <2>1. CASE NeedsMove(held[k])
    BY <2>1, LowestFree DEF Move, Relocate
  <2>2. CASE ~NeedsMove(held[k])
    <3>1. held[k] >= 3
      <4>1. held[k] \in Nat
        BY <1>1, <1>2
      <4> QED
        BY <2>2, <4>1 DEF NeedsMove
    <3>2. UNCHANGED <<table, held>>
      BY <2>2 DEF Move
    <3> QED
      BY <1>2, <3>1, <3>2
  <2> QED
    BY <2>1, <2>2
<1>4. /\ held'[k] = to /\ table'[to] = PipeEnds[k]
      /\ \A s \in Slots \ {k} : held'[s] = held[s]
      /\ \A f \in Numbers \ {to, held[k]} : table'[f] = table[f]
      /\ held[k] # to => table'[held[k]] = "none" /\ table[to] = "none"
  BY <1>1, <1>2, <1>3, EndsApart
<1>5. \A s \in Slots \ {k} : held[s] # NoFd =>
        /\ held[s] \in Numbers /\ table[held[s]] = PipeEnds[s]
        /\ held[s] # held[k] /\ held[s] # to
  BY <1>1, <1>2, <1>4, EndsApart DEF HeldExact
<1>6. \A s \in Slots : Holding(s)' <=> Holding(s)
  BY <1>1 DEF Holding, Needed, NextAfterMove, Slots
<1>7. /\ InTurn' /\ k' \in 1..9 /\ at' \in Stages
      /\ at' \in {"move", "pipe", "flags", "launch"} /\ (at' \in {"flags", "launch"} => k \in {6, 8})
  BY <1>1 DEF InTurn, Needed, NextAfterMove, Stages
<1>8. TypeOK'
  <2>1. table' \in [Numbers -> Files] /\ held' \in [Slots -> Numbers \cup {NoFd}]
    BY <1>1, <1>2, <1>3, EndsApart DEF Files
  <2> QED
    BY <1>1, <1>7, <2>1 DEF TypeOK
<1>9. HeldInTurn'
  BY <1>1, <1>2, <1>4, <1>6, <1>7 DEF HeldInTurn
<1>10. HeldExact'
  <2>1. \A s \in Slots : held'[s] # NoFd => table'[held'[s]] = PipeEnds[s]
    BY <1>1, <1>4, <1>5, ZenonT(60)
  <2>2. \A f \in Numbers : table'[f] \in Ours => \E s \in Slots : held'[s] = f
    <3> SUFFICES ASSUME NEW f \in Numbers, table'[f] \in Ours, f # to
                 PROVE  \E s \in Slots : held'[s] = f
      BY <1>1, <1>4
    <3>1. f # held[k]
      BY <1>4, EndsApart
    <3>2. PICK s \in Slots : held[s] = f
      BY <1>1, <1>4, <3>1 DEF HeldExact
    <3> QED
      BY <1>4, <3>1, <3>2
  <2> QED
    BY <2>1, <2>2 DEF HeldExact
<1>11. Moved'
  <2> SUFFICES ASSUME NEW s \in Slots, held'[s] # NoFd,
                      ~(at' \in {"pipe", "move"} /\ s >= k')
               PROVE  held'[s] >= 3
    BY DEF Moved
  <2>1. CASE s = k
    BY <1>3, <1>4, <2>1
  <2>2. CASE s # k
    <3>1. s < k
      <4>1. held[s] # NoFd /\ Holding(s)
        BY <1>4, <2>2 DEF HeldInTurn
      <4> QED
        BY <1>1, <1>7, <2>2, <4>1 DEF Holding, Slots
    <3> QED
      BY <1>1, <1>4, <2>2, <3>1 DEF Moved, Slots
  <2> QED
    BY <2>1, <2>2
<1>12. HostPlaced'
  BY <1>1, <1>2, <1>4, EndsApart DEF HostPlaced, Hosts
<1>13. ChildInTurn' /\ ChildReady' /\ ChildStreams' /\ NothingLeft'
  BY <1>1, <1>7 DEF ChildInTurn, ChildReady, ChildStreams, NothingLeft
<1> QED
  BY <1>7, <1>8, <1>9, <1>10, <1>11, <1>12, <1>13

\* A launch with limits goes on to its pipe, another one is launched.
LEMMA SetFlagsStep == ASSUME LaunchInv, SetFlags PROVE LaunchInv'
<1> USE DEF LaunchInv
<1>1. /\ at = "flags" /\ piped /\ child = "none"
      /\ UNCHANGED <<limit, piped, limited, table, held, out, child, step, ctable, report, doomed>>
      /\ \/ limited /\ k' = 7 /\ at' = "pipe"
         \/ ~limited /\ k' = 9 /\ at' = "launch"
  BY DEF SetFlags, InTurn, host, forked, ChildInTurn
<1>2. \A s \in Slots : Holding(s)' <=> Holding(s)
  BY <1>1 DEF Holding, Needed, Slots
<1>3. TypeOK'
  BY <1>1 DEF TypeOK, Stages
<1>4. HeldInTurn' /\ HeldExact' /\ Moved' /\ HostPlaced'
  BY <1>1, <1>2 DEF HeldInTurn, HeldExact, Moved, HostPlaced
<1>5. InTurn' /\ ChildInTurn' /\ ChildReady' /\ ChildStreams' /\ NothingLeft'
  BY <1>1 DEF InTurn, Needed, ChildInTurn, ChildReady, ChildStreams, NothingLeft
<1> QED
  BY <1>3, <1>4, <1>5

\* Where the child takes its streams from, and that none lies in the way.
LEMMA Sources ==
    ASSUME LaunchInv, piped, at \in {"launch", "restore", "listen", "read", "reap"}
    PROVE  /\ Source(0) = held[1] /\ Source(1) = held[4] /\ Source(2) = held[6]
           /\ \A s \in {1, 4, 6} :
                held[s] \in Numbers /\ held[s] >= 3 /\ table[held[s]] = PipeEnds[s]
<1>1. Source(0) = held[1] /\ Source(1) = held[4] /\ Source(2) = held[6]
  BY DEF Source
<1>2. \A s \in {1, 4, 6} : Holding(s) /\ s \in Slots
  BY DEF Holding, Needed, Slots
<1>3. \A s \in {1, 4, 6} : held[s] # NoFd
  BY <1>2 DEF LaunchInv, HeldInTurn
<1> QED
  BY <1>1, <1>2, <1>3 DEF LaunchInv, HeldExact, Moved, TypeOK

\* What the low numbers of the host hold when nothing was piped.
LEMMA HostStreams ==
    ASSUME LaunchInv, at \in {"launch", "restore"}
    PROVE  \A f \in 0..2 : table[f] \in {"none", "file", Std[f + 1]}
<1> SUFFICES ASSUME NEW f \in 0..2 PROVE table[f] \in {"none", "file", Std[f + 1]}
  OBVIOUS
<1>1. f \in Numbers /\ table[f] \in Files
  BY EnoughNumbers DEF LaunchInv, TypeOK, Numbers
<1>2. table[f] \notin Ours
  <2> SUFFICES ASSUME table[f] \in Ours PROVE FALSE
    OBVIOUS
  <2>1. PICK s \in Slots : held[s] = f
    BY <1>1 DEF LaunchInv, HeldExact
  <2> QED
    BY <2>1 DEF LaunchInv, Moved, NoFd
<1>3. table[f] \in {"none"} \cup Hosts
  BY <1>1, <1>2 DEF Files, Ours
<1> QED
  BY <1>1, <1>3 DEF LaunchInv, HostPlaced

\* Of a table that keeps the low numbers only these remain.
LEMMA KeepLow ==
    ASSUME NEW t \in [Numbers -> Files], NEW S
    PROVE  /\ KeepOnly(t, S) \in [Numbers -> Files]
           /\ \A f \in Numbers : KeepOnly(t, S)[f] = IF f \in S THEN t[f] ELSE "none"
  BY DEF KeepOnly, Files

\* What dup2 does to a table.
LEMMA Duplicated ==
    ASSUME NEW t \in [Numbers -> Files], NEW source \in Numbers, NEW target \in Numbers
    PROVE  /\ Dup2(t, source, target) \in [Numbers -> Files]
           /\ \A f \in Numbers \ {target} : Dup2(t, source, target)[f] = t[f]
           /\ t[source] # "none" => Dup2(t, source, target)[target] = t[source]
           /\ source = target => Dup2(t, source, target) = t
  BY DEF Dup2

\* posix_spawn: the program runs with its streams in place.
LEMMA SpawnStep == ASSUME LaunchInv, Spawn PROVE LaunchInv'
<1> USE DEF LaunchInv
<1> DEFINE t0 == Dup2(table, Source(0), 0)
           t1 == Dup2(t0, Source(1), 1)
           t2 == Dup2(t1, Source(2), 2)
<1>0. t2 = Dup2(Dup2(Dup2(table, Source(0), 0), Source(1), 1), Source(2), 2)
  OBVIOUS
<1>1. /\ at = "launch" /\ Succeed /\ child' = "running" /\ ctable' = KeepOnly(t2, 0..2)
      /\ UNCHANGED <<step, report, doomed, piped>>
  BY <1>0 DEF Spawn, Succeed, host
<1>2. /\ table \in [Numbers -> Files] /\ 0 \in Numbers /\ 1 \in Numbers /\ 2 \in Numbers
      /\ piped \in BOOLEAN
  BY EnoughNumbers DEF TypeOK, Numbers
<1>3. Source(0) \in Numbers /\ Source(1) \in Numbers /\ Source(2) \in Numbers
  BY <1>1, <1>2, Sources DEF Source
<1>4. /\ t0 \in [Numbers -> Files] /\ \A f \in Numbers \ {0} : t0[f] = table[f]
      /\ table[Source(0)] # "none" => t0[0] = table[Source(0)]
      /\ Source(0) = 0 => t0 = table
  BY <1>2, <1>3, Duplicated
<1>5. /\ t1 \in [Numbers -> Files] /\ \A f \in Numbers \ {1} : t1[f] = t0[f]
      /\ t0[Source(1)] # "none" => t1[1] = t0[Source(1)]
      /\ Source(1) = 1 => t1 = t0
  BY <1>2, <1>3, <1>4, Duplicated
<1>6. /\ t2 \in [Numbers -> Files] /\ \A f \in Numbers \ {2} : t2[f] = t1[f]
      /\ t1[Source(2)] # "none" => t2[2] = t1[Source(2)]
      /\ Source(2) = 2 => t2 = t1
  BY <1>2, <1>3, <1>5, Duplicated
<1> HIDE DEF t0, t1, t2
<1>7. CASE piped
  <2>1. /\ \A s \in {1, 4, 6} : held[s] \in Numbers /\ held[s] \notin 0..2
        /\ Source(0) = held[1] /\ Source(1) = held[4] /\ Source(2) = held[6]
        /\ table[held[1]] = "in_r" /\ table[held[4]] = "out_w" /\ table[held[6]] = "err_w"
    BY <1>1, <1>7, Sources, EndsApart
  <2>2. t0[0] = "in_r"
    BY <1>4, <2>1
  <2>3. t0[held[4]] = "out_w" /\ t0[held[6]] = "err_w"
    BY <1>4, <2>1
  <2>4. t1[1] = "out_w" /\ t1[0] = "in_r" /\ t1[held[6]] = "err_w"
    BY <1>2, <1>5, <2>1, <2>2, <2>3
  <2>5. t2[2] = "err_w" /\ t2[1] = "out_w" /\ t2[0] = "in_r"
    BY <1>2, <1>6, <2>1, <2>4
  <2>6. /\ ctable'[0] = "in_r" /\ ctable'[1] = "out_w" /\ ctable'[2] = "err_w"
        /\ \A f \in Numbers \ (0..2) : ctable'[f] = "none"
        /\ ctable' \in [Numbers -> Files]
    BY <1>1, <1>2, <1>6, <2>5, KeepLow
  <2>7. ChildStreams'
    BY <1>1, <1>7, <2>6 DEF ChildStreams
  <2> QED
    BY <1>1, <2>6, <2>7, OkEnd
<1>8. CASE ~piped
  <2>1. Source(0) = 0 /\ Source(1) = 1 /\ Source(2) = 2
    BY <1>8 DEF Source
  <2>2. t2 = table
    BY <1>4, <1>5, <1>6, <2>1
  <2>3. \A f \in 0..2 : ctable'[f] \in {"none", "file", Std[f + 1]}
    BY <1>1, <1>2, <2>2, HostStreams, KeepLow
  <2>4. ctable' \in [Numbers -> Files] /\ \A f \in Numbers \ (0..2) : ctable'[f] = "none"
    BY <1>1, <1>2, <2>2, KeepLow
  <2>5. ChildStreams'
    BY <1>1, <1>8, <2>3, <2>4 DEF ChildStreams
  <2> QED
    BY <1>1, <2>4, <2>5, OkEnd
<1> QED
  BY <1>2, <1>7, <1>8

\* fork: the child has a copy of the table.
LEMMA ForkStep == ASSUME LaunchInv, Forks PROVE LaunchInv'
<1> USE DEF LaunchInv
<1>1. /\ at = "launch" /\ limited /\ child = "none" /\ child' = "setup" /\ ctable' = table
      /\ at' = "restore"
      /\ UNCHANGED <<limit, piped, limited, table, held, out, k, step, report, doomed>>
  BY DEF Forks, host, ChildInTurn
<1>2. TypeOK'
  BY <1>1 DEF TypeOK, Stages
<1>3. HeldInTurn' /\ InTurn' /\ HeldExact' /\ Moved' /\ HostPlaced'
  BY <1>1 DEF HeldInTurn, InTurn, HeldExact, Moved, HostPlaced, Holding, Needed
<1>4. ChildInTurn' /\ NothingLeft' /\ ChildStreams'
  BY <1>1 DEF ChildInTurn, NothingLeft, ChildStreams
<1>5. ChildReady'
  <2>1. Holding(8) /\ 8 \in Slots
    BY <1>1 DEF Holding, Needed, Slots
  <2>2. held[8] # NoFd
    BY <1>1, <2>1 DEF HeldInTurn
  <2>3. held[8] \in Numbers /\ held[8] >= 3 /\ table[held[8]] = "st_w"
    BY <1>1, <2>1, <2>2, EndsApart DEF HeldExact, Moved, TypeOK
  <2>4. held[8] \in 3..MaxFd
    BY <2>3, EnoughNumbers DEF Numbers
  <2>5. piped => table[held[1]] = "in_r" /\ table[held[4]] = "out_w" /\ table[held[6]] = "err_w"
    BY <1>1, Sources, EndsApart
  <2>6. \A f \in 0..2 : table[f] \in {"none", "file", Std[f + 1]}
    BY <1>1, HostStreams
  <2>7. step = "prologue"
    BY <1>1 DEF ChildInTurn
  <2> QED
    BY <1>1, <2>3, <2>4, <2>5, <2>6, <2>7 DEF ChildReady
<1> QED
  BY <1>2, <1>3, <1>4, <1>5

\* The signal mask is restored.
LEMMA RestoreStep == ASSUME LaunchInv, Restore PROVE LaunchInv'
<1> USE DEF LaunchInv
<1>1. /\ at = "restore" /\ at' = "listen"
      /\ UNCHANGED <<limit, piped, limited, table, held, out, k, child, step, ctable, report, doomed>>
  BY DEF Restore, host, forked
<1>2. TypeOK'
  BY <1>1 DEF TypeOK, Stages
<1>3. HeldInTurn' /\ InTurn' /\ HeldExact' /\ Moved' /\ HostPlaced'
  BY <1>1 DEF HeldInTurn, InTurn, HeldExact, Moved, HostPlaced, Holding, Needed
<1>4. ChildInTurn' /\ ChildReady' /\ NothingLeft' /\ ChildStreams'
  BY <1>1 DEF ChildInTurn, ChildReady, NothingLeft, ChildStreams
<1> QED
  BY <1>2, <1>3, <1>4

\* The parent closes its write end of the status channel.
LEMMA ListenStep == ASSUME LaunchInv, Listen PROVE LaunchInv'
<1> USE DEF LaunchInv
<1>1. /\ at = "listen" /\ at' = "read" /\ limited
      /\ UNCHANGED <<limit, piped, limited, out, k, child, step, ctable, report, doomed>>
      /\ table' = [table EXCEPT ![held[8]] = "none"] /\ held' = [held EXCEPT ![8] = NoFd]
      /\ 8 \in Slots /\ \A s \in {1, 4, 6} : s \in Slots
  BY DEF Listen, CloseWriteEnd, InTurn, host, forked, Slots
<1>2. /\ table \in [Numbers -> Files] /\ held \in [Slots -> Numbers \cup {NoFd}]
      /\ "none" \in Files
  BY DEF TypeOK, Files
<1>3. held[8] # NoFd /\ held[8] \in Numbers /\ table[held[8]] = PipeEnds[8]
  <2>1. Holding(8)
    BY <1>1 DEF Holding, Needed
  <2> QED
    BY <1>1, <1>2, <2>1 DEF HeldInTurn, HeldExact
<1>4. /\ held'[8] = NoFd /\ \A s \in Slots \ {8} : held'[s] = held[s]
      /\ table'[held[8]] = "none" /\ \A f \in Numbers \ {held[8]} : table'[f] = table[f]
  BY <1>1, <1>2, <1>3
<1>5. \A s \in Slots \ {8} : held[s] # NoFd => held[s] # held[8] /\ held[s] \in Numbers
  BY <1>1, <1>2, <1>3, EndsApart DEF HeldExact
<1>6. TypeOK'
  BY <1>1, <1>2 DEF TypeOK, Stages
<1>7. HeldInTurn' /\ Moved'
  BY <1>1, <1>4 DEF HeldInTurn, Moved, Holding, Needed
<1>8. HeldExact'
  <2>1. \A s \in Slots : held'[s] # NoFd => table'[held'[s]] = PipeEnds[s]
    BY <1>4, <1>5 DEF HeldExact
  <2>2. ASSUME NEW f \in Numbers, table'[f] \in Ours PROVE \E s \in Slots : held'[s] = f
    <3>1. f # held[8]
      BY <1>4, <2>2, EndsApart
    <3>2. PICK s \in Slots : held[s] = f
      BY <1>1, <1>4, <2>2, <3>1 DEF HeldExact
    <3> QED
      BY <1>4, <3>1, <3>2
  <2> QED
    BY <2>1, <2>2 DEF HeldExact
<1>9. HostPlaced'
  BY <1>1, <1>3, <1>4 DEF HostPlaced, Hosts
<1>10. InTurn' /\ ChildInTurn' /\ NothingLeft' /\ ChildStreams'
  BY <1>1 DEF InTurn, ChildInTurn, NothingLeft, ChildStreams
<1>11. ChildReady'
  BY <1>1, <1>4 DEF ChildReady
<1> QED
  BY <1>6, <1>7, <1>8, <1>9, <1>10, <1>11

\* The end of the status channel: nobody can report any more.
LEMMA ReadEofStep == ASSUME LaunchInv, ReadEof PROVE LaunchInv'
<1>1. /\ at = "read" /\ ~HasWriter /\ Succeed
      /\ UNCHANGED <<child, step, ctable, report, doomed>>
  BY DEF ReadEof, forked
<1>2. child # "setup"
  <2> SUFFICES ASSUME child = "setup" PROVE FALSE
    OBVIOUS
  <2>1. PICK f \in 3..MaxFd : ctable[f] = "st_w"
    BY DEF LaunchInv, ChildReady
  <2>2. f \in Numbers
    BY EnoughNumbers DEF Numbers
  <2> QED
    BY <1>1, <2>1, <2>2 DEF HasWriter
<1>3. child' \in {"running", "zombie"} /\ ctable' \in [Numbers -> Files]
  BY <1>1, <1>2 DEF LaunchInv, ChildInTurn, TypeOK
<1>4. ChildStreams'
  BY <1>1 DEF LaunchInv, ChildStreams, Succeed, host
<1> QED
  BY <1>1, <1>3, <1>4, OkEnd

\* The parent gives up on its child, and later reaps it.
LEMMA GiveUpStep == ASSUME LaunchInv, GiveUp PROVE LaunchInv'
<1> USE DEF LaunchInv
<1>1. /\ at \in {"restore", "read"} /\ at' = "reap" /\ doomed' \in BOOLEAN
      /\ UNCHANGED <<limit, piped, limited, table, held, out, k, child, step, ctable, report>>
  BY DEF GiveUp, host
<1>2. TypeOK'
  BY <1>1 DEF TypeOK, Stages
<1>3. HeldInTurn' /\ InTurn' /\ HeldExact' /\ Moved' /\ HostPlaced'
  BY <1>1 DEF HeldInTurn, InTurn, HeldExact, Moved, HostPlaced, Holding, Needed
<1>4. ChildInTurn' /\ ChildReady' /\ NothingLeft' /\ ChildStreams'
  BY <1>1 DEF ChildInTurn, ChildReady, NothingLeft, ChildStreams
<1> QED
  BY <1>2, <1>3, <1>4

\* Every step of the launching thread.
LEMMA LauncherStep == ASSUME LaunchInv, Launcher \/ GiveUp PROVE LaunchInv'
<1>1. CASE StepFails
  <2>1. at \in {"pipe", "move", "flags", "launch"} /\ child = "none" /\ Fail
    BY <1>1 DEF StepFails, LaunchInv, ChildInTurn
  <2>2. doomed \in BOOLEAN
    BY DEF LaunchInv, TypeOK
  <2> QED
    BY <2>1, <2>2, FailedEnd DEF Fail, host, forked
<1>2. CASE Reap
  <2>1. doomed \in BOOLEAN
    BY DEF LaunchInv, TypeOK
  <2> QED
    BY <1>2, <2>1, FailedEnd DEF Reap, host
<1> QED
  BY <1>1, <1>2, MakePipeStep, MoveStep, SetFlagsStep, SpawnStep, ForkStep, RestoreStep,
    ListenStep, ReadEofStep, GiveUpStep DEF Launcher

-----------------------------------------------------------------------------
(* The child and the rest of the host.                                     *)

\* A step of the child leaves the host alone.
LEMMA ChildOnly ==
    ASSUME LaunchInv, UNCHANGED <<limit, piped, limited, table, at, k, held, out, doomed>>,
           ctable' \in [Numbers -> Files], step' \in ChildSteps, report' \in BOOLEAN,
           child \in {"setup", "running"}, child' \in {"setup", "running", "zombie"},
           child = "running" => child' # "setup",
           ChildReady', ChildStreams'
    PROVE  LaunchInv'
<1> USE DEF LaunchInv
<1>1. TypeOK'
  BY DEF TypeOK
<1>2. HeldInTurn' /\ InTurn' /\ HeldExact' /\ Moved' /\ HostPlaced'
  BY DEF HeldInTurn, InTurn, HeldExact, Moved, HostPlaced, Holding, Needed
<1>3. ChildInTurn'
  BY DEF ChildInTurn
<1>4. at = "ok" => child = "running"
  BY DEF NothingLeft
<1>5. at # "failed"
  BY DEF NothingLeft
<1>6. NothingLeft'
  BY <1>4, <1>5 DEF NothingLeft
<1> QED
  BY <1>1, <1>2, <1>3, <1>6

\* One of the three streams is put in its place.
LEMMA DupStep ==
    ASSUME LaunchInv, NEW n \in 0..2, NEW here \in ChildSteps, NEW after \in ChildSteps,
           DupStream(n, here, after),
           <<n, here, after>> \in {<<0, "dup0", "dup1">>, <<1, "dup1", "dup2">>, <<2, "dup2", "close">>}
    PROVE  LaunchInv'
<1> USE DEF LaunchInv
<1>1. /\ child = "setup" /\ child' = "setup" /\ step = here /\ step' = after
      /\ ctable' = Dup2(ctable, Source(n), n)
      /\ UNCHANGED <<limit, piped, limited, table, at, k, held, out, report, doomed>>
      /\ at \in {"restore", "listen", "read", "reap"}
      /\ ctable \in [Numbers -> Files] /\ n \in Numbers /\ piped \in BOOLEAN
      /\ report \in BOOLEAN
  BY EnoughNumbers DEF DupStream, host, ChildReady, TypeOK, Numbers
<1>2. Source(n) \in Numbers
  BY <1>1, Sources DEF Source
<1>3. /\ ctable' \in [Numbers -> Files]
      /\ \A f \in Numbers \ {n} : ctable'[f] = ctable[f]
      /\ ctable[Source(n)] # "none" => ctable'[n] = ctable[Source(n)]
      /\ Source(n) = n => ctable' = ctable
  <2> DEFINE t == Dup2(ctable, Source(n), n)
  <2>1. /\ t \in [Numbers -> Files]
        /\ \A f \in Numbers \ {n} : t[f] = ctable[f]
        /\ ctable[Source(n)] # "none" => t[n] = ctable[Source(n)]
        /\ Source(n) = n => t = ctable
    <3>1. ctable \in [Numbers -> Files] /\ n \in Numbers
      BY <1>1
    <3> HIDE DEF LaunchInv
    <3> QED
      BY <1>2, <3>1, Duplicated
  <2>2. ctable' = t
    BY <1>1
  <2> HIDE DEF t
  <2> QED
    BY <2>1, <2>2
<1>4. PICK g \in 3..MaxFd : ctable[g] = "st_w"
  BY <1>1 DEF ChildReady
<1>5. g \in Numbers /\ ctable'[g] = "st_w"
  BY <1>3, <1>4, EnoughNumbers DEF Numbers
<1>6. ~piped => \A f \in 0..2 : ctable'[f] \in {"none", "file", Std[f + 1]}
  BY <1>1, <1>3 DEF Source, ChildReady
<1>7. piped =>
        /\ after \in {"dup1"} => ctable'[held[4]] = "out_w"
        /\ after \in {"dup1", "dup2"} => ctable'[held[6]] = "err_w"
        /\ after \in {"dup1", "dup2", "close"} => ctable'[0] = "in_r"
        /\ after \in {"dup2", "close"} => ctable'[1] = "out_w"
        /\ after \in {"close"} => ctable'[2] = "err_w"
  <2> SUFFICES ASSUME piped
               PROVE  /\ after \in {"dup1"} => ctable'[held[4]] = "out_w"
                      /\ after \in {"dup1", "dup2"} => ctable'[held[6]] = "err_w"
                      /\ after \in {"dup1", "dup2", "close"} => ctable'[0] = "in_r"
                      /\ after \in {"dup2", "close"} => ctable'[1] = "out_w"
                      /\ after \in {"close"} => ctable'[2] = "err_w"
    OBVIOUS
  <2>1. /\ Source(0) = held[1] /\ Source(1) = held[4] /\ Source(2) = held[6]
        /\ \A s \in {1, 4, 6} : held[s] \in Numbers /\ held[s] >= 3
    BY <1>1, Sources
  <2>2. /\ held[4] \in Numbers \ {0, 1, 2} /\ held[6] \in Numbers \ {0, 1, 2}
        /\ 0 \in Numbers /\ 1 \in Numbers /\ 2 \in Numbers
    BY <2>1, EnoughNumbers DEF Numbers
  <2>3. /\ step \in {"prologue", "dup0"} => ctable[held[1]] = "in_r"
        /\ step \in {"prologue", "dup0", "dup1"} => ctable[held[4]] = "out_w"
        /\ step \in {"prologue", "dup0", "dup1", "dup2"} => ctable[held[6]] = "err_w"
        /\ step \in {"dup1", "dup2", "close", "exec"} => ctable[0] = "in_r"
        /\ step \in {"dup2", "close", "exec"} => ctable[1] = "out_w"
    BY <1>1 DEF ChildReady
  <2>4. CASE n = 0 /\ here = "dup0" /\ after = "dup1"
    BY <1>1, <1>3, <2>1, <2>2, <2>3, <2>4, ZenonT(60)
  <2>5. CASE n = 1 /\ here = "dup1" /\ after = "dup2"
    BY <1>1, <1>3, <2>1, <2>2, <2>3, <2>5, ZenonT(60)
  <2>6. CASE n = 2 /\ here = "dup2" /\ after = "close"
    BY <1>1, <1>3, <2>1, <2>2, <2>3, <2>6
  <2> QED
    BY <2>4, <2>5, <2>6
<1>8. ChildReady' /\ ChildStreams'
  BY <1>1, <1>4, <1>5, <1>6, <1>7 DEF ChildReady, ChildStreams
<1> QED
  BY <1>1, <1>3, <1>8, ChildOnly

\* Everything but the low numbers and the status writer is closed.
LEMMA CloseRestStep == ASSUME LaunchInv, CloseRest PROVE LaunchInv'
<1> USE DEF LaunchInv
<1> DEFINE kept == (0..2) \cup {f \in Numbers : ctable[f] = "st_w"}
<1>1. /\ child = "setup" /\ child' = "setup" /\ step = "close" /\ step' = "exec"
      /\ ctable' = KeepOnly(ctable, kept)
      /\ UNCHANGED <<limit, piped, limited, table, at, k, held, out, report, doomed>>
      /\ at \in {"restore", "listen", "read", "reap"}
      /\ ctable \in [Numbers -> Files] /\ piped \in BOOLEAN /\ report \in BOOLEAN
      /\ "exec" \in ChildSteps
  BY DEF CloseRest, host, ChildReady, TypeOK, ChildSteps
<1> HIDE DEF kept
<1>2. /\ ctable' \in [Numbers -> Files]
      /\ \A f \in Numbers : ctable'[f] = IF f \in kept THEN ctable[f] ELSE "none"
  BY <1>1, KeepLow
<1>3. /\ 0..2 \subseteq Numbers /\ 3..MaxFd \subseteq Numbers
      /\ \A f \in 0..2 : ctable'[f] = ctable[f]
  BY <1>2, EnoughNumbers DEF Numbers, kept
<1>4. PICK g \in 3..MaxFd : ctable[g] = "st_w"
  BY <1>1 DEF ChildReady
<1>5. ctable'[g] = "st_w"
  BY <1>2, <1>3, <1>4 DEF kept
<1>6. ChildReady' /\ ChildStreams'
  BY <1>1, <1>3, <1>4, <1>5 DEF ChildReady, ChildStreams
<1> QED
  BY <1>1, <1>2, <1>6, ChildOnly

\* exec closes the status writer; the program has its three streams.
LEMMA ExecStep == ASSUME LaunchInv, Exec PROVE LaunchInv'
<1> USE DEF LaunchInv
<1>1. /\ child = "setup" /\ child' = "running" /\ step = "exec"
      /\ ctable' = KeepOnly(ctable, 0..2)
      /\ UNCHANGED <<limit, piped, limited, table, at, k, held, out, step, report, doomed>>
      /\ ctable \in [Numbers -> Files] /\ piped \in BOOLEAN /\ report \in BOOLEAN
      /\ step \in ChildSteps
  BY DEF Exec, host, TypeOK
<1>2. /\ ctable' \in [Numbers -> Files]
      /\ \A f \in Numbers : ctable'[f] = IF f \in 0..2 THEN ctable[f] ELSE "none"
      /\ 0..2 \subseteq Numbers
  BY <1>1, KeepLow, EnoughNumbers DEF Numbers
<1>3. ChildStreams' /\ ChildReady'
  BY <1>1, <1>2 DEF ChildReady, ChildStreams
<1> QED
  BY <1>1, <1>2, <1>3, ChildOnly

\* Signals and directory; a failure and its report; the end of the child.
LEMMA ChildStep == ASSUME LaunchInv, SetupStep \/ ChildDies PROVE LaunchInv'
<1>1. CASE DupStream(0, "dup0", "dup1")
  BY <1>1, DupStep DEF ChildSteps
<1>2. CASE DupStream(1, "dup1", "dup2")
  BY <1>2, DupStep DEF ChildSteps
<1>3. CASE DupStream(2, "dup2", "close")
  BY <1>3, DupStep DEF ChildSteps
<1>4. CASE Prologue \/ SetupFails
  <2>1. /\ child = "setup" /\ child' = "setup" /\ ctable' = ctable
        /\ step' \in {"dup0", "report"} /\ (step' = "dup0" => step = "prologue")
        /\ UNCHANGED <<limit, piped, limited, table, at, k, held, out, doomed>>
        /\ ctable \in [Numbers -> Files] /\ report' \in BOOLEAN
    BY <1>4 DEF Prologue, SetupFails, LaunchInv, TypeOK, host
  <2>2. ChildReady' /\ ChildStreams' /\ step' \in ChildSteps
    BY <2>1 DEF LaunchInv, ChildReady, ChildStreams, ChildSteps
  <2> QED
    BY <2>1, <2>2, ChildOnly
<1>5. CASE ExitAfterReport \/ ChildDies
  <2>1. /\ child \in {"setup", "running"} /\ child' = "zombie"
        /\ ctable' \in [Numbers -> Files] /\ step \in ChildSteps /\ report \in BOOLEAN
        /\ UNCHANGED <<limit, piped, limited, table, at, k, held, out, doomed, step, report>>
    BY <1>5 DEF ExitAfterReport, ChildDies, ChildExits, LaunchInv, TypeOK, host, Files
  <2>2. ChildReady' /\ ChildStreams'
    BY <2>1 DEF ChildReady, ChildStreams
  <2> QED
    BY <2>1, <2>2, ChildOnly
<1> QED
  BY <1>1, <1>2, <1>3, <1>4, <1>5, CloseRestStep, ExecStep DEF SetupStep

\* Another thread opens a file at a number that is free.
LEMMA HostOpensStep == ASSUME LaunchInv, HostOpens PROVE LaunchInv'
<1> USE DEF LaunchInv
<1>1. PICK f \in Numbers : table[f] = "none" /\ table' = [table EXCEPT ![f] = "file"]
  BY LowestFree DEF HostOpens
<1>2. /\ UNCHANGED <<limit, piped, limited, at, k, held, out, child, step, ctable, report, doomed>>
      /\ at \notin {"ok", "failed"} /\ table \in [Numbers -> Files]
      /\ "file" \in Files /\ "file" \in Hosts
  BY DEF HostOpens, host, forked, TypeOK, Files, Hosts
<1>3. table'[f] = "file" /\ \A g \in Numbers \ {f} : table'[g] = table[g]
  BY <1>1, <1>2
<1>4. TypeOK'
  BY <1>1, <1>2 DEF TypeOK
<1>5. HeldInTurn' /\ InTurn' /\ Moved'
  BY <1>2 DEF HeldInTurn, InTurn, Moved, Holding, Needed
<1>6. HeldExact'
  <2>1. \A s \in Slots : held[s] # NoFd => held[s] \in Numbers /\ held[s] # f
    BY <1>1, EndsApart DEF HeldExact, TypeOK
  <2>2. table'[f] \notin Ours
    BY <1>2, <1>3, EndsApart
  <2> QED
    BY <1>2, <1>3, <2>1, <2>2 DEF HeldExact
<1>7. HostPlaced'
  BY <1>2, <1>3 DEF HostPlaced
<1>8. ChildInTurn' /\ ChildReady' /\ ChildStreams' /\ NothingLeft'
  BY <1>2 DEF ChildInTurn, ChildReady, ChildStreams, NothingLeft
<1> QED
  BY <1>4, <1>5, <1>6, <1>7, <1>8

-----------------------------------------------------------------------------

\* No step of the launch, the child or the host breaks the invariant.
LEMMA StepLaunch == LaunchInv /\ [Next]_vars => LaunchInv'
<1> SUFFICES ASSUME LaunchInv, [Next]_vars PROVE LaunchInv'
  OBVIOUS
<1>1. CASE Launcher \/ GiveUp
  BY <1>1, LauncherStep
<1>2. CASE SetupStep \/ ChildDies
  BY <1>2, ChildStep
<1>3. CASE HostOpens
  BY <1>3, HostOpensStep
<1>4. CASE UNCHANGED vars
  BY <1>4 DEF vars, LaunchInv, TypeOK, HeldInTurn, InTurn, HeldExact, Moved, HostPlaced,
    ChildInTurn, ChildReady, NothingLeft, ChildStreams, Holding, Needed
<1> QED
  BY <1>1, <1>2, <1>3, <1>4 DEF Next

\* What the launch relies on between its steps holds for any interleaving of
\* the parent, the child and other threads, and any failure.
THEOREM LaunchInvariant == Spec => []LaunchInv
  BY InitLaunch, StepLaunch, PTL DEF Spec

\* A launch that fails leaves no pipe end and no child to reap; one that
\* succeeds leaves exactly the caller's three ends and a program that started.
THEOREM LaunchesLeaveNothing == Spec => []NothingLeft
  BY LaunchInvariant, PTL DEF LaunchInv

\* The program starts with its three streams in place and no other descriptor.
THEOREM StreamsInPlace == Spec => []ChildStreams
  BY LaunchInvariant, PTL DEF LaunchInv

\* The launch never closes or replaces a descriptor of the host.
THEOREM HostDescriptorsKept == Spec => HostKept
<1> DEFINE Kept == \A f \in Numbers : table[f] \in Hosts => table'[f] = table[f]
<1>1. ASSUME LaunchInv, Next PROVE Kept
  <2>1. /\ table \in [Numbers -> Files] /\ held \in [Slots -> Numbers \cup {NoFd}]
        /\ NoFd \notin Numbers /\ Slots = 1..8
        /\ \A s \in Slots : held[s] # NoFd => held[s] \in Numbers /\ table[held[s]] \notin Hosts
    <3>1. table \in [Numbers -> Files] /\ held \in [Slots -> Numbers \cup {NoFd}]
      BY <1>1 DEF LaunchInv, TypeOK
    <3>2. NoFd \notin Numbers /\ Slots = 1..8
      BY DEF Numbers, NoFd, Slots
    <3>3. \A s \in Slots : held[s] # NoFd => table[held[s]] \notin Hosts
      BY <1>1, EndsApart DEF LaunchInv, HeldExact
    <3> QED
      BY <3>1, <3>2, <3>3
  <2>2. "none" \notin Hosts
    BY DEF Hosts
  <2>3. CASE MakePipe
    BY <2>1, <2>2, <2>3, TwoLowestFree DEF MakePipe
  <2>4. CASE Move
    <3>1. k \in Slots /\ held[k] # NoFd
      BY <1>1, <2>1, <2>4 DEF Move, LaunchInv, InTurn, HeldInTurn, Holding, Needed
    <3>2. CASE NeedsMove(held[k])
      <4>1. PICK to \in Numbers : /\ table[to] = "none"
                                  /\ table' = [table EXCEPT ![to] = PipeEnds[k], ![held[k]] = "none"]
        BY <2>4, <3>2, LowestFree DEF Move, Relocate
      <4> QED
        BY <2>1, <2>2, <3>1, <4>1
    <3>3. CASE ~NeedsMove(held[k])
      BY <2>4, <3>3 DEF Move
    <3> QED
      BY <3>2, <3>3
  <2>5. CASE Listen
    <3>1. 8 \in Slots /\ held[8] # NoFd
      BY <1>1, <2>1, <2>5 DEF Listen, LaunchInv, InTurn, HeldInTurn, Holding, Needed
    <3> QED
      BY <2>1, <2>5, <3>1 DEF Listen, CloseWriteEnd
  <2>6. CASE StepFails \/ Reap
    <3>1. table' = Destroy(table, held)
      BY <2>6 DEF StepFails, Fail, Reap
    <3> QED
      BY <1>1, <2>1, <3>1, Destroyed
  <2>7. CASE Spawn \/ ReadEof
    <3> DEFINE left == [s \in Slots |-> IF s \in ParentEnds THEN NoFd ELSE held[s]]
    <3>1. table' = Destroy(table, left)
      BY <2>7 DEF Spawn, ReadEof, Succeed
    <3>2. left \in [Slots -> Numbers \cup {NoFd}] /\ \A s \in Slots : left[s] \in {held[s], NoFd}
      BY <2>1
    <3> HIDE DEF left
    <3> QED
      BY <1>1, <3>1, <3>2, Destroyed
  <2>8. CASE HostOpens
    BY <2>1, <2>2, <2>8, LowestFree DEF HostOpens
  <2>9. CASE SetFlags \/ Forks \/ Restore \/ GiveUp \/ SetupStep \/ ChildDies
    BY <2>9 DEF SetFlags, Forks, Restore, GiveUp, SetupStep, ChildDies, Prologue, DupStream,
      CloseRest, Exec, SetupFails, ExitAfterReport
  <2> QED
    BY <1>1, <2>3, <2>4, <2>5, <2>6, <2>7, <2>8, <2>9 DEF Next, Launcher
<1>2. LaunchInv /\ [Next]_vars => [Kept]_vars
  BY <1>1 DEF vars
<1> QED
  BY <1>2, LaunchInvariant, PTL DEF Spec, HostKept

=============================================================================
