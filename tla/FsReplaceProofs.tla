--------------------------- MODULE FsReplaceProofs ---------------------------
(***************************************************************************)
(* Proofs about FsReplace, for any number of callers, attempts, edits,     *)
(* ticks and ends of the process or of the machine.                        *)
(*                                                                         *)
(* FsInv is the inductive invariant. The path always names a whole file    *)
(* because what a rename puts there has been written and synced            *)
(* (TemporaryReady) and nobody touches it in between: names in the         *)
(* directory have inodes of their own (StagedApart), a caller's name is    *)
(* its own (OwnStaged), and so an original that is open is never written   *)
(* to by a call (OriginalKept).                                            *)
(***************************************************************************)
EXTENDS FsReplace, SequenceTheorems, TLAPS

\* A caller that has a staged file of its own, from O_EXCL to rename or unlink.
Staging == {"write", "attributes", "rematch", "restat", "rename", "discard"}

FileStatus == [inode : 1..Len(files), mode : Modes, stamp : 0..MaxTicks]

TypeOK ==
    /\ files \in Seq(Inode) /\ leaf \in 1..Len(files)
    /\ DOMAIN staged \subseteq Nat
    /\ now \in 0..MaxTicks /\ edits \in Nat /\ crashes \in Nat /\ sequence \in Nat
    /\ pc \in [Callers -> Steps] /\ result \in [Callers -> {"none", "ok", "changed", "error"}]
    /\ before \in [Callers -> FileStatus \cup {Unknown}] /\ tries \in [Callers -> Nat]
    /\ own \in [Callers -> Nat \cup {-1}] /\ lost \in [Callers -> Inode \cup {Unknown}]
    /\ late \in [Callers -> BOOLEAN]

\* Every staged name has an inode of its own, which is not the file's.
StagedApart ==
    \A n \in DOMAIN staged :
        /\ staged[n] \in 1..Len(files) /\ staged[n] # leaf
        /\ \A m \in DOMAIN staged : staged[m] = staged[n] => m = n

\* A caller's name is in the directory while it works on it, and nobody else
\* has it; before it has none, and afterwards it is gone.
OwnStaged ==
    \A c \in Callers :
        /\ own[c] < sequence
        /\ \A d \in Callers : c # d /\ own[c] >= 0 => own[d] # own[c]
        /\ pc[c] \in Staging => own[c] \in DOMAIN staged
        /\ pc[c] \in {"idle", "open", "stage"} => own[c] = -1

\* The file is whole and on the disk, and so is what a rename will put there.
TemporaryReady ==
    \A c \in Callers :
        /\ pc[c] \in {"attributes", "rematch", "restat", "rename"} =>
             files[Temporary(c)].content = c
        /\ pc[c] \in {"rematch", "restat", "rename"} => files[Temporary(c)].synced

LeafSynced == files[leaf].synced

\* The original that a caller has open is nobody's staged file.
OriginalKept ==
    \A c \in Callers : pc[c] \in {"stage"} \cup Staging =>
        before[c] \in FileStatus /\ \A n \in DOMAIN staged : staged[n] # before[c].inode

\* Between the second look at the bytes and the rename they are those expected,
\* unless somebody changed the file; before the rename the path still leads there.
StillExpected ==
    \A c \in Callers : ~late[c] =>
        /\ pc[c] \in {"restat", "rename"} => files[before[c].inode].content = "old"
        /\ pc[c] = "rename" =>
             leaf = before[c].inode /\ files[leaf].mode = before[c].mode

\* Only a call that is over has succeeded.
SucceededLast == \A c \in Callers : result[c] = "ok" => pc[c] = "done"

FsInv ==
    /\ TypeOK /\ StagedApart /\ OwnStaged /\ TemporaryReady /\ LeafSynced
    /\ OriginalKept /\ StillExpected /\ SucceededLast
    /\ NeverTorn /\ OnlyExpectedLost /\ NothingStaged

-----------------------------------------------------------------------------

\* There is one whole file and no staged one.
LEMMA InitFs == Init => FsInv
<1> SUFFICES ASSUME Init PROVE FsInv
  OBVIOUS
<1> DEFINE first == [content |-> "old", mode |-> "ordinary", stamp |-> 0, synced |-> TRUE]
<1>1. first \in Inode /\ MaxTicks \in Nat
  BY Bounds DEF Inode, Whole, Modes
<1>2. /\ files \in Seq(Inode) /\ Len(files) = 1 /\ files[1] = first
      /\ first.content = "old" /\ first.synced = TRUE
  BY <1>1 DEF Init
<1> HIDE DEF first
<1>3. DOMAIN staged = {}
  BY DEF Init
<1>4. TypeOK
  <2>1. /\ files \in Seq(Inode) /\ leaf \in 1..Len(files) /\ DOMAIN staged \subseteq Nat
        /\ now \in 0..MaxTicks /\ edits \in Nat /\ crashes \in Nat /\ sequence \in Nat
    BY <1>1, <1>2, <1>3 DEF Init
  <2>2. /\ pc \in [Callers -> Steps] /\ result \in [Callers -> {"none", "ok", "changed", "error"}]
        /\ before \in [Callers -> FileStatus \cup {Unknown}] /\ tries \in [Callers -> Nat]
    BY DEF Init, Steps
  <2>3. /\ own \in [Callers -> Nat \cup {-1}] /\ lost \in [Callers -> Inode \cup {Unknown}]
        /\ late \in [Callers -> BOOLEAN]
    BY DEF Init
  <2> QED
    BY <2>1, <2>2, <2>3 DEF TypeOK
<1>5. NeverTorn /\ LeafSynced
  BY <1>2 DEF Init, NeverTorn, LeafSynced, Whole
<1> QED
  BY <1>3, <1>4, <1>5 DEF Init, FsInv, StagedApart, OwnStaged, TemporaryReady, OriginalKept,
    StillExpected, SucceededLast, OnlyExpectedLost, NothingStaged, Staging

\* What the type invariant says of the files.
LEMMA FilesTyped ==
    ASSUME TypeOK
    PROVE  /\ Len(files) \in Nat /\ DOMAIN files = 1..Len(files)
           /\ \A i \in 1..Len(files) : files[i] \in Inode
           /\ leaf \in 1..Len(files)
  BY ElementOfSeq, LenProperties DEF TypeOK

\* Steps of a call that only look at the disk.
LEMMA LookStep ==
    ASSUME FsInv, NEW c \in Callers, Call(c) \/ Open(c) \/ Rematch(c) \/ Restat(c) \/ Fails(c)
    PROVE  FsInv'
<1> USE DEF FsInv
<1>1. /\ UNCHANGED <<files, leaf, staged, now, edits, crashes, sequence, tries, own, lost, late>>
      /\ \A d \in Callers : d # c =>
           pc'[d] = pc[d] /\ result'[d] = result[d] /\ before'[d] = before[d]
      /\ pc'[c] \in Steps /\ result'[c] # "ok" /\ pc \in [Callers -> Steps]
      /\ pc'[c] \in Staging => pc[c] \in Staging
      /\ pc'[c] \in {"idle", "open", "stage"} => pc[c] \in {"idle", "open", "stage"}
      /\ pc'[c] \in {"attributes", "rematch"} => FALSE
      /\ pc'[c] = "done" => own[c] = -1
  <2> USE DEF TypeOK, OwnStaged, Staging, Steps, SucceededLast, Goto, Return, Abandon,
        disk, world
  <2>1. CASE Call(c)
    BY <2>1 DEF Call
  <2>2. CASE Open(c)
    BY <2>2 DEF Open
  <2>3. CASE Rematch(c)
    BY <2>3 DEF Rematch
  <2>4. CASE Restat(c)
    BY <2>4 DEF Restat
  <2>5. CASE Fails(c)
    BY <2>5 DEF Fails
  <2> QED
    BY <2>1, <2>2, <2>3, <2>4, <2>5
<1>2. TypeOK'
  <2> USE DEF TypeOK, Goto, Return, Abandon
  <2>1. CASE Open(c)
    <3>1. Status(leaf) \in FileStatus
      BY FilesTyped DEF Status, FileStatus, Inode
    <3> QED
      BY <1>1, <2>1, <3>1 DEF Open, FileStatus
  <2>2. before' = before => TypeOK'
    <3>1. result' \in [Callers -> {"none", "ok", "changed", "error"}]
      BY DEF Call, Open, Rematch, Restat, Fails
    <3>2. pc' \in [Callers -> Steps]
      BY ZenonT(60) DEF Call, Open, Rematch, Restat, Fails, Steps
    <3> QED
      BY <1>1, <3>1, <3>2 DEF FileStatus
  <2>3. before' = before \/ Open(c)
    BY DEF Call, Rematch, Restat, Fails
  <2> QED
    BY <2>1, <2>2, <2>3
<1>3. StagedApart' /\ LeafSynced' /\ NeverTorn'
  BY <1>1 DEF StagedApart, LeafSynced, NeverTorn
<1>4. /\ OwnStaged'
      /\ SucceededLast'
      /\ NothingStaged'
  <2>1. OwnStaged'
    BY <1>1 DEF OwnStaged
  <2>2. SucceededLast'
    BY <1>1 DEF SucceededLast
  <2>3. NothingStaged'
    BY <1>1 DEF NothingStaged, TypeOK
  <2> QED
    BY <2>1, <2>2, <2>3
<1>5. TemporaryReady'
  BY <1>1 DEF TypeOK, TemporaryReady, Temporary, Call, Open, Rematch, Restat, Fails, Goto,
    Return, Abandon
<1>6. OriginalKept'
  <2>1. ASSUME Open(c)
        PROVE  before'[c] \in FileStatus /\ \A n \in DOMAIN staged : staged[n] # before'[c].inode
    <3>1. before'[c] = Status(leaf)
      BY <2>1 DEF Open, TypeOK
    <3>2. Status(leaf) \in FileStatus /\ Status(leaf).inode = leaf
      BY FilesTyped DEF Status, FileStatus, Inode
    <3> QED
      BY <3>1, <3>2 DEF StagedApart
  <2>2. ASSUME ~Open(c)
        PROVE  before' = before /\ (pc'[c] \in {"stage"} \cup Staging => pc[c] \in Staging)
    BY <1>1, <2>2 DEF Call, Rematch, Restat, Fails, Abandon, Goto, TypeOK, Staging, OwnStaged
  <2> QED
    BY <1>1, <2>1, <2>2 DEF OriginalKept, FileStatus
<1>7. StillExpected'
  <2>1. ASSUME NEW d \in Callers, d # c, ~late[d]
        PROVE  /\ pc[d] \in {"restat", "rename"} => files[before[d].inode].content = "old"
               /\ pc[d] = "rename" =>
                    leaf = before[d].inode /\ files[leaf].mode = before[d].mode
    BY <2>1 DEF StillExpected
  <2>2. ASSUME pc'[c] = "restat" PROVE files[before'[c].inode].content = "old"
    BY <2>2 DEF Call, Open, Rematch, Restat, Fails, Goto, Return, Abandon, Matches, TypeOK
  <2>3. ASSUME pc'[c] = "rename"
        PROVE  /\ pc[c] = "restat" /\ before' = before
               /\ leaf = before[c].inode /\ files[leaf].mode = before[c].mode
    <3>1. Restat(c)
      BY <2>3 DEF Call, Open, Rematch, Fails, Goto, Return, Abandon, TypeOK
    <3> QED
      BY <2>3, <3>1 DEF Restat, Same, Status, Goto, Abandon, TypeOK
  <2>4. ASSUME ~late[c], pc'[c] = "rename" PROVE files[before'[c].inode].content = "old"
    BY <2>3, <2>4 DEF StillExpected
  <2> QED
    BY <1>1, <2>1, <2>2, <2>3, <2>4 DEF StillExpected
<1>8. OnlyExpectedLost'
  BY <1>1 DEF OnlyExpectedLost
<1> QED
  BY <1>2, <1>3, <1>4, <1>5, <1>6, <1>7, <1>8

\* A name is made up: it is taken, or a new inode is staged under it.
LEMMA StageStep == ASSUME FsInv, NEW c \in Callers, Stage(c) PROVE FsInv'
<1> USE DEF FsInv
<1> DEFINE new == [content |-> "empty", mode |-> "private", stamp |-> now, synced |-> FALSE]
<1>1. /\ UNCHANGED <<leaf, now, edits, crashes, before, lost, late>>
      /\ sequence' = sequence + 1 /\ pc[c] = "stage" /\ own[c] = -1
      /\ tries' = [tries EXCEPT ![c] = tries[c] + 1]
      /\ pc \in [Callers -> Steps] /\ own \in [Callers -> Nat \cup {-1}]
      /\ sequence \in Nat /\ DOMAIN staged \subseteq Nat
  BY DEF Stage, world, TypeOK, OwnStaged
<1>2. CASE Exclusive(sequence)
  <2>1. /\ files' = Append(files, new)
        /\ staged' = [n \in DOMAIN staged \cup {sequence} |->
                        IF n = sequence THEN Len(files) + 1 ELSE staged[n]]
        /\ own' = [own EXCEPT ![c] = sequence] /\ pc' = [pc EXCEPT ![c] = "write"]
        /\ result' = result
    BY <1>2 DEF Stage, Goto
  <2>2. new \in Inode
    BY DEF TypeOK, Inode, Modes
  <2> HIDE DEF new
  <2>3. /\ files' \in Seq(Inode) /\ Len(files') = Len(files) + 1 /\ Len(files) \in Nat
        /\ \A i \in 1..Len(files) : files'[i] = files[i]
    BY <2>1, <2>2, AppendProperties, FilesTyped DEF TypeOK
  <2>4. 1..Len(files) \subseteq 1..Len(files') /\ Len(files) + 1 \in 1..Len(files')
    BY <2>3
  <2>5. /\ DOMAIN staged' = DOMAIN staged \cup {sequence} /\ staged'[sequence] = Len(files) + 1
        /\ \A n \in DOMAIN staged : staged'[n] = staged[n] /\ n # sequence
    BY <2>1, <1>2 DEF Exclusive
  <2>6. TypeOK'
    <3>1. pc' \in [Callers -> Steps] /\ own' \in [Callers -> Nat \cup {-1}]
          /\ tries' \in [Callers -> Nat] /\ sequence' \in Nat /\ DOMAIN staged' \subseteq Nat
      BY <1>1, <2>1, <2>5 DEF Steps, TypeOK
    <3>2. before' \in [Callers -> FileStatus' \cup {Unknown}]
      <4>1. FileStatus \subseteq FileStatus'
        BY <2>4 DEF FileStatus
      <4> QED
        BY <1>1, <4>1 DEF TypeOK
    <3> QED
      BY <1>1, <2>1, <2>3, <2>4, <3>1, <3>2 DEF TypeOK
  <2>7. StagedApart'
    BY <2>3, <2>4, <2>5, <1>1 DEF StagedApart, TypeOK
  <2>8. OwnStaged'
    BY <1>1, <2>1, <2>5 DEF OwnStaged, Staging
  <2>9. TemporaryReady'
    BY <1>1, <2>1, <2>3, <2>5 DEF TemporaryReady, Temporary, OwnStaged, Staging, StagedApart
  <2>10. LeafSynced' /\ NeverTorn'
    BY <1>1, <2>3, FilesTyped DEF LeafSynced, NeverTorn
  <2>11. OriginalKept'
    BY <1>1, <2>1, <2>3, <2>4, <2>5 DEF OriginalKept, FileStatus, Staging
  <2>12. StillExpected'
    BY <1>1, <2>1, <2>3, FilesTyped DEF StillExpected, OriginalKept, FileStatus, Staging
  <2>13. SucceededLast' /\ OnlyExpectedLost'
    BY <1>1, <2>1 DEF SucceededLast, OnlyExpectedLost
  <2>14. NothingStaged'
    BY <1>1, <2>1, <2>5 DEF NothingStaged, OwnStaged
  <2> QED
    BY <2>6, <2>7, <2>8, <2>9, <2>10, <2>11, <2>12, <2>13, <2>14
<1>3. CASE ~Exclusive(sequence)
  <2>1. /\ UNCHANGED <<files, staged, own>>
        /\ \A d \in Callers : d # c => pc'[d] = pc[d] /\ result'[d] = result[d]
        /\ pc' \in [Callers -> Steps]
        /\ result' \in [Callers -> {"none", "ok", "changed", "error"}]
        /\ pc'[c] \in {"stage", "done"} /\ result'[c] # "ok"
    BY <1>1, <1>3, ZenonT(60) DEF Stage, Return, Goto, TypeOK, Steps, SucceededLast
  <2>2. TypeOK'
    <3>1. FileStatus' = FileStatus
      BY <2>1 DEF FileStatus
    <3>2. tries' \in [Callers -> Nat] /\ sequence' \in Nat
      BY <1>1 DEF TypeOK
    <3> QED
      BY <1>1, <2>1, <3>1, <3>2 DEF TypeOK
  <2>3. StagedApart' /\ LeafSynced' /\ NeverTorn' /\ TemporaryReady'
    BY <1>1, <2>1 DEF StagedApart, LeafSynced, NeverTorn, TemporaryReady, Temporary
  <2>4. OwnStaged'
    BY <1>1, <2>1 DEF OwnStaged, Staging
  <2>5. OriginalKept' /\ StillExpected'
    BY <1>1, <2>1 DEF OriginalKept, StillExpected, FileStatus, Staging
  <2>6. SucceededLast' /\ OnlyExpectedLost'
    BY <1>1, <2>1 DEF SucceededLast, OnlyExpectedLost
  <2>7. NothingStaged'
    BY <1>1, <2>1 DEF NothingStaged
  <2> QED
    BY <2>2, <2>3, <2>4, <2>5, <2>6, <2>7
<1> QED
  BY <1>2, <1>3

\* Two callers have files of their own.
LEMMA TemporariesApart ==
    ASSUME FsInv, NEW c \in Callers, pc[c] \in Staging
    PROVE  /\ own[c] \in DOMAIN staged /\ Temporary(c) \in 1..Len(files) /\ Temporary(c) # leaf
           /\ \A d \in Callers : d # c /\ pc[d] \in Staging => Temporary(d) # Temporary(c)
           /\ \A d \in Callers : pc[d] \in {"stage"} \cup Staging =>
                before[d].inode # Temporary(c) /\ before[d].inode \in 1..Len(files)
<1>1. own[c] \in DOMAIN staged /\ own[c] \in Nat /\ Temporary(c) = staged[own[c]]
  BY DEF FsInv, OwnStaged, TypeOK, Temporary
<1>2. \A d \in Callers : d # c /\ pc[d] \in Staging => own[d] \in DOMAIN staged /\ own[d] # own[c]
  BY <1>1 DEF FsInv, OwnStaged
<1> QED
  BY <1>1, <1>2 DEF FsInv, StagedApart, Temporary, OriginalKept, FileStatus

\* A step that changes only the file that a caller has staged.
LEMMA OwnFileStep ==
    ASSUME FsInv, NEW c \in Callers, Write(c) \/ Attributes(c)
    PROVE  FsInv'
<1> DEFINE t == Temporary(c)
<1>1. /\ UNCHANGED <<leaf, staged, now, edits, crashes, sequence, result, before, tries, own,
                     lost, late>>
      /\ pc[c] \in {"write", "attributes"} /\ pc'[c] \in {"write", "attributes", "rematch"}
      /\ pc' \in [Callers -> Steps] /\ \A d \in Callers : d # c => pc'[d] = pc[d]
  BY DEF FsInv, TypeOK, Write, Attributes, Goto, Steps, world
<1>2. /\ t \in 1..Len(files) /\ t # leaf
      /\ \A d \in Callers : d # c /\ pc[d] \in Staging => Temporary(d) # t
      /\ \A d \in Callers : pc[d] \in {"stage"} \cup Staging =>
           before[d].inode # t /\ before[d].inode \in 1..Len(files)
  BY <1>1, TemporariesApart DEF Staging
<1>3. PICK f \in Inode :
        /\ files' = [files EXCEPT ![t] = f]
        /\ pc'[c] \in {"attributes", "rematch"} => f.content = c
        /\ pc'[c] = "rematch" => f.synced = TRUE
  <2>1. files[t] \in Inode
    BY <1>2, FilesTyped DEF FsInv
  <2>2. CASE Write(c)
    <3>1. PICK content \in {"part", c} :
            /\ files' = [files EXCEPT ![t].content = content, ![t].stamp = now]
            /\ pc'[c] = "attributes" => content = c
            /\ pc'[c] # "rematch"
      BY <2>2 DEF Write, Progressed, Goto, FsInv, TypeOK
    <3> DEFINE f == [files[t] EXCEPT !.content = content, !.stamp = now]
    <3>2. f \in Inode /\ f.content = content
      BY <2>1 DEF Inode, Whole, FsInv, TypeOK
    <3>3. files' = [files EXCEPT ![t] = f]
      BY <3>1
    <3> QED
      BY <3>1, <3>2, <3>3, <1>1
  <2>3. CASE Attributes(c)
    <3> DEFINE f == Finished(c, files[t])
    <3>1. before[c].mode \in Modes
      BY <1>1 DEF FsInv, OriginalKept, Staging, FileStatus
    <3>2. f \in Inode /\ f.content = files[t].content /\ f.synced = TRUE
      BY <2>1, <3>1 DEF Inode, Finished
    <3>3. files[t].content = c
      BY <2>3 DEF Attributes, FsInv, TemporaryReady
    <3>4. files' = [files EXCEPT ![t] = f]
      BY <2>3 DEF Attributes, Finished
    <3> QED
      BY <3>2, <3>3, <3>4
  <2> QED
    BY <2>2, <2>3
<1> HIDE DEF t
<1> USE DEF FsInv
<1>4. /\ files' \in Seq(Inode) /\ Len(files') = Len(files) /\ files'[t] = f
      /\ \A i \in 1..Len(files) : i # t => files'[i] = files[i]
  BY <1>2, <1>3, ExceptSeq DEF TypeOK
<1>5. \A d \in Callers : Temporary(d)' = Temporary(d)
  BY <1>1 DEF Temporary
<1>6. TypeOK'
  <2>1. FileStatus' = FileStatus
    BY <1>4 DEF FileStatus
  <2> QED
    BY <1>1, <1>4, <2>1 DEF TypeOK
<1>7. StagedApart' /\ OwnStaged' /\ NothingStaged'
  <2>1. StagedApart'
    BY <1>1, <1>4 DEF StagedApart
  <2>2. OwnStaged'
    BY <1>1 DEF OwnStaged, Staging
  <2>3. NothingStaged'
    BY <1>1 DEF NothingStaged
  <2> QED
    BY <2>1, <2>2, <2>3
<1>8. TemporaryReady'
  <2>1. files'[Temporary(c)].content = c \/ pc'[c] \notin {"attributes", "rematch"}
    BY <1>3, <1>4 DEF t
  <2>2. files'[Temporary(c)].synced \/ pc'[c] # "rematch"
    BY <1>3, <1>4 DEF t
  <2>3. \A d \in Callers : d # c /\ pc[d] \in Staging =>
          Temporary(d) \in 1..Len(files) /\ files'[Temporary(d)] = files[Temporary(d)]
    BY <1>2, <1>4, TemporariesApart
  <2> QED
    BY <1>1, <1>5, <2>1, <2>2, <2>3 DEF TemporaryReady, Staging
<1>9. LeafSynced' /\ NeverTorn'
  BY <1>1, <1>2, <1>4 DEF LeafSynced, NeverTorn, TypeOK
<1>10. OriginalKept'
  BY <1>1, <1>4 DEF OriginalKept, FileStatus, Staging
<1>11. StillExpected'
  <2>1. \A d \in Callers : pc[d] \in {"restat", "rename"} =>
          d # c /\ files'[before[d].inode] = files[before[d].inode]
    BY <1>1, <1>2, <1>4 DEF Staging
  <2>2. files'[leaf] = files[leaf]
    BY <1>2, <1>4 DEF TypeOK
  <2>3. \A d \in Callers : pc'[d] \in {"restat", "rename"} => pc'[d] = pc[d]
    BY <1>1
  <2> QED
    BY <1>1, <2>1, <2>2, <2>3 DEF StillExpected
<1>12. SucceededLast' /\ OnlyExpectedLost'
  BY <1>1 DEF SucceededLast, OnlyExpectedLost
<1> QED
  BY <1>6, <1>7, <1>8, <1>9, <1>10, <1>11, <1>12

\* What others are told when somebody changes the file.
LEMMA ToldOfChange ==
    ASSUME NEW but, Changed(but), late \in [Callers -> BOOLEAN]
    PROVE  /\ late' \in [Callers -> BOOLEAN]
           /\ \A d \in Callers : late[d] => late'[d]
           /\ \A d \in Callers : d # but /\ pc[d] \in {"restat", "rename"} => late'[d]
  BY DEF Changed

\* The staged file takes the file's place.
LEMMA RenameStep == ASSUME FsInv, NEW c \in Callers, Rename(c) PROVE FsInv'
<1> USE DEF FsInv
<1> DEFINE t == Temporary(c)
<1>1. /\ UNCHANGED <<files, now, edits, crashes, sequence, before, tries, own>>
      /\ pc[c] = "rename" /\ leaf' = t
      /\ pc' = [pc EXCEPT ![c] = "done"] /\ result' = [result EXCEPT ![c] = "ok"]
      /\ lost' = [lost EXCEPT ![c] = files[leaf]]
      /\ staged' = [n \in DOMAIN staged \ {own[c]} |-> staged[n]]
  BY DEF Rename, Return, Goto, Unstaged, world
<1>2. /\ own[c] \in DOMAIN staged /\ t = staged[own[c]] /\ t \in 1..Len(files) /\ t # leaf
      /\ \A d \in Callers : pc[d] \in {"stage"} \cup Staging => before[d].inode # t
  BY <1>1, TemporariesApart DEF Staging, Temporary
<1>3. /\ late' \in [Callers -> BOOLEAN]
      /\ \A d \in Callers : late[d] => late'[d]
      /\ \A d \in Callers : d # c /\ pc[d] \in {"restat", "rename"} => late'[d]
  BY ToldOfChange DEF TypeOK, Rename
<1>4. /\ DOMAIN staged' = DOMAIN staged \ {own[c]}
      /\ \A n \in DOMAIN staged' : staged'[n] = staged[n]
  BY <1>1
<1>5. /\ pc'[c] = "done" /\ result'[c] = "ok" /\ lost'[c] = files[leaf]
      /\ \A d \in Callers : d # c =>
           pc'[d] = pc[d] /\ result'[d] = result[d] /\ lost'[d] = lost[d]
  BY <1>1 DEF TypeOK
<1>6. files[t].content = c /\ files[t].synced
  BY <1>1 DEF TemporaryReady
<1> HIDE DEF t
<1>7. TypeOK'
  <2>1. files[leaf] \in Inode
    BY FilesTyped
  <2>2. FileStatus' = FileStatus
    BY <1>1 DEF FileStatus
  <2> QED
    BY <1>1, <1>2, <1>3, <1>4, <2>1, <2>2 DEF TypeOK, Steps
<1>8. StagedApart'
  BY <1>1, <1>2, <1>4 DEF StagedApart
<1>9. OwnStaged'
  BY <1>1, <1>4, <1>5 DEF OwnStaged, Staging, TypeOK
<1>10. TemporaryReady'
  <2>1. \A d \in Callers : d # c /\ pc[d] \in Staging => Temporary(d)' = Temporary(d)
    BY <1>1, <1>2, <1>4 DEF Temporary, OwnStaged, TypeOK
  <2> QED
    BY <1>1, <1>5, <2>1 DEF TemporaryReady, Staging
<1>11. LeafSynced' /\ NeverTorn'
  BY <1>1, <1>6 DEF LeafSynced, NeverTorn, Whole
<1>12. OriginalKept'
  BY <1>1, <1>4, <1>5 DEF OriginalKept, FileStatus, Staging
<1>13. StillExpected'
  BY <1>3, <1>5 DEF StillExpected
<1>14. SucceededLast'
  BY <1>5 DEF SucceededLast
<1>15. OnlyExpectedLost'
  <2>1. ~late[c] => files[leaf].content = "old" /\ files[leaf].mode = before[c].mode
    BY <1>1 DEF StillExpected
  <2> QED
    BY <1>1, <1>3, <1>5, <2>1 DEF OnlyExpectedLost
<1>16. NothingStaged'
  BY <1>1, <1>4, <1>5 DEF NothingStaged
<1> QED
  BY <1>7, <1>8, <1>9, <1>10, <1>11, <1>12, <1>13, <1>14, <1>15, <1>16

\* The staged file is removed.
LEMMA DiscardStep == ASSUME FsInv, NEW c \in Callers, Discard(c) PROVE FsInv'
<1> USE DEF FsInv
<1>1. /\ UNCHANGED <<files, leaf, now, edits, crashes, sequence, result, before, tries, own,
                     lost, late>>
      /\ pc[c] = "discard" /\ pc' = [pc EXCEPT ![c] = "done"]
      /\ staged' = [n \in DOMAIN staged \ {own[c]} |-> staged[n]]
  BY DEF Discard, Goto, Unstaged, world
<1>2. own[c] \in DOMAIN staged
  BY <1>1 DEF OwnStaged, Staging
<1>3. /\ DOMAIN staged' = DOMAIN staged \ {own[c]}
      /\ \A n \in DOMAIN staged' : staged'[n] = staged[n]
  BY <1>1
<1>4. pc'[c] = "done" /\ \A d \in Callers : d # c => pc'[d] = pc[d]
  BY <1>1 DEF TypeOK
<1>5. TypeOK'
  <2>1. FileStatus' = FileStatus
    BY <1>1 DEF FileStatus
  <2> QED
    BY <1>1, <1>3, <2>1 DEF TypeOK, Steps
<1>6. StagedApart' /\ LeafSynced' /\ NeverTorn'
  BY <1>1, <1>3 DEF StagedApart, LeafSynced, NeverTorn
<1>7. OwnStaged'
  BY <1>1, <1>2, <1>3, <1>4 DEF OwnStaged, Staging, TypeOK
<1>8. TemporaryReady'
  <2>1. \A d \in Callers : d # c /\ pc[d] \in Staging => Temporary(d)' = Temporary(d)
    BY <1>1, <1>2, <1>3 DEF Temporary, OwnStaged, TypeOK
  <2> QED
    BY <1>1, <1>4, <2>1 DEF TemporaryReady, Staging
<1>9. OriginalKept' /\ StillExpected'
  BY <1>1, <1>3, <1>4 DEF OriginalKept, StillExpected, FileStatus, Staging
<1>10. SucceededLast' /\ OnlyExpectedLost'
  BY <1>1, <1>4 DEF SucceededLast, OnlyExpectedLost
<1>11. NothingStaged'
  BY <1>1, <1>3, <1>4 DEF NothingStaged
<1> QED
  BY <1>5, <1>6, <1>7, <1>8, <1>9, <1>10, <1>11

\* Somebody else changes the file or puts another in its place.
LEMMA EditStep == ASSUME FsInv, Edit PROVE FsInv'
<1> USE DEF FsInv
<1>1. /\ UNCHANGED <<staged, crashes, sequence, pc, result, before, tries, own, lost>>
      /\ edits' \in Nat /\ now' \in 0..MaxTicks
  BY Bounds DEF Edit, TypeOK
<1>2. /\ late' \in [Callers -> BOOLEAN]
      /\ \A d \in Callers : late[d] => late'[d]
      /\ \A d \in Callers : pc[d] \in {"restat", "rename"} => late'[d]
  BY ToldOfChange, EditorApart DEF TypeOK, Edit
<1>3. files[leaf] \in Inode /\ leaf \in 1..Len(files) /\ Len(files) \in Nat
  BY FilesTyped
<1>4. PICK f \in Inode :
        /\ f.synced /\ f.content \in Whole
        /\ \/ files' = [files EXCEPT ![leaf] = f] /\ leaf' = leaf
           \/ files' = Append(files, f) /\ leaf' = Len(files) + 1
  <2>1. files[leaf].synced /\ files[leaf].content \in Whole
    BY DEF LeafSynced, NeverTorn
  <2>2. CASE \E content \in {"old", "edited"} :
               files' = [files EXCEPT ![leaf].content = content, ![leaf].stamp = now']
             /\ UNCHANGED leaf
    <3>1. PICK content \in {"old", "edited"} :
               files' = [files EXCEPT ![leaf].content = content, ![leaf].stamp = now']
             /\ UNCHANGED leaf
      BY <2>2
    <3> DEFINE f == [files[leaf] EXCEPT !.content = content, !.stamp = now']
    <3>2. f \in Inode /\ f.content \in Whole /\ f.synced
      BY <1>1, <1>3, <2>1 DEF Inode, Whole
    <3>3. files' = [files EXCEPT ![leaf] = f] /\ leaf' = leaf
      BY <3>1
    <3> QED
      BY <3>2, <3>3
  <2>3. CASE files' = [files EXCEPT ![leaf].mode = "changed", ![leaf].stamp = now']
             /\ UNCHANGED leaf
    <3> DEFINE f == [files[leaf] EXCEPT !.mode = "changed", !.stamp = now']
    <3>2. f \in Inode /\ f.content \in Whole /\ f.synced
      BY <1>1, <1>3, <2>1 DEF Inode, Modes
    <3>3. files' = [files EXCEPT ![leaf] = f] /\ leaf' = leaf
      BY <2>3
    <3> QED
      BY <3>2, <3>3
  <2>4. CASE /\ files' = Append(files, [files[leaf] EXCEPT !.content = "edited", !.stamp = now'])
             /\ leaf' = Len(files) + 1
    <3> DEFINE f == [files[leaf] EXCEPT !.content = "edited", !.stamp = now']
    <3>2. f \in Inode /\ f.content \in Whole /\ f.synced
      BY <1>1, <1>3, <2>1 DEF Inode, Whole
    <3> QED
      BY <2>4, <3>2
  <2> QED
    BY <2>2, <2>3, <2>4 DEF Edit
<1>5. /\ files' \in Seq(Inode) /\ Len(files) <= Len(files') /\ Len(files') \in Nat
      /\ leaf' \in 1..Len(files') /\ files'[leaf'] = f
      /\ \A n \in DOMAIN staged : staged[n] # leaf' /\ files'[staged[n]] = files[staged[n]]
  <2>1. \A n \in DOMAIN staged : staged[n] \in 1..Len(files) /\ staged[n] # leaf
    BY DEF StagedApart
  <2>2. CASE files' = [files EXCEPT ![leaf] = f] /\ leaf' = leaf
    BY <1>3, <2>1, <2>2, ExceptSeq DEF TypeOK
  <2>3. CASE files' = Append(files, f) /\ leaf' = Len(files) + 1
    BY <1>3, <2>1, <2>3, AppendProperties DEF TypeOK
  <2> QED
    BY <1>4, <2>2, <2>3
<1>6. FileStatus \subseteq FileStatus'
  BY <1>5 DEF FileStatus, TypeOK
<1>7. TypeOK'
  <2>1. before' \in [Callers -> FileStatus' \cup {Unknown}]
    BY <1>1, <1>6 DEF TypeOK
  <2> QED
    BY <1>1, <1>2, <1>5, <2>1 DEF TypeOK
<1>8. StagedApart'
  BY <1>1, <1>5, <1>3 DEF StagedApart
<1>9. OwnStaged' /\ NothingStaged' /\ SucceededLast' /\ OnlyExpectedLost'
  BY <1>1, <1>2 DEF OwnStaged, NothingStaged, SucceededLast, OnlyExpectedLost
<1>10. TemporaryReady'
  <2>1. \A d \in Callers : pc[d] \in Staging => Temporary(d)' = Temporary(d)
          /\ files'[Temporary(d)] = files[Temporary(d)]
    BY <1>1, <1>5, TemporariesApart DEF Temporary
  <2> QED
    BY <1>1, <2>1 DEF TemporaryReady, Staging
<1>11. LeafSynced' /\ NeverTorn'
  BY <1>4, <1>5 DEF LeafSynced, NeverTorn
<1>12. OriginalKept'
  BY <1>1, <1>6 DEF OriginalKept
<1>13. StillExpected'
  BY <1>1, <1>2 DEF StillExpected
<1> QED
  BY <1>7, <1>8, <1>9, <1>10, <1>11, <1>12, <1>13

\* The process ends, or the machine stops and loses what was not synced.
LEMMA RestartStep == ASSUME FsInv, Crash \/ PowerLoss PROVE FsInv'
<1> USE DEF FsInv
<1>1. /\ Fresh /\ UNCHANGED <<leaf, staged, now, edits>> /\ crashes' \in Nat
  BY DEF Crash, PowerLoss, TypeOK, disk
<1>2. /\ files' \in Seq(Inode) /\ Len(files') = Len(files) /\ files'[leaf] = files[leaf]
  <2>1. CASE Crash
    BY <2>1 DEF Crash, disk, TypeOK
  <2>2. CASE PowerLoss
    <3> DEFINE Lose(i) == IF files[i].synced THEN files[i]
                          ELSE [files[i] EXCEPT !.content = "torn"]
    <3>1. files' = [i \in 1..Len(files) |-> Lose(i)] /\ Len(files) \in Nat
      BY <2>2, FilesTyped DEF PowerLoss
    <3>2. \A i \in 1..Len(files) : Lose(i) \in Inode
      BY FilesTyped DEF Inode
    <3>3. Lose(leaf) = files[leaf]
      BY DEF LeafSynced
    <3> HIDE DEF Lose
    <3> QED
      BY <3>1, <3>2, <3>3 DEF TypeOK
  <2> QED
    BY <2>1, <2>2
<1>3. TypeOK'
  <2>1. /\ pc' \in [Callers -> Steps] /\ result' \in [Callers -> {"none", "ok", "changed", "error"}]
        /\ before' \in [Callers -> FileStatus' \cup {Unknown}] /\ tries' \in [Callers -> Nat]
    BY <1>1 DEF Fresh, Steps
  <2>2. /\ own' \in [Callers -> Nat \cup {-1}] /\ lost' \in [Callers -> Inode \cup {Unknown}]
        /\ late' \in [Callers -> BOOLEAN] /\ sequence' \in Nat
    BY <1>1 DEF Fresh
  <2> QED
    BY <1>1, <1>2, <2>1, <2>2 DEF TypeOK
<1>4. StagedApart' /\ LeafSynced' /\ NeverTorn'
  BY <1>1, <1>2 DEF StagedApart, LeafSynced, NeverTorn
<1>5. /\ OwnStaged' /\ TemporaryReady' /\ OriginalKept' /\ StillExpected' /\ SucceededLast'
      /\ OnlyExpectedLost' /\ NothingStaged'
  <2>1. \A c \in Callers : pc'[c] = "idle" /\ result'[c] = "none" /\ own'[c] = -1 /\ sequence' = 0
    BY <1>1 DEF Fresh
  <2> QED
    BY <2>1 DEF OwnStaged, TemporaryReady, OriginalKept, StillExpected, SucceededLast,
      OnlyExpectedLost, NothingStaged, Staging
<1> QED
  BY <1>3, <1>4, <1>5

-----------------------------------------------------------------------------

\* No step of anybody breaks the invariant.
LEMMA StepFs == FsInv /\ [Next]_vars => FsInv'
<1> SUFFICES ASSUME FsInv, [Next]_vars PROVE FsInv'
  OBVIOUS
<1>1. ASSUME NEW c \in Callers, Call(c) \/ Step(c) \/ Fails(c) PROVE FsInv'
  BY <1>1, LookStep, StageStep, OwnFileStep, RenameStep, DiscardStep, Zenon DEF Step
<1>2. CASE Edit
  BY <1>2, EditStep
<1>3. CASE Crash \/ PowerLoss
  BY <1>3, RestartStep
<1>4. CASE UNCHANGED vars
  BY <1>4 DEF vars, disk, calls, world, FsInv, TypeOK, StagedApart, OwnStaged, TemporaryReady,
    LeafSynced, OriginalKept, StillExpected, SucceededLast, NeverTorn, OnlyExpectedLost,
    NothingStaged, Temporary, FileStatus
<1> QED
  BY <1>1, <1>2, <1>3, <1>4 DEF Next

\* What a call relies on between its steps holds for any interleaving of calls,
\* edits and ends of the process or of the machine.
THEOREM FsInvariant == Spec => []FsInv
  BY InitFs, StepFs, PTL DEF Spec

\* Whenever the path is looked at, also after the process or the machine went
\* down, it names a whole file.
THEOREM PathIsNeverTorn == Spec => []NeverTorn
  BY FsInvariant, PTL DEF FsInv

\* A successful call overwrote what it was told to expect, and nothing else,
\* unless the file was changed after its last look at the bytes.
THEOREM OnlyTheExpectedIsLost == Spec => []OnlyExpectedLost
  BY FsInvariant, PTL DEF FsInv

\* A call that returned left no staged file of its own behind.
THEOREM NothingStaysStaged == Spec => []NothingStaged
  BY FsInvariant, PTL DEF FsInv

\* No step touches a file that a dead process or another thread has staged.
THEOREM OtherStagedFilesKept == Spec => OthersKept
<1> DEFINE Kept ==
      \A n \in DOMAIN staged :
         (\A c \in Callers : own[c] # n) /\ crashes' = crashes =>
            /\ n \in DOMAIN staged' /\ staged'[n] = staged[n]
            /\ files'[staged[n]] = files[staged[n]]
<1>1. ASSUME FsInv, Next PROVE Kept
  <2> SUFFICES ASSUME NEW n \in DOMAIN staged, \A c \in Callers : own[c] # n,
                      crashes' = crashes
               PROVE  /\ n \in DOMAIN staged' /\ staged'[n] = staged[n]
                      /\ files'[staged[n]] = files[staged[n]]
    OBVIOUS
  <2>1. /\ staged[n] \in 1..Len(files) /\ staged[n] # leaf
        /\ \A m \in DOMAIN staged : staged[m] = staged[n] => m = n
    BY <1>1 DEF FsInv, StagedApart
  <2>0. /\ files \in Seq(Inode) /\ Len(files) \in Nat /\ DOMAIN files = 1..Len(files)
        /\ crashes \in Nat
    BY <1>1, FilesTyped DEF FsInv, TypeOK
  <2>2. \A c \in Callers : pc[c] \in Staging => Temporary(c) # staged[n]
    <3>1. \A c \in Callers : pc[c] \in Staging => own[c] \in DOMAIN staged
      BY <1>1 DEF FsInv, OwnStaged
    <3> QED
      BY <2>1, <3>1 DEF Temporary
  <2>3. ASSUME NEW c \in Callers,
               Call(c) \/ Open(c) \/ Rematch(c) \/ Restat(c) \/ Fails(c)
        PROVE  UNCHANGED disk
    BY <2>3 DEF Call, Open, Rematch, Restat, Fails
  <2>4. ASSUME NEW c \in Callers, Stage(c) PROVE /\ n \in DOMAIN staged' /\ staged'[n] = staged[n]
               /\ files'[staged[n]] = files[staged[n]]
    <3>1. CASE Exclusive(sequence)
      <4>1. n # sequence
        BY <3>1 DEF Exclusive
      <4>2. files'[staged[n]] = files[staged[n]]
        BY <2>0, <2>1, <2>4, <3>1 DEF Stage
      <4> QED
        BY <2>4, <3>1, <4>1, <4>2 DEF Stage
    <3>2. CASE ~Exclusive(sequence)
      BY <2>4, <3>2 DEF Stage
    <3> QED
      BY <3>1, <3>2
  <2>5. ASSUME NEW c \in Callers, Write(c) \/ Attributes(c) PROVE /\ n \in DOMAIN staged' /\ staged'[n] = staged[n]
               /\ files'[staged[n]] = files[staged[n]]
    BY <2>0, <2>1, <2>2, <2>5 DEF Write, Attributes, Staging
  <2>6. ASSUME NEW c \in Callers, Rename(c) \/ Discard(c) PROVE /\ n \in DOMAIN staged' /\ staged'[n] = staged[n]
               /\ files'[staged[n]] = files[staged[n]]
    BY <2>1, <2>6 DEF Rename, Discard, Unstaged, disk
  <2>7. CASE Edit
    BY <2>0, <2>1, <2>7 DEF Edit
  <2>8. CASE Crash \/ PowerLoss
    BY <2>0, <2>1, <2>8 DEF Crash, PowerLoss
  <2> QED
    <3>1. UNCHANGED disk => /\ n \in DOMAIN staged' /\ staged'[n] = staged[n]
                            /\ files'[staged[n]] = files[staged[n]]
      BY DEF disk
    <3>2. \/ \E c \in Callers : \/ Call(c) \/ Open(c) \/ Rematch(c) \/ Restat(c) \/ Fails(c)
                              \/ Stage(c)
                              \/ Write(c) \/ Attributes(c)
                              \/ Rename(c) \/ Discard(c)
          \/ Edit \/ Crash \/ PowerLoss
      BY <1>1, Zenon DEF Next, Step
    <3> QED
      BY <2>3, <2>4, <2>5, <2>6, <2>7, <2>8, <3>1, <3>2, Zenon
<1>2. FsInv /\ [Next]_vars => [Kept]_vars
  BY <1>1
<1> QED
  BY <1>2, FsInvariant, PTL DEF Spec, OthersKept
=============================================================================
