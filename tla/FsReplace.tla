------------------------------ MODULE FsReplace ------------------------------
(***************************************************************************)
(* gloin_fs_replace_file of src/fs_replace_runtime.cpp: the checked        *)
(* replacement of a file by a staged sibling and a rename. Threads of one  *)
(* process replace the same file, each with contents of its own, while an  *)
(* editor writes it in place, saves it by rename or changes its mode. The  *)
(* process may die between any two steps and its successor may have the    *)
(* same process number, so that the names it makes up are taken already.   *)
(*                                                                         *)
(* All contents have the same size, and times are ticks during which much  *)
(* may happen: the comparison of sizes and times then shows the least.     *)
(***************************************************************************)
EXTENDS Integers, Sequences, FiniteSets

CONSTANTS
    Callers,    \* threads, and the contents that each one writes
    Attempts,   \* names that a call tries (256 in the code)
    MaxEdits,   \* bound: steps of the editor
    MaxTicks,   \* bound: ticks of the file system's clock
    MaxCrashes  \* bound: ends of the process or of the machine

ASSUME Bounds ==
    /\ Attempts \in Nat \ {0} /\ IsFiniteSet(Callers)
    /\ MaxEdits \in Nat /\ MaxTicks \in Nat /\ MaxCrashes \in Nat

ASSUME EditorApart == "editor" \notin Callers

VARIABLES
    \* the file system
    files,      \* inodes in order of creation: content, mode, stamp, synced
    leaf,       \* the inode that the path names
    staged,     \* siblings: a name's number |-> its inode
    now, edits, crashes,
    \* the process
    sequence,   \* of the names made up
    pc, result, \* per caller
    before,     \* what fstat said of the original and the inode it is
    tries,
    own,        \* the number of its staged name, -1 while it has none
    lost,       \* what its rename overwrote
    late        \* somebody changed the file after the last look at its bytes

disk == <<files, leaf, staged>>
calls == <<sequence, pc, result, before, tries, own, lost, late>>
world == <<now, edits, crashes>>
vars == <<disk, calls, world>>

Whole == {"old", "edited"} \cup Callers
Modes == {"ordinary", "changed", "private"}
Inode == [content : Whole \cup {"empty", "part", "torn"}, mode : Modes,
          stamp : 0..MaxTicks, synced : BOOLEAN]
Numbers == 0..(Cardinality(Callers) * Attempts - 1)
Steps == {"idle", "open", "stage", "write", "attributes", "rematch", "restat",
          "rename", "discard", "done"}

Unknown == [inode |-> 0]

Init ==
    /\ files = <<[content |-> "old", mode |-> "ordinary", stamp |-> 0, synced |-> TRUE]>>
    /\ leaf = 1 /\ staged = <<>>
    /\ now = 0 /\ edits = 0 /\ crashes = 0
    /\ sequence = 0
    /\ pc = [c \in Callers |-> "idle"]
    /\ result = [c \in Callers |-> "none"]
    /\ before = [c \in Callers |-> Unknown]
    /\ tries = [c \in Callers |-> 0]
    /\ own = [c \in Callers |-> -1]
    /\ lost = [c \in Callers |-> Unknown]
    /\ late = [c \in Callers |-> FALSE]

-----------------------------------------------------------------------------
(* One call.                                                               *)

Status(i) == [inode |-> i, mode |-> files[i].mode, stamp |-> files[i].stamp]

\* Mutant: times are compared and identities are not.
Same_Stamp(c, i) == Status(i).stamp = before[c].stamp /\ Status(i).mode = before[c].mode

Same(c, i) == Status(i) = before[c]

\* Every caller was given the first contents as those it expects.
Matches(i) == files[i].content = "old"

Goto(c, step) == pc' = [pc EXCEPT ![c] = step]

Return(c, r) == result' = [result EXCEPT ![c] = r] /\ Goto(c, "done")

\* StagedFile's destructor has something to do only after the name was made.
Abandon(c, r) ==
    /\ result' = [result EXCEPT ![c] = r]
    /\ Goto(c, IF own[c] >= 0 THEN "discard" ELSE "done")

Call(c) ==
    /\ pc[c] = "idle" /\ Goto(c, "open")
    /\ UNCHANGED <<disk, world, sequence, result, before, tries, own, lost, late>>

Open(c) ==
    /\ pc[c] = "open"
    /\ before' = [before EXCEPT ![c] = Status(leaf)]
    /\ IF Matches(leaf) THEN Goto(c, "stage") /\ UNCHANGED result
       ELSE Return(c, "changed")
    /\ UNCHANGED <<disk, world, sequence, tries, own, lost, late>>

\* Mutant: the file is opened whether it exists or not.
Exclusive_Any(n) == TRUE

Exclusive(n) == n \notin DOMAIN staged

OutOfAttempts(n) == n = Attempts

\* The loop over names, one attempt of it: O_CREAT and O_EXCL.
Stage(c) ==
    /\ pc[c] = "stage"
    /\ sequence' = sequence + 1 /\ tries' = [tries EXCEPT ![c] = @ + 1]
    /\ IF Exclusive(sequence)
       THEN /\ files' = Append(files, [content |-> "empty", mode |-> "private",
                                       stamp |-> now, synced |-> FALSE])
            /\ staged' = [n \in DOMAIN staged \cup {sequence} |->
                            IF n = sequence THEN Len(files) + 1 ELSE staged[n]]
            /\ own' = [own EXCEPT ![c] = sequence]
            /\ Goto(c, "write") /\ UNCHANGED result
       ELSE /\ IF OutOfAttempts(tries'[c]) THEN Return(c, "error") ELSE UNCHANGED <<pc, result>>
            /\ UNCHANGED <<files, staged, own>>
    /\ UNCHANGED <<leaf, world, before, lost, late>>

Temporary(c) == staged[own[c]]

Progressed(c) == {"part", c}

\* write takes what it likes of what is left.
Write(c) ==
    /\ pc[c] = "write"
    /\ \E content \in Progressed(c) :
         /\ files' = [files EXCEPT ![Temporary(c)].content = content,
                                   ![Temporary(c)].stamp = now]
         /\ IF content = c THEN Goto(c, "attributes") ELSE UNCHANGED pc
    /\ UNCHANGED <<leaf, staged, world, sequence, result, before, tries, own, lost, late>>

\* Mutant: it is not synced.
Finished_Unsynced(c, f) == [f EXCEPT !.mode = before[c].mode]

\* fchown, fchmod, fsync.
Finished(c, f) == [f EXCEPT !.mode = before[c].mode, !.synced = TRUE]

Attributes(c) ==
    /\ pc[c] = "attributes"
    /\ files' = [files EXCEPT ![Temporary(c)] = Finished(c, @)]
    /\ Goto(c, "rematch")
    /\ UNCHANGED <<leaf, staged, world, sequence, result, before, tries, own, lost, late>>

\* The second look at the bytes of the original, which is still open.
Rematch(c) ==
    /\ pc[c] = "rematch"
    /\ IF Matches(before[c].inode) THEN Goto(c, "restat") /\ UNCHANGED result
       ELSE Abandon(c, "changed")
    /\ UNCHANGED <<disk, world, sequence, before, tries, own, lost, late>>

\* fstat of the original, fstatat of the path.
Restat(c) ==
    /\ pc[c] = "restat"
    /\ IF Same(c, before[c].inode) /\ Same(c, leaf)
       THEN Goto(c, "rename") /\ UNCHANGED result
       ELSE Abandon(c, "changed")
    /\ UNCHANGED <<disk, world, sequence, before, tries, own, lost, late>>

\* Mutant: it stays under its own name too.
Unstaged_Kept(n) == DOMAIN staged

Unstaged(n) == DOMAIN staged \ {n}

\* Who is about to overwrite the file without another look at its bytes?
Changed(but) == late' = [c \in Callers |->
    late[c] \/ (c # but /\ pc[c] \in {"restat", "rename"})]

Rename(c) ==
    /\ pc[c] = "rename"
    /\ leaf' = Temporary(c)
    /\ staged' = [n \in Unstaged(own[c]) |-> staged[n]]
    /\ lost' = [lost EXCEPT ![c] = files[leaf]]
    /\ Changed(c)
    /\ Return(c, "ok")
    /\ UNCHANGED <<files, world, sequence, before, tries, own>>

\* unlinkat of the staged name.
Discard(c) ==
    /\ pc[c] = "discard"
    /\ staged' = [n \in Unstaged(own[c]) |-> staged[n]]
    /\ Goto(c, "done")
    /\ UNCHANGED <<files, leaf, world, sequence, result, before, tries, own, lost, late>>

\* Any call of the system may fail; std::bad_alloc comes before the first.
Fails(c) ==
    /\ pc[c] \notin {"idle", "discard", "done"}
    /\ Abandon(c, "error")
    /\ UNCHANGED <<disk, world, sequence, before, tries, own, lost, late>>

Step(c) ==
    \/ Open(c) \/ Stage(c) \/ Write(c) \/ Attributes(c) \/ Rematch(c)
    \/ Restat(c) \/ Rename(c) \/ Discard(c)

-----------------------------------------------------------------------------
(* The rest of the world.                                                  *)

\* An in-place edit, a change of mode and a save by rename, perhaps within the
\* tick of the last change.
Edit ==
    /\ edits < MaxEdits /\ edits' = edits + 1
    /\ now' \in now..MaxTicks
    /\ \/ /\ \E content \in {"old", "edited"} :
               files' = [files EXCEPT ![leaf].content = content, ![leaf].stamp = now']
          /\ UNCHANGED leaf
       \/ /\ files' = [files EXCEPT ![leaf].mode = "changed", ![leaf].stamp = now']
          /\ UNCHANGED leaf
       \/ /\ files' = Append(files, [files[leaf] EXCEPT !.content = "edited", !.stamp = now'])
          /\ leaf' = Len(files) + 1
    /\ Changed("editor")
    /\ UNCHANGED <<staged, crashes, sequence, pc, result, before, tries, own, lost>>

\* A process that has made no call yet.
Fresh ==
    /\ sequence' = 0
    /\ pc' = [c \in Callers |-> "idle"]
    /\ result' = [c \in Callers |-> "none"]
    /\ before' = [c \in Callers |-> Unknown]
    /\ tries' = [c \in Callers |-> 0]
    /\ own' = [c \in Callers |-> -1]
    /\ lost' = [c \in Callers |-> Unknown]
    /\ late' = [c \in Callers |-> FALSE]

\* The process ends; one with the same number starts.
Crash ==
    /\ crashes < MaxCrashes /\ crashes' = crashes + 1
    /\ \E c \in Callers : pc[c] # "idle"
    /\ Fresh
    /\ UNCHANGED <<disk, now, edits>>

\* The machine stops: bytes that were not synced may be gone.
PowerLoss ==
    /\ crashes < MaxCrashes /\ crashes' = crashes + 1
    /\ files' = [i \in DOMAIN files |->
                   IF files[i].synced THEN files[i] ELSE [files[i] EXCEPT !.content = "torn"]]
    /\ Fresh
    /\ UNCHANGED <<leaf, staged, now, edits>>

Next ==
    \/ \E c \in Callers : Call(c) \/ Step(c) \/ Fails(c)
    \/ Edit \/ Crash \/ PowerLoss

Spec == Init /\ [][Next]_vars

-----------------------------------------------------------------------------
(* Properties.                                                             *)

\* Whenever the path is looked at, also after the process or the machine went
\* down, it names a whole file: what was there or what a caller meant.
NeverTorn == files[leaf].content \in Whole

\* A successful call overwrote what it was told to expect, with the mode that
\* it then kept, unless the file was changed after its last look at the bytes:
\* no edit before that look is lost, of an editor or of another call.
OnlyExpectedLost ==
    \A c \in Callers : result[c] = "ok" /\ ~late[c] =>
        lost[c].content = "old" /\ lost[c].mode = before[c].mode

\* A call that returned, however, left no staged file of its own behind.
NothingStaged ==
    \A c \in Callers : pc[c] = "done" => own[c] \notin DOMAIN staged

\* A file that a dead process or another thread has staged is never touched: a
\* name leaves the directory, or its file changes, by its owner's hand.
OthersKept ==
    [][\A n \in DOMAIN staged :
         (\A c \in Callers : own[c] # n) /\ crashes' = crashes =>
            /\ n \in DOMAIN staged' /\ staged'[n] = staged[n]
            /\ files'[staged[n]] = files[staged[n]]]_vars

=============================================================================
