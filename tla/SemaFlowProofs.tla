--------------------------- MODULE SemaFlowProofs ---------------------------
(***************************************************************************)
(* Proofs about SemaFlow, for any symbols, any length of bodies and any    *)
(* number of records of deferred calls.                                    *)
(*                                                                         *)
(* A body that was accepted has a certificate (Certified): a note before   *)
(* each of its tokens that says what the checker knew there, such that     *)
(* wherever execution may go from a token, the note there claims no more   *)
(* than what held before and what the token does.  While a body is         *)
(* checked, the open statements remember enough of it (Framed).  Then one  *)
(* induction over the steps of an execution shows that the note at its     *)
(* place is true (Covers).                                                 *)
(***************************************************************************)
EXTENDS SemaFlow, SequenceTheorems, TLAPS

-----------------------------------------------------------------------------
(* What the checker knows between two tokens.                              *)

Loops == {"while", "for"}
Openers == {"block", "if", "switch"} \cup Loops
Known == {"success", "error"}

\* A loop still open among the first k - 1 frames began with s proved to be v.
Lasts(F, k, s, v) ==
    \E j \in 1..(k - 1) : F[j].op \in Loops /\ F[j].before.proof[s] = v

\* The state f behind k - 1 open statements: what is proved now, and what was
\* proved when one of the loops around began.
Note(f, F, k) ==
    [init |-> f.init, handled |-> f.handled, reaches |-> f.reaches,
     facts |-> [s \in DOMAIN f.proof |->
                  {v \in Known : f.proof[s] = v \/ Lasts(F, k, s, v)}]]

NoteSet(kd) ==
    [init : [DOMAIN kd -> {"out", "unset", "maybe", "set"}], handled : SUBSET DOMAIN kd,
     reaches : BOOLEAN, facts : [DOMAIN kd -> SUBSET Known]]

-----------------------------------------------------------------------------
(* Steps from a note n to a note g.  R are the results assigned in loops,  *)
(* kd the kinds of the symbols.                                            *)

\* What g claims of s does not go beyond n.
AtLeast(kd, R, n, g, s) ==
    /\ g.init[s] = "out" => n.init[s] = "out"
    /\ g.init[s] = "set" => n.init[s] = "set"
    /\ g.init[s] = "unset" /\ ~kd[s].mutable => n.init[s] = "unset"
    /\ s \notin R => (s \in g.handled => s \in n.handled) /\ g.facts[s] \subseteq n.facts[s]

\* g claims nothing of s, which is out of scope.
Gone(g, s) == g.init[s] = "out" /\ s \notin g.handled /\ g.facts[s] = {}

\* g claims nothing of the outcome of s.
Untested(R, g, s) == s \notin R => s \notin g.handled /\ g.facts[s] = {}

Plain(kd, R, n, g) ==
    n.reaches => g.reaches /\ \A s \in DOMAIN kd : AtLeast(kd, R, n, g, s)

\* The symbol is declared or assigned.
Sets(kd, R, n, g, sym, state) ==
    n.reaches => /\ g.reaches
                 /\ g.init[sym] = state /\ Untested(R, g, sym)
                 /\ \A s \in DOMAIN kd \ {sym} : AtLeast(kd, R, n, g, s)

\* The result is looked at in a match.
Matches(kd, R, n, g, sym) ==
    n.reaches => /\ g.reaches
                 /\ g.init[sym] = "set" /\ (sym \notin R => g.facts[sym] \subseteq n.facts[sym])
                 /\ \A s \in DOMAIN kd \ {sym} : AtLeast(kd, R, n, g, s)

\* The locals go out of scope.
Leaves(kd, R, n, g, locals) ==
    n.reaches => /\ g.reaches
                 /\ \A s \in DOMAIN kd :
                        IF s \in locals THEN Gone(g, s) ELSE AtLeast(kd, R, n, g, s)

\* What a test of c says of its result when it comes out as value.
Finds(c, value) == IF c.holds = value THEN "error" ELSE "success"

\* The condition c is value; then some symbols go out of scope.
Tests(kd, R, n, g, c, value, left) ==
    n.reaches =>
        /\ g.reaches
        /\ \A s \in left : Gone(g, s)
        /\ \A s \in DOMAIN kd \ (left \cup {c.on}) : AtLeast(kd, R, n, g, s)
        /\ c.on \in DOMAIN kd \ left =>
             /\ g.init[c.on] \notin {"out", "unset"}
             /\ c.on \notin R => g.facts[c.on] \subseteq n.facts[c.on] \cup {Finds(c, value)}

\* The end of a round: the locals go, and the update assigns a symbol.
Back(kd, R, n, g, locals, sym) ==
    n.reaches =>
        /\ g.reaches
        /\ \A s \in locals : Gone(g, s)
        /\ \A s \in DOMAIN kd \ (locals \cup {sym}) : AtLeast(kd, R, n, g, s)
        /\ sym \in DOMAIN kd \ locals =>
             /\ g.init[sym] # "out"
             /\ g.init[sym] = "unset" => kd[sym].mutable
             /\ Untested(R, g, sym)

-----------------------------------------------------------------------------
(* A program and the notes before each of its tokens and behind the last.  *)

Handles(kd, n, locals) == \A s \in locals : kd[s].result => s \in n.handled

\* Token t, unless it ends a branch, may be executed where n holds, and then g does.
StepSound(kd, R, t, n, g) ==
    /\ t.op = "def" => Sets(kd, R, n, g, t.on, IF t.initialized THEN "set" ELSE "unset")
    /\ t.op = "set" => /\ kd[t.on].mutable \/ n.init[t.on] = "unset"
                       /\ Sets(kd, R, n, g, t.on, "set")
    /\ t.op \in {"read", "value", "error"} => n.init[t.on] = "set" /\ Plain(kd, R, n, g)
    /\ t.op = "value" => "success" \in n.facts[t.on]
    /\ t.op = "error" => "error" \in n.facts[t.on]
    /\ t.op = "match" => n.init[t.on] = "set" /\ Matches(kd, R, n, g, t.on)
    /\ t.op = "defer" => (t.on # None => n.init[t.on] = "set") /\ Plain(kd, R, n, g)
    /\ t.op = "return" =>
         \A s \in DOMAIN kd : kd[s].result => n.init[s] = "out" \/ s \in n.handled
    /\ t.op \in {"block", "switch"} => Plain(kd, R, n, g)
    /\ t.op \in {"if"} \cup Loops =>
         /\ t.on # None => n.init[t.on] = "set"
         /\ Tests(kd, R, n, g, t, TRUE, {})

\* Token t ends a branch of the statement of token o, before which h holds: it
\* may be executed where n holds, and a loop goes back to h.
CloseSound(kd, R, t, o, n, h) ==
    /\ o.op \in Openers
    /\ n.reaches => Handles(kd, n, t.locals)
    /\ o.op \notin Loops => t.on = None
    /\ o.op \in Loops =>
         /\ t.op = "end"
         /\ Back(kd, R, n, h, t.locals, t.on)
         /\ t.on # None /\ n.reaches =>
              t.on \notin t.locals /\ (kd[t.on].mutable \/ n.init[t.on] = "unset")

\* What follows token t, which ends a branch, agrees with the condition or the
\* choice of the statement of token o, before which h holds.
JoinSound(kd, R, t, o, h, g, alternative) ==
    /\ t.op = "else" => o.op = "if" /\ Tests(kd, R, h, g, o, FALSE, {})
    /\ t.op = "arm" => o.op = "switch" /\ Plain(kd, R, h, g)
    /\ t.op = "end" =>
         /\ o.op = "if" => alternative \/ Tests(kd, R, h, g, o, FALSE, {})
         /\ o.op \in Loops => /\ Tests(kd, R, h, g, o, FALSE, o.header)
                              /\ h.reaches => Handles(kd, h, o.header \ {o.on})
         /\ o.op = "switch" => o.exhaustive \/ Plain(kd, R, h, g)

Elses(p, i) == {e \in 1..Len(p) : p[e].op = "else" /\ p[e].of = i}

\* Token i is sound, and so is what it may lead to.
TokenSound(kd, R, p, N, i) ==
    /\ StepSound(kd, R, p[i], N[i], N[i + 1])
    /\ p[i].op \in Closes =>
         /\ p[i].of \in 1..(i - 1)
         /\ CloseSound(kd, R, p[i], p[p[i].of], N[i], N[p[i].of])
         /\ JoinSound(kd, R, p[i], p[p[i].of], N[p[i].of], N[i + 1], Elses(p, p[i].of) # {})

\* Branch j of a statement that ends at e agrees with what follows the statement.
BranchSound(kd, R, p, N, j, e) ==
    p[e].of = p[j].of /\ p[p[j].of].op \notin Loops =>
        Leaves(kd, R, N[j], N[e + 1], p[j].locals)

Tokens(S) ==
    [op : {"def"}, on : S, initialized : BOOLEAN]
      \cup [op : {"set", "read", "value", "error", "match"}, on : S]
      \cup [op : {"defer", "return", "block"}, on : S \cup {None}]
      \cup [op : {"if"}, on : S \cup {None}, holds : BOOLEAN]
      \cup [op : Loops, on : S \cup {None}, holds : BOOLEAN, header : SUBSET S]
      \cup [op : {"switch"}, on : {None}, exhaustive : BOOLEAN]
      \cup [op : Closes, on : S \cup {None}, of : Nat, locals : SUBSET S]

Ends(p) == {e \in 1..Len(p) : p[e].op = "end"}
Closers(p) == {j \in 1..Len(p) : p[j].op \in Closes}

Certified(kd, R, p, N) ==
    /\ p \in Seq(Tokens(DOMAIN kd)) /\ N \in Seq(NoteSet(kd)) /\ Len(N) = Len(p) + 1
    /\ N[1].reaches /\ \A s \in DOMAIN kd : Gone(N[1], s)
    /\ \A i \in 1..Len(p) : TokenSound(kd, R, p, N, i)
    /\ \A j \in Closers(p), e \in Ends(p) : BranchSound(kd, R, p, N, j, e)

Ended(p, i) == \E e \in Ends(p) : p[e].of = i

-----------------------------------------------------------------------------
(* The open statements.                                                    *)

LiveIn(kd, f) == {s \in DOMAIN kd : f.init[s] # "out"}

FlowSet(kd) ==
    [init : [DOMAIN kd -> {"out", "unset", "maybe", "set"}],
     proof : [DOMAIN kd -> {"unknown"} \cup Known], handled : SUBSET DOMAIN kd,
     reaches : BOOLEAN]

\* Results are known only while they are in scope.
FlowSound(kd, f) ==
    /\ f \in FlowSet(kd)
    /\ \A s \in DOMAIN kd : 
         /\ f.proof[s] # "unknown" => kd[s].result /\ f.init[s] # "out"
         /\ s \in f.handled => kd[s].result /\ f.init[s] # "out"

FrameSet(kd) ==
    [op : {"body", "else"} \cup Openers, start : Nat,
     cond : [on : DOMAIN kd \cup {None}, holds : BOOLEAN],
     before : FlowSet(kd), merged : FlowSet(kd), depth : Nat,
     locals : SUBSET DOMAIN kd, header : SUBSET DOMAIN kd]

Opens(op) == IF op = "else" THEN "if" ELSE op

\* From the state f in which statement F[k] began to a state g within it: what
\* was in scope still is, and what was set is; what is declared outside of a loop
\* is as it was, a result unless it is in R.
Later(kd, R, b, depth, f, g) ==
    /\ LiveIn(kd, f) \subseteq LiveIn(kd, g)
    /\ \A s \in DOMAIN kd : f.init[s] = "set" => g.init[s] = "set"
    /\ \A s \in LiveIn(kd, f) : b[s] < depth =>
         /\ ~kd[s].mutable /\ f.init[s] = "unset" => g.init[s] = "unset"
         /\ s \notin R /\ s \in f.handled => s \in g.handled

\* Frame k remembers the state in which its statement was met.
Begun(p, N, F, k) ==
    LET i == F[k].start
        f == F[k].before
        c == F[k].cond
    IN  /\ i \in 1..Len(p) /\ p[i].op = Opens(F[k].op)
        /\ F[k].op \in {"if", "else"} \cup Loops => c.on = p[i].on /\ c.holds = p[i].holds
        /\ F[k].op \in {"block", "switch"} => c.on = None
        /\ F[k].op \in Loops => F[k].header = p[i].header
        /\ F[k].op \notin Loops => F[k].header = {}
        /\ F[k].op = "while" => F[k].header = {}
        /\ N[i].reaches /\ f.reaches /\ N[i].init = f.init
        /\ N[i].facts = Note(f, F, k).facts
        /\ f.handled = N[i].handled \cup ({c.on} \ {None})
        /\ c.on # None => f.init[c.on] = "set"

\* Frame k remembers what its closed branches come to.
Merges(kd, R, p, N, F, k) ==
    LET i == F[k].start
        m == Note(F[k].merged, F, k)
    IN  /\ F[k].op \in {"block", "if"} \cup Loops => ~m.reaches
        /\ F[k].op = "else" => Elses(p, i) # {}
        /\ F[k].op = "switch" => p[i].exhaustive \/ Plain(kd, R, N[i], m)
        /\ \A j \in Closers(p) :
             p[j].of = i => /\ F[k].op \notin Loops /\ p[j].op # "end"
                            /\ Leaves(kd, R, N[j], m, p[j].locals)

\* The scopes of frame k lie in those of the frame around it.
Nested(kd, R, F, k, b) ==
    /\ F[k - 1].start < F[k].start
    /\ F[k].depth = F[k - 1].depth + (IF F[k].op \in Loops THEN 1 ELSE 0)
    /\ Later(kd, R, b, F[k - 1].depth, F[k - 1].before, F[k].before)
    /\ LiveIn(kd, F[k].before) \subseteq
         LiveIn(kd, F[k - 1].before) \cup F[k - 1].locals \cup F[k].header
    /\ F[k].header \subseteq LiveIn(kd, F[k].before)
    /\ F[k].header \cap LiveIn(kd, F[k - 1].before) = {}
    /\ \A s \in LiveIn(kd, F[k].before) : b[s] <= F[k - 1].depth
    /\ F[k].merged.reaches =>
         /\ Later(kd, R, b, F[k].depth, F[k].before, F[k].merged)
         /\ LiveIn(kd, F[k].merged) \subseteq LiveIn(kd, F[k].before)

\* Frame k, of a statement.
FrameSound(kd, R, p, N, F, k, b) ==
    /\ F[k].op # "body" /\ Begun(p, N, F, k)
    /\ Merges(kd, R, p, N, F, k) /\ Nested(kd, R, F, k, b)

FramesSound(kd, R, p, N, F, b) ==
    /\ F \in Seq(FrameSet(kd)) /\ Len(F) >= 1 /\ b \in [DOMAIN kd -> Nat]
    /\ F[1].op = "body" /\ F[1].start = 0 /\ F[1].depth = 0
    /\ LiveIn(kd, F[1].before) = {} /\ F[1].header = {}
    /\ \A k \in 2..Len(F) : FrameSound(kd, R, p, N, F, k, b)
    /\ \A k \in 1..Len(F) :
         /\ FlowSound(kd, F[k].before) /\ FlowSound(kd, F[k].merged)
         /\ F[k].locals \cap LiveIn(kd, F[k].before) = {}
    /\ \A i, k \in 1..Len(F) : i < k =>
         /\ F[i].start < F[k].start /\ F[i].depth <= F[k].depth
         /\ LiveIn(kd, F[i].before) \subseteq LiveIn(kd, F[k].before)

\* The state f in the last frame, where the symbols of X will get another frame.
Current(kd, R, F, f, b, X) ==
    /\ FlowSound(kd, f)
    /\ LET last == F[Len(F)] IN
         f.reaches =>
           /\ Later(kd, R, b, last.depth, last.before, f)
           /\ LiveIn(kd, f) \subseteq LiveIn(kd, last.before) \cup last.locals \cup X
           /\ \A s \in LiveIn(kd, f) : b[s] <= last.depth

OpenOrEnded(p, F) ==
    \A i \in 1..Len(p) : p[i].op \in Openers => Ended(p, i) \/ \E k \in 2..Len(F) : F[k].start = i

FramedBut(kd, R, p, N, F, f, b, X) ==
    /\ FramesSound(kd, R, p, N, F, b) /\ Current(kd, R, F, f, b, X) /\ OpenOrEnded(p, F)
    /\ N[Len(p) + 1] = Note(f, F, Len(F) + 1)

Framed(kd, R, p, N, F, f, b) == FramedBut(kd, R, p, N, F, f, b, {})

Kinds == None \notin Symbols /\ kind \in [Symbols -> [result : BOOLEAN, mutable : BOOLEAN]]

-----------------------------------------------------------------------------
(* Execution.                                                              *)

Shows(v) == IF v = "success" THEN "good" ELSE "bad"

\* What the note n says of s is true of the memory m and of ins, the symbols whose
\* outcomes were looked at.
CoversAt(kd, R, n, m, ins, s) ==
    /\ n.init[s] = "out" => m[s] = "out"
    /\ n.init[s] = "set" => m[s] \in {"good", "bad"}
    /\ n.init[s] = "unset" /\ ~kd[s].mutable => m[s] = "unset"
    /\ s \notin R => /\ s \in n.handled => s \in ins
                     /\ \A v \in n.facts[s] : m[s] = Shows(v)

Covers(kd, R, n, m, ins) ==
    n.reaches /\ \A s \in DOMAIN kd : CoversAt(kd, R, n, m, ins, s)

\* A program that was accepted.
Finished(kd, v, p, N) ==
    /\ \A i \in 1..Len(p) : p[i].op \in Openers => Ended(p, i)
    /\ LET n == N[Len(p) + 1] IN
         n.reaches => /\ v
                      /\ \A s \in DOMAIN kd : kd[s].result => n.init[s] = "out" \/ s \in n.handled

-----------------------------------------------------------------------------
(* Agreement of notes.                                                     *)

\* What more results are excepted from agrees all the same.
LEMMA MoreExcepted ==
    ASSUME NEW kd, NEW R, NEW S, R \subseteq S, NEW n, NEW g, NEW x, NEW y, NEW z
    PROVE  /\ AtLeast(kd, R, n, g, x) => AtLeast(kd, S, n, g, x)
           /\ Plain(kd, R, n, g) => Plain(kd, S, n, g)
           /\ Sets(kd, R, n, g, x, y) => Sets(kd, S, n, g, x, y)
           /\ Matches(kd, R, n, g, x) => Matches(kd, S, n, g, x)
           /\ Leaves(kd, R, n, g, x) => Leaves(kd, S, n, g, x)
           /\ Tests(kd, R, n, g, x, y, z) => Tests(kd, S, n, g, x, y, z)
           /\ Back(kd, R, n, g, x, y) => Back(kd, S, n, g, x, y)
<1>1. \A s : AtLeast(kd, R, n, g, s) => AtLeast(kd, S, n, g, s)
  BY DEF AtLeast
<1>2. \A s : Untested(R, g, s) => Untested(S, g, s)
  BY DEF Untested
<1>3. Plain(kd, R, n, g) => Plain(kd, S, n, g)
  BY <1>1 DEF Plain
<1>4. Sets(kd, R, n, g, x, y) => Sets(kd, S, n, g, x, y)
  BY <1>1, <1>2 DEF Sets
<1>5. Matches(kd, R, n, g, x) => Matches(kd, S, n, g, x)
  BY <1>1 DEF Matches
<1>6. Leaves(kd, R, n, g, x) => Leaves(kd, S, n, g, x)
  BY <1>1 DEF Leaves
<1>7. Tests(kd, R, n, g, x, y, z) => Tests(kd, S, n, g, x, y, z)
  BY <1>1 DEF Tests
<1>8. Back(kd, R, n, g, x, y) => Back(kd, S, n, g, x, y)
  BY <1>1, <1>2 DEF Back
<1> QED
  BY <1>1, <1>3, <1>4, <1>5, <1>6, <1>7, <1>8

\* So do the steps from token to token.
LEMMA StepsStay ==
    ASSUME NEW kd, NEW R, NEW S, R \subseteq S, NEW t, NEW o, NEW n, NEW g, NEW h, NEW a, NEW b, a => b
    PROVE  /\ StepSound(kd, R, t, n, g) => StepSound(kd, S, t, n, g)
           /\ CloseSound(kd, R, t, o, n, h) => CloseSound(kd, S, t, o, n, h)
           /\ JoinSound(kd, R, t, o, h, g, a) => JoinSound(kd, S, t, o, h, g, b)
<1>1. /\ Plain(kd, R, n, g) => Plain(kd, S, n, g)
      /\ Matches(kd, R, n, g, t.on) => Matches(kd, S, n, g, t.on)
      /\ Tests(kd, R, n, g, t, TRUE, {}) => Tests(kd, S, n, g, t, TRUE, {})
  BY MoreExcepted
<1>2. \A y : Sets(kd, R, n, g, t.on, y) => Sets(kd, S, n, g, t.on, y)
  BY MoreExcepted
<1>3. Back(kd, R, n, h, t.locals, t.on) => Back(kd, S, n, h, t.locals, t.on)
  BY MoreExcepted
<1>4. /\ Plain(kd, R, h, g) => Plain(kd, S, h, g)
      /\ \A z : Tests(kd, R, h, g, o, FALSE, z) => Tests(kd, S, h, g, o, FALSE, z)
  BY MoreExcepted
<1>5. StepSound(kd, R, t, n, g) => StepSound(kd, S, t, n, g)
  BY <1>1, <1>2 DEF StepSound
<1>6. CloseSound(kd, R, t, o, n, h) => CloseSound(kd, S, t, o, n, h)
  BY <1>3 DEF CloseSound
<1>7. JoinSound(kd, R, t, o, h, g, a) => JoinSound(kd, S, t, o, h, g, b)
  BY <1>4 DEF JoinSound
<1> QED
  BY <1>5, <1>6, <1>7

\* The two sequences of a certificate are the old ones and one thing more.
Grows(p, N, t, n, q, M) ==
    /\ Len(q) = Len(p) + 1 /\ Len(M) = Len(q) + 1
    /\ \A i \in 1..Len(p) : q[i] = p[i]
    /\ \A i \in 1..Len(q) : M[i] = N[i]
    /\ q[Len(q)] = t /\ M[Len(M)] = n

\* Tokens that were sound still are.
LEMMA TokenStays ==
    ASSUME NEW kd, NEW R, NEW S, R \subseteq S, NEW p, NEW N, NEW t, NEW n, NEW q, NEW M,
           Len(p) \in Nat, Grows(p, N, t, n, q, M),
           NEW i \in 1..Len(p), TokenSound(kd, R, p, N, i)
    PROVE  TokenSound(kd, S, q, M, i)
<1>1. q[i] = p[i] /\ M[i] = N[i] /\ M[i + 1] = N[i + 1]
  BY DEF Grows
<1>2. StepSound(kd, S, p[i], N[i], N[i + 1])
  BY StepsStay DEF TokenSound
<1>3. CASE p[i].op \in Closes
  <2> DEFINE o == p[i].of
  <2>1. o \in 1..(i - 1)
    BY <1>3 DEF TokenSound
  <2>2. q[o] = p[o] /\ M[o] = N[o]
    BY <2>1 DEF Grows
  <2>3. Elses(p, o) # {} => Elses(q, o) # {}
    BY DEF Grows, Elses
  <2>4. /\ CloseSound(kd, R, p[i], p[o], N[i], N[o])
        /\ JoinSound(kd, R, p[i], p[o], N[o], N[i + 1], Elses(p, o) # {})
    BY <1>3 DEF TokenSound
  <2> HIDE DEF o
  <2>5. /\ CloseSound(kd, S, p[i], p[o], N[i], N[o])
        /\ JoinSound(kd, S, p[i], p[o], N[o], N[i + 1], Elses(q, o) # {})
    BY <2>3, <2>4, StepsStay, ZenonT(60)
  <2>6. q[i].of = o
    BY <1>1 DEF o
  <2> QED
    BY <1>1, <1>2, <2>1, <2>2, <2>5, <2>6 DEF TokenSound
<1>4. CASE p[i].op \notin Closes
  BY <1>1, <1>2, <1>4 DEF TokenSound
<1> QED
  BY <1>3, <1>4

\* A certificate grows by a token that is sound, and if it ends a branch is the
\* first after which that statement ends.
LEMMA CertifiedGrows ==
    ASSUME NEW kd, NEW R, NEW S, R \subseteq S, NEW p, NEW N, Certified(kd, R, p, N),
           NEW t \in Tokens(DOMAIN kd), NEW n \in NoteSet(kd),
           TokenSound(kd, S, Append(p, t), Append(N, n), Len(p) + 1),
           t.op \in Closes => (Ended(p, t.of) => Append(p, t)[t.of].op \in Loops),
           t.op = "end" => \A j \in Closers(Append(p, t)) :
                             BranchSound(kd, S, Append(p, t), Append(N, n), j, Len(p) + 1)
    PROVE  Certified(kd, S, Append(p, t), Append(N, n))
<1> DEFINE q == Append(p, t)
           M == Append(N, n)
<1>1. p \in Seq(Tokens(DOMAIN kd)) /\ N \in Seq(NoteSet(kd)) /\ Len(N) = Len(p) + 1
  BY DEF Certified
<1>2. q \in Seq(Tokens(DOMAIN kd)) /\ M \in Seq(NoteSet(kd)) /\ Len(M) = Len(q) + 1
  BY <1>1
<1>3. Grows(p, N, t, n, q, M) /\ Len(p) \in Nat
  BY <1>1 DEF Grows
<1>4. Len(q) = Len(p) + 1
  BY <1>1
<1>5. /\ TokenSound(kd, S, q, M, Len(q))
      /\ t.op = "end" => \A j \in Closers(q) : BranchSound(kd, S, q, M, j, Len(q))
      /\ t.op \in Closes => (Ended(p, t.of) => q[t.of].op \in Loops)
  BY <1>4
<1> HIDE DEF q, M
<1>6. M[1] = N[1] /\ q[Len(q)] = t
  BY <1>3 DEF Grows
<1>7. \A i \in 1..Len(q) : TokenSound(kd, S, q, M, i)
  BY <1>3, <1>4, <1>5, TokenStays DEF Certified
<1>8. \A j \in Closers(p) : p[j].of \in 1..(j - 1) /\ j \in 1..Len(p) /\ p[j].op \in Closes
  BY DEF Certified, TokenSound, Closers
<1>9. \A j \in Closers(q) : j \in Closers(p) \/ (j = Len(q) /\ t.op \in Closes)
  BY <1>3, <1>6 DEF Closers, Grows
<1>10. \A e \in Ends(q) : e \in Ends(p) \/ (e = Len(q) /\ t.op = "end")
  BY <1>3, <1>6 DEF Ends, Grows
<1>11. ASSUME NEW j \in Closers(q), NEW e \in Ends(q) PROVE BranchSound(kd, S, q, M, j, e)
  <2>1. CASE e = Len(q) /\ t.op = "end"
    BY <2>1, <1>5
  <2>2. CASE e \in Ends(p)
    <3>1. e \in 1..Len(p) /\ q[e] = p[e] /\ M[e + 1] = N[e + 1] /\ e \in Closers(p)
      BY <2>2, <1>3 DEF Grows, Ends, Closers, Closes
    <3>2. p[e].of \in 1..(e - 1) /\ q[p[e].of] = p[p[e].of]
      BY <3>1, <1>8, <1>3, SMTT(30) DEF Grows
    <3>3. CASE j \in Closers(p)
      <4>1. q[j] = p[j] /\ M[j] = N[j]
        BY <3>3, <1>8, <1>3 DEF Grows
      <4>2. BranchSound(kd, R, p, N, j, e)
        BY <3>3, <2>2 DEF Certified
      <4> QED
        BY <4>1, <4>2, <3>1, <3>2, MoreExcepted DEF BranchSound
    <3>4. CASE j = Len(q) /\ t.op \in Closes
      <4>1. q[Len(q)].of # p[e].of \/ q[q[Len(q)].of].op \in Loops
        BY <3>4, <2>2, <1>5, <1>6 DEF Ended
      <4> QED
        BY <4>1, <3>1, <3>4 DEF BranchSound
    <3> QED
      BY <3>3, <3>4, <1>9
  <2> QED
    BY <2>1, <2>2, <1>10
<1> QED
  BY <1>2, <1>6, <1>7, <1>11 DEF Certified, q, M

\* A token that ends no branch is sound when it follows from what is known.
LEMMA CertifiedSteps ==
    ASSUME NEW kd, NEW R, NEW S, R \subseteq S, NEW p, NEW N, Certified(kd, R, p, N),
           NEW t \in Tokens(DOMAIN kd), t.op \notin Closes, NEW n \in NoteSet(kd),
           StepSound(kd, S, t, N[Len(p) + 1], n)
    PROVE  Certified(kd, S, Append(p, t), Append(N, n))
<1>1. p \in Seq(Tokens(DOMAIN kd)) /\ N \in Seq(NoteSet(kd)) /\ Len(N) = Len(p) + 1
  BY DEF Certified
<1>2. /\ Append(p, t)[Len(p) + 1] = t
      /\ Append(N, n)[Len(p) + 1] = N[Len(p) + 1] /\ Append(N, n)[Len(p) + 1 + 1] = n
  BY <1>1
<1>3. TokenSound(kd, S, Append(p, t), Append(N, n), Len(p) + 1)
  BY <1>2 DEF TokenSound
<1>4. t.op # "end"
  BY DEF Closes
<1> QED
  BY <1>3, <1>4, CertifiedGrows

-----------------------------------------------------------------------------
(* Memory follows the notes.                                               *)

\* A note that goes no further is true where memory is the same.
LEMMA AtLeastCovers ==
    ASSUME NEW kd, NEW R, NEW n, NEW g, NEW m, NEW w, NEW ins, NEW seen, NEW s,
           AtLeast(kd, R, n, g, s), CoversAt(kd, R, n, m, ins, s),
           w[s] = m[s], s \in ins => s \in seen
    PROVE  CoversAt(kd, R, g, w, seen, s)
BY DEF AtLeast, CoversAt

\* Nothing is false of what is out of scope.
LEMMA GoneCovers ==
    ASSUME NEW kd, NEW R, NEW g, NEW w, NEW seen, NEW s, Gone(g, s), w[s] = "out"
    PROVE  CoversAt(kd, R, g, w, seen, s)
BY DEF Gone, CoversAt

\* A step that changes nothing leaves true what it says no more than.
LEMMA PlainCovers ==
    ASSUME NEW kd, NEW R, NEW n, NEW g, NEW m, NEW ins,
           Covers(kd, R, n, m, ins), Plain(kd, R, n, g)
    PROVE  Covers(kd, R, g, m, ins)
<1>1. g.reaches /\ \A s \in DOMAIN kd : AtLeast(kd, R, n, g, s) /\ CoversAt(kd, R, n, m, ins, s)
  BY DEF Covers, Plain
<1>2. \A s \in DOMAIN kd : CoversAt(kd, R, g, m, ins, s)
  BY <1>1, AtLeastCovers
<1> QED
  BY <1>1, <1>2 DEF Covers

\* A definition or an assignment gives the symbol a new value.
LEMMA SetsCovers ==
    ASSUME NEW kd, NEW R, NEW n, NEW g, NEW m, NEW w, NEW ins, NEW sym, NEW state,
           Covers(kd, R, n, m, ins), Sets(kd, R, n, g, sym, state),
           \/ state = "set" /\ w[sym] \in {"good", "bad"}
           \/ state = "unset" /\ w[sym] = "unset",
           \A s \in DOMAIN kd \ {sym} : w[s] = m[s]
    PROVE  Covers(kd, R, g, w, ins \ {sym})
<1>1. /\ g.reaches /\ g.init[sym] = state /\ Untested(R, g, sym)
      /\ \A s \in DOMAIN kd \ {sym} : AtLeast(kd, R, n, g, s) /\ CoversAt(kd, R, n, m, ins, s)
  BY DEF Covers, Sets
<1>2. \A s \in DOMAIN kd \ {sym} : CoversAt(kd, R, g, w, ins \ {sym}, s)
  BY <1>1, AtLeastCovers
<1>3. CoversAt(kd, R, g, w, ins \ {sym}, sym)
  BY <1>1 DEF Untested, CoversAt
<1> QED
  BY <1>1, <1>2, <1>3 DEF Covers

\* A match looks at the outcome.
LEMMA MatchesCovers ==
    ASSUME NEW kd, NEW R, NEW n, NEW g, NEW m, NEW ins, NEW sym \in DOMAIN kd,
           Covers(kd, R, n, m, ins), Matches(kd, R, n, g, sym), n.init[sym] = "set"
    PROVE  Covers(kd, R, g, m, ins \cup {sym})
<1>1. /\ g.reaches /\ g.init[sym] = "set" /\ (sym \notin R => g.facts[sym] \subseteq n.facts[sym])
      /\ \A s \in DOMAIN kd \ {sym} : AtLeast(kd, R, n, g, s) /\ CoversAt(kd, R, n, m, ins, s)
  BY DEF Covers, Matches
<1>2. \A s \in DOMAIN kd \ {sym} : CoversAt(kd, R, g, m, ins \cup {sym}, s)
  BY <1>1, AtLeastCovers
<1>3. CoversAt(kd, R, g, m, ins \cup {sym}, sym)
  BY <1>1 DEF CoversAt, Covers
<1> QED
  BY <1>1, <1>2, <1>3 DEF Covers

\* From the memory m the locals go, and w is left.
Forgets(kd, m, w, locals) == \A s \in DOMAIN kd : w[s] = IF s \in locals THEN "out" ELSE m[s]

\* The symbol of c holds what its test finds.
Found(kd, n, m, c, value) ==
    c.on \in DOMAIN kd => n.init[c.on] = "set" /\ m[c.on] = Shows(Finds(c, value))

\* A branch is left with its locals.
LEMMA LeavesCovers ==
    ASSUME NEW kd, NEW R, NEW n, NEW g, NEW m, NEW w, NEW ins, NEW locals,
           Covers(kd, R, n, m, ins), Leaves(kd, R, n, g, locals),
           Forgets(kd, m, w, locals)
    PROVE  Covers(kd, R, g, w, ins)
<1>1. /\ g.reaches
      /\ \A s \in DOMAIN kd : /\ CoversAt(kd, R, n, m, ins, s)
                              /\ IF s \in locals THEN Gone(g, s) ELSE AtLeast(kd, R, n, g, s)
  BY DEF Covers, Leaves
<1>2. \A s \in DOMAIN kd : CoversAt(kd, R, g, w, ins, s)
  BY <1>1, AtLeastCovers, GoneCovers DEF Forgets
<1> QED
  BY <1>1, <1>2 DEF Covers

\* A test finds which outcome there is; then the symbols in left go.
LEMMA TestsCovers ==
    ASSUME NEW kd, NEW R, NEW n, NEW g, NEW m, NEW w, NEW ins, NEW c, NEW value, NEW left,
           Covers(kd, R, n, m, ins), Tests(kd, R, n, g, c, value, left),
           Found(kd, n, m, c, value), Forgets(kd, m, w, left)
    PROVE  Covers(kd, R, g, w, ins \cup {c.on})
<1>1. /\ g.reaches /\ \A s \in left : Gone(g, s)
      /\ \A s \in DOMAIN kd : CoversAt(kd, R, n, m, ins, s)
      /\ \A s \in DOMAIN kd \ (left \cup {c.on}) : AtLeast(kd, R, n, g, s)
      /\ c.on \in DOMAIN kd \ left =>
             /\ g.init[c.on] \notin {"out", "unset"}
             /\ c.on \notin R => g.facts[c.on] \subseteq n.facts[c.on] \cup {Finds(c, value)}
  BY DEF Covers, Tests
<1>2. \A s \in DOMAIN kd \ (left \cup {c.on}) : CoversAt(kd, R, g, w, ins \cup {c.on}, s)
  BY <1>1, AtLeastCovers DEF Forgets
<1>3. \A s \in DOMAIN kd : s \in left => CoversAt(kd, R, g, w, ins \cup {c.on}, s)
  BY <1>1, GoneCovers DEF Forgets
<1>4. CASE c.on \in DOMAIN kd \ left
  <2>1. m[c.on] \in {"good", "bad"} /\ w[c.on] = m[c.on]
    BY <1>1, <1>4 DEF CoversAt, Forgets, Found
  <2>3. CoversAt(kd, R, g, w, ins \cup {c.on}, c.on)
    BY <1>1, <1>4, <2>1 DEF CoversAt, Found
  <2> QED
    BY <1>1, <1>2, <1>3, <2>3 DEF Covers
<1>5. CASE c.on \notin DOMAIN kd \ left
  BY <1>1, <1>2, <1>3, <1>5 DEF Covers
<1> QED
  BY <1>4, <1>5

\* A round ends: the locals go and the update assigns sym.
LEMMA BackCovers ==
    ASSUME NEW kd, NEW R, NEW n, NEW g, NEW m, NEW w, NEW ins, NEW seen, NEW locals, NEW sym,
           Covers(kd, R, n, m, ins), Back(kd, R, n, g, locals, sym),
           \A s \in DOMAIN kd \ {sym} :
               w[s] = (IF s \in locals THEN "out" ELSE m[s]) /\ (s \in ins => s \in seen),
           sym \in DOMAIN kd => w[sym] \in {"good", "bad"} /\ sym \notin locals
    PROVE  Covers(kd, R, g, w, seen)
<1>1. /\ g.reaches /\ \A s \in locals : Gone(g, s)
      /\ \A s \in DOMAIN kd : CoversAt(kd, R, n, m, ins, s)
      /\ \A s \in DOMAIN kd \ (locals \cup {sym}) : AtLeast(kd, R, n, g, s)
      /\ sym \in DOMAIN kd \ locals =>
             /\ g.init[sym] # "out"
             /\ g.init[sym] = "unset" => kd[sym].mutable
             /\ Untested(R, g, sym)
  BY DEF Covers, Back
<1>2. \A s \in DOMAIN kd \ (locals \cup {sym}) : CoversAt(kd, R, g, w, seen, s)
  BY <1>1, AtLeastCovers
<1>3. \A s \in DOMAIN kd \cap locals : s # sym => CoversAt(kd, R, g, w, seen, s)
  BY <1>1, GoneCovers
<1>4. sym \in DOMAIN kd => CoversAt(kd, R, g, w, seen, sym)
  BY <1>1 DEF CoversAt, Untested
<1> QED
  BY <1>1, <1>2, <1>3, <1>4 DEF Covers

-----------------------------------------------------------------------------
(* An execution follows the certificate.                                   *)

Memory == {"out", "unset", "good", "bad"}

\* The machine is where the notes N say.
MachineInv(N) ==
    /\ memory \in [Symbols -> Memory]
    /\ dropped \subseteq reassigned
    /\ phase = "run" =>
         pc \in 1..(Len(program) + 1) /\ Covers(kind, reassigned, N[pc], memory, inspected)
    /\ phase = "trapped" => program[pc].on \in reassigned

\* The body was accepted with the notes N.
Accepted(N) ==
    /\ Kinds /\ Certified(kind, reassigned, program, N) /\ Finished(kind, void, program, N)

\* What each kind of token carries.
LEMMA TokenShape ==
    ASSUME NEW S, NEW t \in Tokens(S)
    PROVE  /\ t.op \in {"def", "set", "read", "value", "error", "match"} => t.on \in S
           /\ t.op = "def" => t.initialized \in BOOLEAN
           /\ t.op \in {"if"} \cup Loops => t.holds \in BOOLEAN
           /\ t.op \in Loops => t.header \subseteq S
           /\ t.op \in Closes => t.locals \subseteq S /\ t.of \in Nat
           /\ t.on \in S \cup {None}
           /\ t.op \in {"def", "set", "read", "value", "error", "match", "defer", "return",
                        "block", "if", "while", "for", "switch", "else", "arm", "end"}
BY DEF Tokens, Closes, Loops

\* The token to execute is sound, and so are the notes around it.
LEMMA TokenAt ==
    ASSUME NEW N, Accepted(N), NEW i \in 1..Len(program)
    PROVE  /\ program[i] \in Tokens(Symbols)
           /\ TokenSound(kind, reassigned, program, N, i)
           /\ StepSound(kind, reassigned, program[i], N[i], N[i + 1])
           /\ i \in Nat /\ i + 1 \in 1..(Len(program) + 1) /\ Len(program) \in Nat
<1>1. program \in Seq(Tokens(Symbols))
  BY DEF Accepted, Certified, Symbols
<1>2. TokenSound(kind, reassigned, program, N, i)
  BY DEF Accepted, Certified
<1> QED
  BY <1>1, <1>2 DEF TokenSound

\* A statement that was opened has an end, at which what follows is sound.
LEMMA EndAt ==
    ASSUME NEW N, Accepted(N), NEW i \in 1..Len(program), program[i].op \in Openers
    PROVE  /\ EndOf(i) \in Ends(program) /\ EndOf(i) \in 1..Len(program)
           /\ program[EndOf(i)].op = "end" /\ program[EndOf(i)].of = i
           /\ JoinSound(kind, reassigned, program[EndOf(i)], program[i], N[i], N[EndOf(i) + 1],
                        Elses(program, i) # {})
<1>1. Ended(program, i)
  BY DEF Accepted, Finished
<1>2. \E e \in 1..Len(program) : program[e].op = "end" /\ program[e].of = i
  BY <1>1 DEF Ended, Ends
<1>3. /\ EndOf(i) \in 1..Len(program)
      /\ program[EndOf(i)].op = "end" /\ program[EndOf(i)].of = i
  BY <1>2 DEF EndOf
<1>4. TokenSound(kind, reassigned, program, N, EndOf(i))
  BY <1>3, TokenAt
<1> QED
  BY <1>3, <1>4 DEF TokenSound, Closes, Ends

\* A definition: the symbol holds what it is initialized with, or nothing.
LEMMA DefineFollows ==
    ASSUME NEW N, Accepted(N), MachineInv(N), RunDefine
    PROVE  MachineInv(N)'
<1>1. /\ phase = "run" /\ phase' = "run" /\ pc' = pc + 1 /\ pc \in 1..Len(program)
      /\ program[pc].op = "def" /\ inspected' = inspected \ {program[pc].on}
      /\ UNCHANGED <<kind, program, reassigned, dropped>>
  BY DEF RunDefine, Executes, checking, MachineInv, token, Accepted, Certified
<1> DEFINE t == program[pc]
<1>2. PICK o \in IF t.initialized THEN Outcomes(t.on) ELSE {"unset"} : memory' = [memory EXCEPT ![t.on] = o]
  BY DEF RunDefine, token
<1>3. /\ t \in Tokens(Symbols) /\ StepSound(kind, reassigned, t, N[pc], N[pc + 1])
      /\ pc + 1 \in 1..(Len(program) + 1)
  BY <1>1, TokenAt
<1>4. t.on \in Symbols /\ t.initialized \in BOOLEAN
  BY <1>1, <1>3, TokenShape
<1>5. memory \in [Symbols -> Memory] /\ Covers(kind, reassigned, N[pc], memory, inspected)
  BY <1>1 DEF MachineInv
<1>6. Outcomes(t.on) \subseteq {"good", "bad"}
  BY DEF Outcomes
<1>7. o \in Memory
  BY <1>2, <1>4, <1>6 DEF Memory
<1>8. memory' \in [Symbols -> Memory] /\ memory'[t.on] = o /\ \A s \in Symbols \ {t.on} : memory'[s] = memory[s]
  BY <1>2, <1>4, <1>5, <1>7
<1>9. Sets(kind, reassigned, N[pc], N[pc + 1], t.on, IF t.initialized THEN "set" ELSE "unset")
  BY <1>1, <1>3 DEF StepSound
<1>10. Covers(kind, reassigned, N[pc + 1], memory', inspected \ {t.on})
  <2>1. CASE t.initialized
    BY <1>2, <1>5, <1>6, <1>8, <1>9, <2>1, SetsCovers, ZenonT(60) DEF Symbols
  <2>2. CASE ~t.initialized
    BY <1>2, <1>5, <1>8, <1>9, <2>2, SetsCovers DEF Symbols
  <2> QED
    BY <2>1, <2>2
<1> QED
  BY <1>1, <1>3, <1>8, <1>10 DEF MachineInv, Symbols

\* An assignment.
LEMMA AssignFollows ==
    ASSUME NEW N, Accepted(N), MachineInv(N), RunAssign
    PROVE  MachineInv(N)'
<1>1. /\ phase = "run" /\ phase' = "run" /\ pc' = pc + 1 /\ pc \in 1..Len(program)
      /\ program[pc].op = "set" /\ inspected' = inspected \ {program[pc].on}
      /\ UNCHANGED <<kind, program, reassigned, dropped>>
  BY DEF RunAssign, Executes, checking, MachineInv, token, Accepted, Certified
<1> DEFINE t == program[pc]
<1>2. PICK o \in Outcomes(t.on) : memory' = [memory EXCEPT ![t.on] = o]
  BY DEF RunAssign, token
<1>3. /\ t \in Tokens(Symbols) /\ StepSound(kind, reassigned, t, N[pc], N[pc + 1])
      /\ pc + 1 \in 1..(Len(program) + 1)
  BY <1>1, TokenAt
<1>4. t.on \in Symbols
  BY <1>1, <1>3, TokenShape
<1>5. memory \in [Symbols -> Memory] /\ Covers(kind, reassigned, N[pc], memory, inspected)
  BY <1>1 DEF MachineInv
<1>6. o \in {"good", "bad"}
  BY DEF Outcomes
<1>8. memory' \in [Symbols -> Memory] /\ memory'[t.on] = o /\ \A s \in Symbols \ {t.on} : memory'[s] = memory[s]
  BY <1>2, <1>4, <1>5, <1>6 DEF Memory
<1>9. Sets(kind, reassigned, N[pc], N[pc + 1], t.on, "set")
  BY <1>1, <1>3 DEF StepSound
<1>10. Covers(kind, reassigned, N[pc + 1], memory', inspected \ {t.on})
  BY <1>5, <1>6, <1>8, <1>9, SetsCovers DEF Symbols
<1> QED
  BY <1>1, <1>3, <1>8, <1>10 DEF MachineInv, Symbols

\* A read meets the variant that was proved, unless the result is excepted.
LEMMA ReadFollows ==
    ASSUME NEW N, Accepted(N), MachineInv(N), RunRead
    PROVE  MachineInv(N)'
<1>1. /\ phase = "run" /\ pc \in 1..Len(program) /\ program[pc].op \in {"read", "value", "error"}
      /\ phase' = IF WrongTag THEN "trapped" ELSE phase
      /\ pc' = IF WrongTag THEN pc ELSE pc + 1
      /\ UNCHANGED <<kind, program, reassigned, dropped, memory, inspected>>
  BY DEF RunRead, Executes, checking, MachineInv, token, Accepted, Certified
<1> DEFINE t == program[pc]
<1>2. /\ t \in Tokens(Symbols) /\ StepSound(kind, reassigned, t, N[pc], N[pc + 1])
      /\ pc + 1 \in 1..(Len(program) + 1)
  BY <1>1, TokenAt
<1>3. t.on \in Symbols
  BY <1>1, <1>2, TokenShape
<1>4. memory \in [Symbols -> Memory] /\ Covers(kind, reassigned, N[pc], memory, inspected)
  BY <1>1 DEF MachineInv
<1>5. CoversAt(kind, reassigned, N[pc], memory, inspected, t.on)
  BY <1>3, <1>4 DEF Covers, Symbols
<1>6. CASE WrongTag
  <2>1. \/ t.op = "value" /\ memory[t.on] # "good"
        \/ t.op = "error" /\ memory[t.on] # "bad"
    BY <1>6 DEF WrongTag, token
  <2>2. t.on \in reassigned
    BY <1>2, <1>5, <2>1 DEF StepSound, CoversAt, Shows
  <2> QED
    BY <1>1, <1>4, <1>6, <2>2 DEF MachineInv, Symbols
<1>7. CASE ~WrongTag
  <2>1. Plain(kind, reassigned, N[pc], N[pc + 1])
    BY <1>1, <1>2 DEF StepSound
  <2>2. Covers(kind, reassigned, N[pc + 1], memory, inspected)
    BY <1>4, <2>1, PlainCovers
  <2> QED
    BY <1>1, <1>2, <1>4, <1>7, <2>2 DEF MachineInv, Symbols
<1> QED
  BY <1>6, <1>7

\* A match.
LEMMA MatchFollows ==
    ASSUME NEW N, Accepted(N), MachineInv(N), RunMatch
    PROVE  MachineInv(N)'
<1>1. /\ phase = "run" /\ pc \in 1..Len(program) /\ program[pc].op = "match"
      /\ phase' = phase /\ pc' = pc + 1 /\ inspected' = inspected \cup {program[pc].on}
      /\ UNCHANGED <<kind, program, reassigned, dropped, memory>>
  BY DEF RunMatch, Executes, checking, MachineInv, token, Accepted, Certified
<1> DEFINE t == program[pc]
<1>2. /\ t \in Tokens(Symbols) /\ StepSound(kind, reassigned, t, N[pc], N[pc + 1])
      /\ pc + 1 \in 1..(Len(program) + 1)
  BY <1>1, TokenAt
<1>3. t.on \in Symbols
  BY <1>1, <1>2, TokenShape
<1>4. memory \in [Symbols -> Memory] /\ Covers(kind, reassigned, N[pc], memory, inspected)
  BY <1>1 DEF MachineInv
<1>5. N[pc].init[t.on] = "set" /\ Matches(kind, reassigned, N[pc], N[pc + 1], t.on)
  BY <1>1, <1>2 DEF StepSound
<1>6. Covers(kind, reassigned, N[pc + 1], memory, inspected \cup {t.on})
  BY <1>3, <1>4, <1>5, MatchesCovers DEF Symbols
<1> QED
  BY <1>1, <1>2, <1>4, <1>6 DEF MachineInv, Symbols

\* Tokens that leave the bindings alone: blocks and deferred calls.
LEMMA PlainFollows ==
    ASSUME NEW N, Accepted(N), MachineInv(N), RunBlock \/ RunDefer
    PROVE  MachineInv(N)'
<1>1. /\ phase = "run" /\ pc \in 1..Len(program) /\ program[pc].op \in {"block", "defer"}
      /\ (phase' = phase /\ pc' = pc + 1) \/ phase' = "aborted"
      /\ UNCHANGED <<kind, program, reassigned, dropped, memory, inspected>>
  BY DEF RunBlock, RunDefer, Executes, checking, MachineInv, token, Accepted, Certified
<1>2. /\ StepSound(kind, reassigned, program[pc], N[pc], N[pc + 1])
      /\ pc + 1 \in 1..(Len(program) + 1)
  BY <1>1, TokenAt
<1>3. memory \in [Symbols -> Memory] /\ Covers(kind, reassigned, N[pc], memory, inspected)
  BY <1>1 DEF MachineInv
<1>4. Plain(kind, reassigned, N[pc], N[pc + 1])
  BY <1>1, <1>2 DEF StepSound
<1>5. Covers(kind, reassigned, N[pc + 1], memory, inspected)
  BY <1>3, <1>4, PlainCovers
<1> QED
  BY <1>1, <1>2, <1>3, <1>5 DEF MachineInv, Symbols

\* The values a condition may have agree with the outcome of its symbol.
LEMMA ConditionHolds ==
    ASSUME NEW N, Accepted(N), MachineInv(N), phase = "run", pc \in 1..Len(program),
           program[pc].op \in {"if"} \cup Loops, NEW value \in Values,
           NEW g, NEW w, NEW left, Tests(kind, reassigned, N[pc], g, program[pc], value, left),
           Forgets(kind, memory, w, left),
           Inspects
    PROVE  Covers(kind, reassigned, g, w, inspected')
<1> DEFINE t == program[pc]
<1>1. /\ t \in Tokens(Symbols) /\ StepSound(kind, reassigned, t, N[pc], N[pc + 1])
  BY TokenAt
<1>2. t.on \in Symbols \cup {None} /\ t.holds \in BOOLEAN
  BY <1>1, TokenShape
<1>3. t.on # None => N[pc].init[t.on] = "set"
  BY <1>1 DEF StepSound
<1>4. Covers(kind, reassigned, N[pc], memory, inspected)
  BY DEF MachineInv
<1>5. None \notin Symbols
  BY DEF Accepted, Kinds
<1>6. value \in BOOLEAN /\ (t.on # None => value = ((memory[t.on] = "bad") = t.holds))
  BY DEF Values, token
<1>12. t.on \in Symbols => memory[t.on] \in {"good", "bad"}
  BY <1>3, <1>4, <1>5 DEF Covers, CoversAt, Symbols
<1>13. t.on # None => /\ value = TRUE => ((memory[t.on] = "bad") <=> t.holds)
                      /\ value = FALSE => ~((memory[t.on] = "bad") <=> t.holds)
  BY <1>6, <1>2
<1>14. t.on \in Symbols => memory[t.on] = Shows(Finds(t, value))
  <2> SUFFICES ASSUME t.on \in Symbols PROVE memory[t.on] = Shows(Finds(t, value))
    OBVIOUS
  <2>1. CASE t.holds = value
    BY <1>2, <1>5, <1>6, <1>12, <1>13, <2>1 DEF Shows, Finds
  <2>2. CASE t.holds # value
    BY <1>2, <1>5, <1>6, <1>12, <1>13, <2>2 DEF Shows, Finds
  <2> QED
    BY <2>1, <2>2
<1>10. Found(kind, N[pc], memory, t, value)
  BY <1>3, <1>5, <1>14 DEF Symbols, Found
<1>11. Tests(kind, reassigned, N[pc], g, t, value, left)
  OBVIOUS
<1> HIDE DEF t
<1>7. Covers(kind, reassigned, g, w, inspected \cup {t.on})
  BY <1>4, <1>10, <1>11, TestsCovers
<1> USE DEF t
<1>8. CASE t.on = None
  <2>1. inspected' = inspected
    BY <1>8 DEF Inspects, token
  <2>2. \A s \in Symbols : s \in inspected \cup {t.on} => s \in inspected
    BY <1>5, <1>8
  <2>3. \A s \in Symbols : CoversAt(kind, reassigned, g, w, inspected, s)
    BY <1>7, <2>2 DEF Covers, CoversAt, Symbols
  <2> QED
    BY <1>7, <2>1, <2>3 DEF Covers, Symbols
<1>9. CASE t.on # None
  BY <1>7, <1>9 DEF Inspects, token
<1> QED
  BY <1>8, <1>9

\* An if goes where its condition leads.
LEMMA IfFollows ==
    ASSUME NEW N, Accepted(N), MachineInv(N), RunIf
    PROVE  MachineInv(N)'
<1>1. /\ phase = "run" /\ pc \in 1..Len(program) /\ program[pc].op = "if" /\ phase' = phase
      /\ UNCHANGED <<kind, program, reassigned, dropped, memory>> /\ Inspects
  BY DEF RunIf, Executes, checking, MachineInv, token, Accepted, Certified
<1>2. PICK value \in Values :
           pc' = IF value THEN pc + 1
                 ELSE IF Parts("else", pc) # {} THEN (CHOOSE i \in Parts("else", pc) : TRUE) + 1
                 ELSE EndOf(pc) + 1
  BY DEF RunIf
<1>3. /\ StepSound(kind, reassigned, program[pc], N[pc], N[pc + 1])
      /\ pc + 1 \in 1..(Len(program) + 1) /\ pc \in Nat /\ Len(program) \in Nat
  BY <1>1, TokenAt
<1>4. memory \in [Symbols -> Memory] /\ value \in BOOLEAN
  BY <1>1 DEF MachineInv, Values
<1>7. value = TRUE \/ value = FALSE
  BY <1>4
<1>5. pc' \in 1..(Len(program) + 1) /\ Tests(kind, reassigned, N[pc], N[pc'], program[pc], value, {})
  <2>1. CASE value = TRUE
    BY <1>1, <1>2, <1>3, <2>1 DEF StepSound
  <2>2. CASE value = FALSE /\ Parts("else", pc) # {}
    <3> DEFINE e == CHOOSE i \in Parts("else", pc) : TRUE
    <3>1. e \in Parts("else", pc)
      BY <2>2
    <3>2. e \in 1..Len(program) /\ program[e].op = "else" /\ program[e].of = pc
      BY <3>1 DEF Parts
    <3>3. pc' = e + 1
      BY <1>2, <2>2
    <3> HIDE DEF e
    <3>4. TokenSound(kind, reassigned, program, N, e) /\ e + 1 \in 1..(Len(program) + 1)
      BY <3>2, TokenAt
    <3>5. Tests(kind, reassigned, N[pc], N[e + 1], program[pc], FALSE, {})
      BY <3>2, <3>4 DEF TokenSound, JoinSound, Closes
    <3> QED
      BY <2>2, <3>3, <3>4, <3>5
  <2>3. CASE value = FALSE /\ Parts("else", pc) = {}
    <3>1. pc' = EndOf(pc) + 1
      BY <1>2, <2>3
    <3>2. /\ EndOf(pc) \in 1..Len(program) /\ program[EndOf(pc)].op = "end"
          /\ JoinSound(kind, reassigned, program[EndOf(pc)], program[pc], N[pc], N[EndOf(pc) + 1],
                        Elses(program, pc) # {})
      BY <1>1, EndAt DEF Openers
    <3>3. Elses(program, pc) = {}
      BY <2>3 DEF Elses, Parts
    <3>4. Tests(kind, reassigned, N[pc], N[EndOf(pc) + 1], program[pc], FALSE, {})
      BY <1>1, <3>2, <3>3 DEF JoinSound
    <3> QED
      <4>1. pc' \in 1..(Len(program) + 1)
        BY <1>3, <3>1, <3>2
      <4> QED
        BY <2>3, <3>1, <3>4, <4>1
  <2> QED
    BY <1>7, <2>1, <2>2, <2>3
<1>8. Forgets(kind, memory, memory, {})
  BY DEF Forgets
<1>6. Covers(kind, reassigned, N[pc'], memory, inspected')
  BY <1>1, <1>5, <1>8, ConditionHolds
<1> QED
  BY <1>1, <1>4, <1>5, <1>6 DEF MachineInv, Symbols

\* A loop is entered, or left with its header.
LEMMA LoopFollows ==
    ASSUME NEW N, Accepted(N), MachineInv(N), RunLoop
    PROVE  MachineInv(N)'
<1>1. /\ phase = "run" /\ pc \in 1..Len(program) /\ program[pc].op \in Loops /\ phase' = phase
      /\ UNCHANGED <<kind, program, reassigned>> /\ Inspects
  BY DEF RunLoop, Executes, checking, MachineInv, token, Accepted, Certified, Loops
<1> DEFINE t == program[pc]
<1>2. PICK value \in Values :
        \/ value /\ pc' = pc + 1 /\ UNCHANGED <<memory, dropped>>
        \/ /\ ~value
           /\ pc' = EndOf(pc) + 1
           /\ memory' = Forget(memory, t.header)
           /\ dropped' = dropped \cup (Unseen(t.header) \ {t.on})
  BY DEF RunLoop, token
<1>3. /\ t \in Tokens(Symbols) /\ StepSound(kind, reassigned, t, N[pc], N[pc + 1])
      /\ pc + 1 \in 1..(Len(program) + 1) /\ pc \in Nat /\ Len(program) \in Nat
  BY <1>1, TokenAt
<1>4. /\ memory \in [Symbols -> Memory] /\ dropped \subseteq reassigned
      /\ Covers(kind, reassigned, N[pc], memory, inspected)
  BY <1>1 DEF MachineInv
<1>5. t.header \subseteq Symbols /\ value \in BOOLEAN
  BY <1>1, <1>3, TokenShape DEF Values
<1>8. Forgets(kind, memory, memory, {})
  BY DEF Forgets
<1>6. CASE value /\ pc' = pc + 1 /\ UNCHANGED <<memory, dropped>>
  <2>1. Tests(kind, reassigned, N[pc], N[pc + 1], t, TRUE, {})
    BY <1>1, <1>3 DEF StepSound
  <2>2. Covers(kind, reassigned, N[pc + 1], memory, inspected')
    <3>1. value = TRUE
      BY <1>5, <1>6
    <3> QED
      BY <1>1, <1>8, <2>1, <3>1, ConditionHolds
  <2> QED
    BY <1>1, <1>3, <1>4, <1>6, <2>2 DEF MachineInv, Symbols
<1>7. CASE /\ ~value
           /\ pc' = EndOf(pc) + 1
           /\ memory' = Forget(memory, t.header)
           /\ dropped' = dropped \cup (Unseen(t.header) \ {t.on})
  <2>1. /\ EndOf(pc) \in 1..Len(program) /\ program[EndOf(pc)].op = "end"
        /\ JoinSound(kind, reassigned, program[EndOf(pc)], t, N[pc], N[EndOf(pc) + 1],
                        Elses(program, pc) # {})
    BY <1>1, EndAt DEF Openers
  <2>2. /\ Tests(kind, reassigned, N[pc], N[EndOf(pc) + 1], t, FALSE, t.header)
        /\ N[pc].reaches => Handles(kind, N[pc], t.header \ {t.on})
    BY <1>1, <2>1 DEF JoinSound
  <2>3. memory' \in [Symbols -> Memory] /\ Forgets(kind, memory, memory', t.header)
    BY <1>4, <1>7 DEF Forget, Memory, Forgets, Symbols
  <2>4. Covers(kind, reassigned, N[EndOf(pc) + 1], memory', inspected')
    <3>1. value = FALSE
      BY <1>5, <1>7
    <3> QED
      BY <1>1, <2>2, <2>3, <3>1, ConditionHolds
  <2>5. Unseen(t.header) \ {t.on} \subseteq reassigned
    <3> SUFFICES ASSUME NEW s \in t.header \ {t.on}, s \in Results, s \notin inspected
                 PROVE  s \in reassigned
      BY DEF Unseen
    <3>1. s \in N[pc].handled /\ s \in Symbols
      BY <1>4, <1>5, <2>2 DEF Handles, Covers, Results
    <3>2. CoversAt(kind, reassigned, N[pc], memory, inspected, s)
      BY <1>4, <3>1 DEF Covers, Symbols
    <3> QED
      BY <3>1, <3>2 DEF CoversAt
  <2>6. EndOf(pc) + 1 \in 1..(Len(program) + 1)
    BY <1>3, <2>1
  <2> QED
    BY <1>1, <1>4, <1>7, <2>3, <2>4, <2>5, <2>6 DEF MachineInv, Symbols
<1> QED
  BY <1>2, <1>6, <1>7

\* A switch takes one of its arms, or none where it may.
LEMMA SwitchFollows ==
    ASSUME NEW N, Accepted(N), MachineInv(N), RunSwitch
    PROVE  MachineInv(N)'
<1>1. /\ phase = "run" /\ pc \in 1..Len(program) /\ program[pc].op = "switch" /\ phase' = phase
      /\ UNCHANGED <<kind, program, reassigned, dropped, memory, inspected>>
  BY DEF RunSwitch, Executes, checking, MachineInv, token, Accepted, Certified
<1>2. /\ StepSound(kind, reassigned, program[pc], N[pc], N[pc + 1])
      /\ pc + 1 \in 1..(Len(program) + 1) /\ Len(program) \in Nat
  BY <1>1, TokenAt
<1>3. /\ memory \in [Symbols -> Memory] /\ dropped \subseteq reassigned
      /\ Covers(kind, reassigned, N[pc], memory, inspected)
  BY <1>1 DEF MachineInv
<1>4. pc' \in 1..(Len(program) + 1) /\ Plain(kind, reassigned, N[pc], N[pc'])
  <2>1. CASE pc' = pc + 1
    BY <1>1, <1>2, <2>1 DEF StepSound
  <2>2. CASE \E i \in Parts("arm", pc) : pc' = i + 1
    <3>1. PICK i \in 1..Len(program) : program[i].op = "arm" /\ program[i].of = pc /\ pc' = i + 1
      BY <2>2 DEF Parts
    <3>2. TokenSound(kind, reassigned, program, N, i) /\ i + 1 \in 1..(Len(program) + 1)
      BY <3>1, TokenAt
    <3> QED
      BY <3>1, <3>2 DEF TokenSound, JoinSound, Closes
  <2>3. CASE ~program[pc].exhaustive /\ pc' = EndOf(pc) + 1
    <3>1. /\ EndOf(pc) \in 1..Len(program) /\ program[EndOf(pc)].op = "end"
          /\ JoinSound(kind, reassigned, program[EndOf(pc)], program[pc], N[pc], N[EndOf(pc) + 1],
                        Elses(program, pc) # {})
      BY <1>1, EndAt DEF Openers
    <3>2. Plain(kind, reassigned, N[pc], N[EndOf(pc) + 1])
      BY <1>1, <2>3, <3>1 DEF JoinSound
    <3> QED
      BY <1>2, <2>3, <3>1, <3>2
  <2> QED
    BY <2>1, <2>2, <2>3 DEF RunSwitch, token
<1>5. Covers(kind, reassigned, N[pc'], memory, inspected)
  BY <1>3, <1>4, PlainCovers
<1> QED
  BY <1>1, <1>3, <1>4, <1>5 DEF MachineInv, Symbols

\* A branch ends: a round goes back to its condition, another branch goes on
\* behind the statement.
LEMMA CloseFollows ==
    ASSUME NEW N, Accepted(N), MachineInv(N), RunClose
    PROVE  MachineInv(N)'
<1> DEFINE t == program[pc]
           o == t.of
           left == Forget(memory, t.locals)
<1>1. /\ phase = "run" /\ pc \in 1..Len(program) /\ program[pc].op \in Closes /\ phase' = phase
      /\ UNCHANGED <<kind, program, reassigned>>
  BY DEF RunClose, Executes, checking, MachineInv, token, Accepted, Certified
<1>2. /\ pc' = IF program[o].op \in Loops THEN o ELSE EndOf(o) + 1
      /\ dropped' = dropped \cup Unseen(t.locals)
      /\ t.on = None => memory' = left /\ inspected' = inspected
      /\ t.on # None => \E outcome \in Outcomes(t.on) : memory' = [left EXCEPT ![t.on] = outcome]
      /\ t.on # None => inspected' = inspected \ {t.on}
  BY DEF RunClose, token, Loops
<1>3. /\ t \in Tokens(Symbols) /\ TokenSound(kind, reassigned, program, N, pc)
      /\ pc \in Nat /\ Len(program) \in Nat
  BY <1>1, TokenAt
<1>4. /\ memory \in [Symbols -> Memory] /\ dropped \subseteq reassigned
      /\ Covers(kind, reassigned, N[pc], memory, inspected) /\ N[pc].reaches
  BY <1>1 DEF MachineInv, Covers
<1>5. t.locals \subseteq Symbols /\ t.on \in Symbols \cup {None} /\ None \notin Symbols
  BY <1>1, <1>3, TokenShape DEF Accepted, Kinds
<1>6. o \in 1..(pc - 1) /\ CloseSound(kind, reassigned, t, program[o], N[pc], N[o])
  BY <1>1, <1>3 DEF TokenSound
<1> HIDE DEF o, t
<1>7. o \in 1..Len(program) /\ program[o].op \in Openers
  BY <1>1, <1>3, <1>6 DEF CloseSound
<1>8. left \in [Symbols -> Memory] /\ \A s \in Symbols : left[s] = IF s \in t.locals THEN "out" ELSE memory[s]
  BY <1>4 DEF Forget, Memory
<1>9. Unseen(t.locals) \subseteq reassigned
  <2> SUFFICES ASSUME NEW s \in t.locals, s \in Results, s \notin inspected
               PROVE  s \in reassigned
    BY DEF Unseen
  <2>1. s \in N[pc].handled /\ s \in Symbols
    BY <1>4, <1>5, <1>6 DEF Handles, CloseSound, Results
  <2>2. CoversAt(kind, reassigned, N[pc], memory, inspected, s)
    BY <1>4, <2>1 DEF Covers, Symbols
  <2> QED
    BY <2>1, <2>2 DEF CoversAt
<1> HIDE DEF left
<1>10. memory' \in [Symbols -> Memory]
  <2>1. CASE t.on = None
    BY <1>2, <1>8, <2>1
  <2>2. CASE t.on # None
    <3>1. PICK outcome \in Outcomes(t.on) : memory' = [left EXCEPT ![t.on] = outcome]
      BY <1>2, <2>2
    <3>2. outcome \in Memory
      BY DEF Outcomes, Memory
    <3> QED
      BY <1>8, <3>1, <3>2
  <2> QED
    BY <2>1, <2>2
<1>11. CASE program[o].op \in Loops
  <2>1. /\ Back(kind, reassigned, N[pc], N[o], t.locals, t.on)
        /\ t.on # None => t.on \notin t.locals
    BY <1>4, <1>6, <1>11 DEF CloseSound
  <2>2. \A s \in Symbols \ {t.on} :
            memory'[s] = (IF s \in t.locals THEN "out" ELSE memory[s]) /\ (s \in inspected => s \in inspected')
    BY <1>2, <1>8
  <2>3. t.on \in Symbols => memory'[t.on] \in {"good", "bad"} /\ t.on \notin t.locals
    <3> SUFFICES ASSUME t.on \in Symbols
                 PROVE  memory'[t.on] \in {"good", "bad"} /\ t.on \notin t.locals
      OBVIOUS
    <3>1. PICK outcome \in Outcomes(t.on) : memory' = [left EXCEPT ![t.on] = outcome]
      BY <1>2, <1>5
    <3> QED
      BY <1>5, <1>8, <2>1, <3>1 DEF Outcomes
  <2>4. Covers(kind, reassigned, N[o], memory', inspected')
    BY <1>4, <2>1, <2>2, <2>3, BackCovers DEF Symbols
  <2> QED
    BY <1>1, <1>2, <1>3, <1>4, <1>7, <1>9, <1>10, <1>11, <2>4 DEF MachineInv, Symbols
<1>12. CASE program[o].op \notin Loops
  <2>1. t.on = None
    BY <1>6, <1>12 DEF CloseSound
  <2>2. /\ EndOf(o) \in Ends(program) /\ EndOf(o) \in 1..Len(program) /\ program[EndOf(o)].of = o
    BY <1>7, EndAt
  <2>3. pc \in Closers(program)
    BY <1>1 DEF Closers
  <2>4. Leaves(kind, reassigned, N[pc], N[EndOf(o) + 1], t.locals)
    BY <1>12, <2>2, <2>3 DEF Accepted, Certified, BranchSound, o, t
  <2>5. Covers(kind, reassigned, N[EndOf(o) + 1], left, inspected)
    BY <1>4, <1>8, <2>4, LeavesCovers DEF Symbols, Forgets
  <2>6. EndOf(o) + 1 \in 1..(Len(program) + 1)
    BY <1>3, <2>2
  <2> QED
    BY <1>1, <1>2, <1>4, <1>9, <1>10, <1>12, <2>1, <2>5, <2>6 DEF MachineInv, Symbols
<1> QED
  BY <1>11, <1>12

\* Whatever is still in scope at a return was looked at.
LEMMA ReturnFollows ==
    ASSUME NEW N, Accepted(N), MachineInv(N), RunReturn
    PROVE  MachineInv(N)'
<1>1. /\ phase = "run" /\ phase' \in {"returned", "drain"}
      /\ pc <= Len(program) => program[pc].op = "return"
      /\ dropped' = dropped \cup Unseen(Symbols)
      /\ UNCHANGED <<kind, program, reassigned, memory>>
  BY DEF RunReturn, checking, token
<1>2. /\ memory \in [Symbols -> Memory] /\ dropped \subseteq reassigned
      /\ pc \in 1..(Len(program) + 1) /\ Covers(kind, reassigned, N[pc], memory, inspected)
  BY <1>1 DEF MachineInv
<1>3. Len(program) \in Nat
  BY DEF Accepted, Certified
<1>4. \A s \in Symbols : kind[s].result => N[pc].init[s] = "out" \/ s \in N[pc].handled
  <2>1. CASE pc <= Len(program)
    <3>1. StepSound(kind, reassigned, program[pc], N[pc], N[pc + 1])
      BY <1>2, <1>3, <2>1, TokenAt
    <3> QED
      BY <1>1, <2>1, <3>1 DEF StepSound, Symbols
  <2>2. CASE pc = Len(program) + 1
    BY <1>2, <2>2 DEF Accepted, Finished, Covers, Symbols
  <2> QED
    BY <1>2, <1>3, <2>1, <2>2
<1>5. Unseen(Symbols) \subseteq reassigned
  <2> SUFFICES ASSUME NEW s \in Symbols, kind[s].result, memory[s] \in {"good", "bad"}, s \notin inspected
               PROVE  s \in reassigned
    BY DEF Unseen, Results
  <2>1. CoversAt(kind, reassigned, N[pc], memory, inspected, s)
    BY <1>2 DEF Covers, Symbols
  <2> QED
    BY <1>4, <2>1 DEF CoversAt
<1> QED
  BY <1>1, <1>2, <1>5 DEF MachineInv, Symbols

\* The whole execution.
LEMMA RunFollows ==
    ASSUME NEW N, Accepted(N), MachineInv(N), Run
    PROVE  MachineInv(N)' /\ phase # "check" /\ phase' # "check"
             /\ UNCHANGED <<kind, void, program, reassigned>>
<1>1. phase \in {"run", "drain"} /\ phase' # "check" /\ UNCHANGED <<kind, void, program, reassigned>>
  BY DEF Run, RunDefine, RunAssign, RunRead, RunMatch, RunBlock, RunIf, RunLoop, RunSwitch, RunClose,
         RunDefer, RunReturn, Drain, Drained, Executes, checking
<1>2. Drain \/ Drained => MachineInv(N)'
  <2> SUFFICES ASSUME Drain \/ Drained PROVE MachineInv(N)'
    OBVIOUS
  <2>1. phase' \in {"drain", "aborted", "returned"} /\ UNCHANGED <<kind, program, reassigned, memory, dropped>>
    BY DEF Drain, Drained, checking
  <2> QED
    BY <2>1 DEF MachineInv, Symbols
<1> QED
  BY <1>1, <1>2, DefineFollows, AssignFollows, ReadFollows, MatchFollows, PlainFollows, IfFollows,
     LoopFollows, SwitchFollows, CloseFollows, ReturnFollows DEF Run

\* What the notes say of a token is what the properties ask of an execution.
LEMMA MachineIsSound ==
    ASSUME NEW N, Accepted(N), MachineInv(N), phase # "check"
    PROVE  BindingsSound /\ AlwaysReturns /\ ResultsSound
<1>1. Len(program) \in Nat
  BY DEF Accepted, Certified
<1>2. AlwaysReturns
  BY <1>1 DEF AlwaysReturns, MachineInv, Accepted, Finished, Covers
<1>3. ResultsSound
  BY DEF MachineInv, ResultsSound, ProofsHold, ResultsHandled, token
<1>4. ASSUME phase = "run", pc <= Len(program), token.on # None
      PROVE  /\ token.op \in {"read", "value", "error", "match", "if", "while", "for", "defer"}
                  => memory[token.on] \in {"good", "bad"}
             /\ token.op \in {"set", "end"} /\ ~kind[token.on].mutable => memory[token.on] = "unset"
  <2> DEFINE t == program[pc]
  <2>1. pc \in 1..Len(program) /\ Covers(kind, reassigned, N[pc], memory, inspected)
    BY <1>1, <1>4 DEF MachineInv
  <2>2. /\ t \in Tokens(Symbols) /\ TokenSound(kind, reassigned, program, N, pc)
        /\ StepSound(kind, reassigned, t, N[pc], N[pc + 1])
    BY <2>1, TokenAt
  <2>3. t.on \in Symbols
    BY <1>4, <2>2, TokenShape DEF token
  <2>4. N[pc].reaches /\ CoversAt(kind, reassigned, N[pc], memory, inspected, t.on)
    BY <2>1, <2>3 DEF Covers, Symbols
  <2>5. t.op \in {"read", "value", "error", "match", "if", "while", "for", "defer"} => N[pc].init[t.on] = "set"
    BY <1>4, <2>2 DEF StepSound, Loops, token
  <2>6. t.op \in {"set", "end"} /\ ~kind[t.on].mutable => N[pc].init[t.on] = "unset"
    <3>1. t.op = "set" => kind[t.on].mutable \/ N[pc].init[t.on] = "unset"
      BY <2>2 DEF StepSound
    <3>2. t.op = "end" => CloseSound(kind, reassigned, t, program[t.of], N[pc], N[t.of])
      BY <2>2 DEF TokenSound, Closes
    <3>3. t.op = "end" => kind[t.on].mutable \/ N[pc].init[t.on] = "unset"
      BY <1>4, <2>4, <3>2 DEF CloseSound, token
    <3> QED
      BY <3>1, <3>3
  <2>7. /\ t.op \in {"read", "value", "error", "match", "if", "while", "for", "defer"}
              => memory[t.on] \in {"good", "bad"}
        /\ t.op \in {"set", "end"} /\ ~kind[t.on].mutable => memory[t.on] = "unset"
    BY <2>4, <2>5, <2>6 DEF CoversAt
  <2> QED
    BY <2>7 DEF token
<1>5. BindingsSound
  BY <1>4 DEF BindingsSound, ReadsInitialized, AssignedOnce, Executes
<1> QED
  BY <1>2, <1>3, <1>5

-----------------------------------------------------------------------------
(* Notes and frames.                                                       *)

\* What a note is made of.
LEMMA NoteIs ==
    ASSUME NEW kd, NEW f \in FlowSet(kd), NEW F, NEW k
    PROVE  /\ Note(f, F, k) \in NoteSet(kd)
           /\ Note(f, F, k).init = f.init /\ Note(f, F, k).handled = f.handled
           /\ (Note(f, F, k).reaches <=> f.reaches)
           /\ \A s \in DOMAIN kd : \A v : v \in Note(f, F, k).facts[s] <=>
                  v \in Known /\ (f.proof[s] = v \/ Lasts(F, k, s, v))
<1>1. /\ f.init \in [DOMAIN kd -> {"out", "unset", "maybe", "set"}] /\ f.handled \in SUBSET DOMAIN kd
      /\ f.reaches \in BOOLEAN /\ DOMAIN f.proof = DOMAIN kd
  BY DEF FlowSet
<1> DEFINE facts == [s \in DOMAIN f.proof |-> {v \in Known : f.proof[s] = v \/ Lasts(F, k, s, v)}]
<1>2. facts \in [DOMAIN kd -> SUBSET Known]
  BY <1>1
<1>3. \A s \in DOMAIN kd : \A v : v \in facts[s] <=> v \in Known /\ (f.proof[s] = v \/ Lasts(F, k, s, v))
  BY <1>1
<1>4. Note(f, F, k) = [init |-> f.init, handled |-> f.handled, reaches |-> f.reaches, facts |-> facts]
  BY DEF Note
<1> HIDE DEF facts
<1> QED
  BY <1>1, <1>2, <1>3, <1>4 DEF NoteSet

\* One more open statement.
LEMMA LastsNext ==
    ASSUME NEW F, NEW k \in Nat \ {0}, NEW s, NEW v
    PROVE  Lasts(F, k + 1, s, v) <=> Lasts(F, k, s, v) \/ (F[k].op \in Loops /\ F[k].before.proof[s] = v)
<1>1. \A j : j \in 1..(k + 1 - 1) <=> j \in 1..(k - 1) \/ j = k
  OBVIOUS
<1> QED
  BY <1>1 DEF Lasts

\* The first k frames of F and G are alike, but for the locals of the last.
Alike(F, G, k) ==
    \A j \in 1..k :
        /\ G[j].op = F[j].op /\ G[j].start = F[j].start /\ G[j].cond = F[j].cond
        /\ G[j].before = F[j].before /\ G[j].merged = F[j].merged
        /\ G[j].depth = F[j].depth /\ G[j].header = F[j].header
        /\ j < k => G[j].locals = F[j].locals

\* Alike frames remember the same proofs of the loops around (result_proof at their start).
LEMMA LastsAlike ==
    ASSUME NEW F, NEW G, NEW k \in Nat, Alike(F, G, k), NEW i \in 1..(k + 1), NEW s, NEW v
    PROVE  Lasts(G, i, s, v) <=> Lasts(F, i, s, v)
<1>1. \A j \in 1..(i - 1) : j \in 1..k
  OBVIOUS
<1> QED
  BY <1>1 DEF Lasts, Alike

\* So the notes behind alike frames are the same.
LEMMA NoteAlike ==
    ASSUME NEW F, NEW G, NEW k \in Nat, Alike(F, G, k), NEW i \in 1..(k + 1), NEW f
    PROVE  Note(f, G, i) = Note(f, F, i)
<1>1. \A s, v : Lasts(G, i, s, v) <=> Lasts(F, i, s, v)
  BY LastsAlike
<1> QED
  BY <1>1 DEF Note

\* More excepted results, and other symbols born.
LEMMA LaterStays ==
    ASSUME NEW kd, NEW R, NEW S, R \subseteq S, NEW b, NEW c, NEW depth, NEW f, NEW g,
           Later(kd, R, b, depth, f, g), \A s \in LiveIn(kd, f) : c[s] = b[s]
    PROVE  Later(kd, S, c, depth, f, g)
BY DEF Later

\* A frame only depends on what is alike.
LEMMA FrameAlike ==
    ASSUME NEW kd, NEW R, NEW p, NEW N, NEW F, NEW G, NEW b, NEW m \in Nat, Alike(F, G, m),
           NEW k \in 2..m, FrameSound(kd, R, p, N, F, k, b)
    PROVE  FrameSound(kd, R, p, N, G, k, b)
<1>1. /\ G[k].op = F[k].op /\ G[k].start = F[k].start /\ G[k].cond = F[k].cond
      /\ G[k].before = F[k].before /\ G[k].merged = F[k].merged
      /\ G[k].depth = F[k].depth /\ G[k].header = F[k].header
      /\ G[k - 1].start = F[k - 1].start /\ G[k - 1].before = F[k - 1].before
      /\ G[k - 1].depth = F[k - 1].depth /\ G[k - 1].locals = F[k - 1].locals
  BY DEF Alike
<1>2. \A f : Note(f, G, k) = Note(f, F, k)
  BY NoteAlike
<1>3. Begun(p, N, G, k)
  BY <1>1, <1>2, SMTT(30) DEF FrameSound, Begun
<1>4. Merges(kd, R, p, N, G, k)
  BY <1>1, <1>2 DEF FrameSound, Merges
<1>5. Nested(kd, R, G, k, b)
  BY <1>1 DEF FrameSound, Nested
<1> QED
  BY <1>1, <1>3, <1>4, <1>5 DEF FrameSound

\* A frame stays sound when the program grows by a token that does not end one
\* of its branches.
LEMMA FrameGrows ==
    ASSUME NEW kd, NEW R, NEW S, R \subseteq S, NEW p, NEW N, NEW t, NEW n, NEW q, NEW M,
           Len(p) \in Nat, Grows(p, N, t, n, q, M), NEW F, NEW k, NEW b, NEW c,
           FrameSound(kd, R, p, N, F, k, b),
           \A s \in LiveIn(kd, F[k].before) : c[s] = b[s],
           t.op \in Closes => t.of # F[k].start
    PROVE  FrameSound(kd, S, q, M, F, k, c)
<1> DEFINE i == F[k].start
           m == Note(F[k].merged, F, k)
<1>1. Begun(p, N, F, k) /\ Merges(kd, R, p, N, F, k) /\ Nested(kd, R, F, k, b) /\ F[k].op # "body"
  BY DEF FrameSound
<1>2. i \in 1..Len(p) /\ q[i] = p[i] /\ M[i] = N[i] /\ i \in 1..Len(q)
  BY <1>1 DEF Begun, Grows
<1>3. Begun(q, M, F, k)
  BY <1>1, <1>2 DEF Begun
<1>4. \A j \in Closers(q) : q[j].of = i => j \in Closers(p) /\ q[j] = p[j] /\ M[j] = N[j]
  BY DEF Closers, Grows
<1>5. Elses(p, i) # {} => Elses(q, i) # {}
  BY DEF Elses, Grows
<1> HIDE DEF i, m
<1>6. Plain(kd, R, N[i], m) => Plain(kd, S, N[i], m)
  BY MoreExcepted
<1>7. \A j \in Closers(p) : Leaves(kd, R, N[j], m, p[j].locals) => Leaves(kd, S, N[j], m, p[j].locals)
  BY MoreExcepted
<1>8. Merges(kd, S, q, M, F, k)
  <2>1. /\ F[k].op \in {"block", "if"} \cup Loops => ~m.reaches
        /\ F[k].op = "else" => Elses(p, i) # {}
        /\ F[k].op = "switch" => p[i].exhaustive \/ Plain(kd, R, N[i], m)
        /\ \A j \in Closers(p) :
             p[j].of = i => /\ F[k].op \notin Loops /\ p[j].op # "end"
                            /\ Leaves(kd, R, N[j], m, p[j].locals)
    BY <1>1 DEF Merges, i, m
  <2>2. \A j \in Closers(q) :
             q[j].of = i => /\ F[k].op \notin Loops /\ q[j].op # "end"
                            /\ Leaves(kd, S, M[j], m, q[j].locals)
    BY <1>4, <1>7, <2>1
  <2> QED
    BY <1>2, <1>5, <1>6, <2>1, <2>2 DEF Merges, i, m
<1>9. Nested(kd, S, F, k, c)
  <2>1. Later(kd, S, c, F[k - 1].depth, F[k - 1].before, F[k].before)
    BY <1>1, LaterStays DEF Nested, Later
  <2>2. F[k].merged.reaches => Later(kd, S, c, F[k].depth, F[k].before, F[k].merged)
    BY <1>1, LaterStays DEF Nested
  <2> QED
    BY <1>1, <2>1, <2>2 DEF Nested
<1> QED
  BY <1>1, <1>3, <1>8, <1>9 DEF FrameSound

\* What is in scope in state f was born in c where it was in b.
Reborn(kd, f, b, c) == \A s \in LiveIn(kd, f) : c[s] = b[s]

\* Token t ends no branch of one of the first m statements.
Apart(t, F, m) == t.op \in Closes => \A k \in 2..m : t.of # F[k].start

\* The first m frames stay sound when the program grows by a token that does not
\* end one of their branches; the last of them may get new locals.
LEMMA FramesStay ==
    ASSUME NEW kd, NEW R, NEW S, R \subseteq S, NEW p, NEW N, NEW t, NEW n, NEW q, NEW M,
           Len(p) \in Nat, Grows(p, N, t, n, q, M), NEW F, NEW G, NEW b, NEW c,
           FramesSound(kd, R, p, N, F, b),
           G \in Seq(FrameSet(kd)), NEW m, m = Len(G), m \in 1..Len(F), Alike(F, G, m),
           c \in [DOMAIN kd -> Nat], Reborn(kd, F[m].before, b, c), Apart(t, F, m),
           G[m].locals \cap LiveIn(kd, G[m].before) = {}
    PROVE  FramesSound(kd, S, q, M, G, c)
<1>1. /\ F \in Seq(FrameSet(kd)) /\ Len(F) >= 1
      /\ F[1].op = "body" /\ F[1].start = 0 /\ F[1].depth = 0
      /\ LiveIn(kd, F[1].before) = {} /\ F[1].header = {}
      /\ \A k \in 2..Len(F) : FrameSound(kd, R, p, N, F, k, b)
      /\ \A k \in 1..Len(F) :
           /\ FlowSound(kd, F[k].before) /\ FlowSound(kd, F[k].merged)
           /\ F[k].locals \cap LiveIn(kd, F[k].before) = {}
      /\ \A i, k \in 1..Len(F) : i < k =>
           /\ F[i].start < F[k].start /\ F[i].depth <= F[k].depth
           /\ LiveIn(kd, F[i].before) \subseteq LiveIn(kd, F[k].before)
  BY DEF FramesSound
<1>2. m \in Nat /\ m \in 1..Len(F) /\ m >= 1 /\ \A k \in 1..m : k \in 1..Len(F)
  BY <1>1
<1>3. \A k \in 1..m :
        /\ G[k].op = F[k].op /\ G[k].start = F[k].start /\ G[k].cond = F[k].cond
        /\ G[k].before = F[k].before /\ G[k].merged = F[k].merged
        /\ G[k].depth = F[k].depth /\ G[k].header = F[k].header
        /\ k < m => G[k].locals = F[k].locals
  BY DEF Alike
<1>4. \A k \in 1..m : \A s \in LiveIn(kd, F[k].before) : c[s] = b[s]
  <2> SUFFICES ASSUME NEW k \in 1..m PROVE LiveIn(kd, F[k].before) \subseteq LiveIn(kd, F[m].before)
    BY DEF Reborn
  <2>1. CASE k = m
    BY <2>1
  <2>2. CASE k < m
    BY <1>1, <1>2, <2>2
  <2> QED
    BY <1>2, <2>1, <2>2
<1>5. ASSUME NEW k \in 2..m PROVE FrameSound(kd, S, q, M, G, k, c)
  <2>1. k \in 1..m /\ k \in 2..Len(F)
    BY <1>2
  <2>2. FrameSound(kd, R, p, N, F, k, b)
    BY <1>1, <2>1
  <2>3. t.op \in Closes => t.of # F[k].start
    BY <2>1 DEF Apart
  <2>4. FrameSound(kd, S, q, M, F, k, c)
    BY <1>4, <2>1, <2>2, <2>3, FrameGrows
  <2> QED
    BY <1>2, <2>4, FrameAlike
<1>6. \A k \in 1..m :
         /\ FlowSound(kd, G[k].before) /\ FlowSound(kd, G[k].merged)
         /\ G[k].locals \cap LiveIn(kd, G[k].before) = {}
  <2> SUFFICES ASSUME NEW k \in 1..m
               PROVE  /\ FlowSound(kd, G[k].before) /\ FlowSound(kd, G[k].merged)
                      /\ G[k].locals \cap LiveIn(kd, G[k].before) = {}
    OBVIOUS
  <2>1. /\ FlowSound(kd, F[k].before) /\ FlowSound(kd, F[k].merged)
        /\ F[k].locals \cap LiveIn(kd, F[k].before) = {}
    BY <1>1, <1>2
  <2>2. k = m \/ k < m
    BY <1>2
  <2> QED
    BY <1>3, <2>1, <2>2
<1>7. \A i, k \in 1..m : i < k =>
         /\ G[i].start < G[k].start /\ G[i].depth <= G[k].depth
         /\ LiveIn(kd, G[i].before) \subseteq LiveIn(kd, G[k].before)
  <2> SUFFICES ASSUME NEW i \in 1..m, NEW k \in 1..m, i < k
               PROVE  /\ G[i].start < G[k].start /\ G[i].depth <= G[k].depth
                      /\ LiveIn(kd, G[i].before) \subseteq LiveIn(kd, G[k].before)
    OBVIOUS
  <2>1. /\ F[i].start < F[k].start /\ F[i].depth <= F[k].depth
        /\ LiveIn(kd, F[i].before) \subseteq LiveIn(kd, F[k].before)
    BY <1>1, <1>2
  <2> QED
    BY <1>3, <2>1
<1>8. /\ G[1].op = "body" /\ G[1].start = 0 /\ G[1].depth = 0
      /\ LiveIn(kd, G[1].before) = {} /\ G[1].header = {}
  <2>1. 1 \in 1..m
    BY <1>2
  <2>2. /\ G[1].op = F[1].op /\ G[1].start = F[1].start /\ G[1].depth = F[1].depth
        /\ G[1].before = F[1].before /\ G[1].header = F[1].header
    BY <1>3, <2>1
  <2> QED
    BY <1>1, <2>2
<1> QED
  BY <1>2, <1>5, <1>6, <1>7, <1>8 DEF FramesSound

\* A frame more.
LEMMA FramesPush ==
    ASSUME NEW kd, NEW R, NEW p, NEW N, NEW G, NEW b, FramesSound(kd, R, p, N, G, b),
           NEW x \in FrameSet(kd), FrameSound(kd, R, p, N, Append(G, x), Len(G) + 1, b),
           FlowSound(kd, x.before), FlowSound(kd, x.merged), x.locals = {},
           G[Len(G)].start < x.start, G[Len(G)].depth <= x.depth,
           LiveIn(kd, G[Len(G)].before) \subseteq LiveIn(kd, x.before)
    PROVE  FramesSound(kd, R, p, N, Append(G, x), b)
<1> DEFINE H == Append(G, x)
           m == Len(G)
<1>1. /\ G \in Seq(FrameSet(kd)) /\ Len(G) >= 1 /\ b \in [DOMAIN kd -> Nat]
      /\ G[1].op = "body" /\ G[1].start = 0 /\ G[1].depth = 0
      /\ LiveIn(kd, G[1].before) = {} /\ G[1].header = {}
      /\ \A k \in 2..Len(G) : FrameSound(kd, R, p, N, G, k, b)
      /\ \A k \in 1..Len(G) :
           /\ FlowSound(kd, G[k].before) /\ FlowSound(kd, G[k].merged)
           /\ G[k].locals \cap LiveIn(kd, G[k].before) = {}
      /\ \A i, k \in 1..Len(G) : i < k =>
           /\ G[i].start < G[k].start /\ G[i].depth <= G[k].depth
           /\ LiveIn(kd, G[i].before) \subseteq LiveIn(kd, G[k].before)
  BY DEF FramesSound
<1>2. /\ H \in Seq(FrameSet(kd)) /\ Len(H) = m + 1 /\ m \in Nat /\ m >= 1
      /\ H[m + 1] = x /\ \A k \in 1..m : H[k] = G[k]
  BY <1>1
<1>3. FrameSound(kd, R, p, N, H, m + 1, b)
  OBVIOUS
<1>4. \A k \in 1..m : G[k] \in FrameSet(kd)
  BY <1>1
<1>5. G[m].start < x.start /\ G[m].depth <= x.depth /\ LiveIn(kd, G[m].before) \subseteq LiveIn(kd, x.before)
  OBVIOUS
<1> HIDE DEF H
<1>6. Alike(G, H, m)
  BY <1>2 DEF Alike
<1>7. \A k \in 2..m : FrameSound(kd, R, p, N, H, k, b)
  BY <1>1, <1>2, <1>6, FrameAlike
<1>8. \A k \in 2..Len(H) : FrameSound(kd, R, p, N, H, k, b)
  <2> SUFFICES ASSUME NEW k \in 2..Len(H) PROVE FrameSound(kd, R, p, N, H, k, b)
    OBVIOUS
  <2>1. k = m + 1 \/ k \in 2..m
    BY <1>2
  <2> QED
    BY <1>3, <1>7, <2>1
<1>9. \A k \in 1..Len(H) :
         /\ FlowSound(kd, H[k].before) /\ FlowSound(kd, H[k].merged)
         /\ H[k].locals \cap LiveIn(kd, H[k].before) = {}
  <2> SUFFICES ASSUME NEW k \in 1..Len(H)
               PROVE /\ FlowSound(kd, H[k].before) /\ FlowSound(kd, H[k].merged)
                     /\ H[k].locals \cap LiveIn(kd, H[k].before) = {}
    OBVIOUS
  <2>1. k = m + 1 \/ k \in 1..m
    BY <1>2
  <2> QED
    BY <1>1, <1>2, <2>1
<1>10. \A i, k \in 1..Len(H) : i < k =>
         /\ H[i].start < H[k].start /\ H[i].depth <= H[k].depth
         /\ LiveIn(kd, H[i].before) \subseteq LiveIn(kd, H[k].before)
  <2> SUFFICES ASSUME NEW i \in 1..Len(H), NEW k \in 1..Len(H), i < k
               PROVE  /\ H[i].start < H[k].start /\ H[i].depth <= H[k].depth
                      /\ LiveIn(kd, H[i].before) \subseteq LiveIn(kd, H[k].before)
    OBVIOUS
  <2>1. CASE k \in 1..m
    <3>1. i \in 1..m
      BY <1>2, <2>1
    <3> QED
      BY <1>1, <1>2, <2>1, <3>1
  <2>2. CASE k = m + 1 /\ i = m
    BY <1>2, <1>5, <2>2
  <2>3. CASE k = m + 1 /\ i < m
    <3>1. i \in 1..m /\ m \in 1..m
      BY <1>2, <2>3
    <3>2. /\ G[i].start < G[m].start /\ G[i].depth <= G[m].depth
          /\ LiveIn(kd, G[i].before) \subseteq LiveIn(kd, G[m].before)
      BY <1>1, <2>3, <3>1
    <3>3. /\ G[i].start \in Nat /\ G[m].start \in Nat /\ x.start \in Nat
          /\ G[i].depth \in Nat /\ G[m].depth \in Nat /\ x.depth \in Nat
      BY <1>4, <3>1 DEF FrameSet
    <3>4. H[i] = G[i] /\ H[k] = x
      BY <1>2, <2>3, <3>1
    <3>5. H[i].start < H[k].start /\ H[i].depth <= H[k].depth
      <4>1. /\ G[i].start < x.start /\ G[i].depth <= x.depth
        <5> DEFINE a == G[i].start
                   c == G[m].start
                   e == x.start
                   f == G[i].depth
                   g == G[m].depth
                   h == x.depth
        <5>1. a < c /\ c < e /\ f <= g /\ g <= h /\ {a, c, e, f, g, h} \subseteq Nat
          BY <1>5, <3>2, <3>3, Zenon
        <5> HIDE DEF a, c, e, f, g, h
        <5>2. a < e /\ f <= h
          BY <5>1, SMT
        <5> QED
          BY <5>2 DEF a, e, f, h
      <4> QED
        BY <3>4, <4>1
    <3>6. LiveIn(kd, H[i].before) \subseteq LiveIn(kd, H[k].before)
      BY <1>5, <3>2, <3>4, Zenon
    <3> QED
      BY <3>5, <3>6
  <2> QED
    BY <1>2, <2>1, <2>2, <2>3
<1>11. /\ H[1].op = "body" /\ H[1].start = 0 /\ H[1].depth = 0
       /\ LiveIn(kd, H[1].before) = {} /\ H[1].header = {}
  BY <1>1, <1>2
<1>12. Len(H) >= 1
  BY <1>2
<1>13. FramesSound(kd, R, p, N, H, b)
  BY <1>1, <1>2, <1>8, <1>9, <1>10, <1>11, <1>12 DEF FramesSound
<1> QED
  BY <1>13 DEF H

\* What was proved when a loop began is of a result declared outside of it.
LEMMA LastsLive ==
    ASSUME NEW kd, NEW R, NEW p, NEW N, NEW F, NEW b, FramesSound(kd, R, p, N, F, b),
           NEW k \in 2..(Len(F) + 1), NEW s \in DOMAIN kd, NEW v \in Known, Lasts(F, k, s, v)
    PROVE  s \in LiveIn(kd, F[k - 1].before) /\ kd[s].result /\ b[s] < F[k - 1].depth
<1>1. PICK j \in 1..(k - 1) : F[j].op \in Loops /\ F[j].before.proof[s] = v
  BY DEF Lasts
<1>2. Len(F) \in Nat /\ F \in Seq(FrameSet(kd)) /\ Len(F) >= 1 /\ F[1].op = "body" /\ b[s] \in Nat
  BY DEF FramesSound
<1>3. j \in 1..Len(F) /\ k - 1 \in 1..Len(F)
  BY <1>2
<1>4. j # 1
  BY <1>1, <1>2 DEF Loops
<1>5. j \in 2..Len(F) /\ j - 1 \in 1..Len(F)
  BY <1>3, <1>4
<1>6. FlowSound(kd, F[j].before)
  BY <1>3 DEF FramesSound
<1>7. s \in LiveIn(kd, F[j].before) /\ kd[s].result
  BY <1>1, <1>6 DEF FlowSound, Known, LiveIn
<1>8. Nested(kd, R, F, j, b)
  BY <1>5 DEF FramesSound, FrameSound
<1>13. \A i \in 1..Len(F) : F[i] \in FrameSet(kd)
  BY <1>2
<1>14. \A i \in 1..Len(F) : F[i].depth \in Nat
  BY <1>13 DEF FrameSet
<1>9. F[j].depth \in Nat /\ F[j - 1].depth \in Nat /\ F[k - 1].depth \in Nat
  BY <1>3, <1>5, <1>14
<1>10. b[s] < F[j].depth
  BY <1>1, <1>2, <1>7, <1>8, <1>9, SMTT(30) DEF Nested
<1>11. CASE j = k - 1
  BY <1>7, <1>10, <1>11
<1>12. CASE j < k - 1
  <2>1. F[j].depth <= F[k - 1].depth /\ LiveIn(kd, F[j].before) \subseteq LiveIn(kd, F[k - 1].before)
    BY <1>3, <1>12 DEF FramesSound
  <2> QED
    BY <1>2, <1>7, <1>9, <1>10, <2>1
<1> QED
  BY <1>1, <1>11, <1>12

-----------------------------------------------------------------------------
(* What the checker's operations do to its state.                          *)

Inits == {"out", "unset", "maybe", "set"}
Proofs == {"unknown"} \cup Known

\* A state is its four fields.
LEMMA FlowIs ==
    ASSUME NEW kd, NEW f \in FlowSet(kd)
    PROVE  /\ f = [init |-> f.init, proof |-> f.proof, handled |-> f.handled, reaches |-> f.reaches]
           /\ f.init \in [DOMAIN kd -> Inits] /\ f.proof \in [DOMAIN kd -> Proofs]
           /\ f.handled \subseteq DOMAIN kd /\ f.reaches \in BOOLEAN
BY DEF FlowSet, Inits, Proofs

\* Four fields of the right kinds make a state.
LEMMA FlowMade ==
    ASSUME NEW kd, NEW init \in [DOMAIN kd -> Inits], NEW proof \in [DOMAIN kd -> Proofs],
           NEW handled \in SUBSET DOMAIN kd, NEW reaches \in BOOLEAN
    PROVE  [init |-> init, proof |-> proof, handled |-> handled, reaches |-> reaches] \in FlowSet(kd)
BY DEF FlowSet, Inits, Proofs

\* The fields of a state.
Fields(init, proof, handled, reaches) ==
    [init |-> init, proof |-> proof, handled |-> handled, reaches |-> reaches]

\* The state g differs from f at most in what it knows of s.
ButFor(kd, f, g, s) ==
    \A x \in DOMAIN kd \ {s} :
        g.init[x] = f.init[x] /\ g.proof[x] = f.proof[x] /\ (x \in g.handled <=> x \in f.handled)

\* define_symbol: the new symbol gets its state, and nothing of its outcome is known; no
\* other symbol changes.
LEMMA DefineIs ==
    ASSUME NEW kd, NEW f \in FlowSet(kd), NEW s \in DOMAIN kd, NEW i \in BOOLEAN
    PROVE  LET g == Define(f, s, i) IN
           /\ g \in FlowSet(kd) /\ (g.reaches <=> f.reaches) /\ ButFor(kd, f, g, s)
           /\ g.init[s] = (IF i THEN "set" ELSE "unset") /\ g.proof[s] = "unknown" /\ s \notin g.handled
<1>0. f = [init |-> f.init, proof |-> f.proof, handled |-> f.handled, reaches |-> f.reaches]
  BY FlowIs
<1> DEFINE init == [f.init EXCEPT ![s] = IF i THEN "set" ELSE "unset"]
           proof == [f.proof EXCEPT ![s] = "unknown"]
           g == [init |-> init, proof |-> proof, handled |-> f.handled \ {s}, reaches |-> f.reaches]
<1>1. Define(f, s, i) = g
  <2>1. f = Fields(f.init, f.proof, f.handled, f.reaches)
    BY <1>0 DEF Fields
  <2>2. Define(f, s, i) = [[[f EXCEPT !.init = init] EXCEPT !.proof = proof] EXCEPT !.handled = f.handled \ {s}]
    BY <2>1 DEF Define, Fields
  <2> HIDE DEF init, proof
  <2>3. [f EXCEPT !.init = init] = Fields(init, f.proof, f.handled, f.reaches)
    BY <2>1 DEF Fields
  <2>4. [Fields(init, f.proof, f.handled, f.reaches) EXCEPT !.proof = proof] = Fields(init, proof, f.handled, f.reaches)
    BY <2>1 DEF Fields
  <2>5. [Fields(init, proof, f.handled, f.reaches) EXCEPT !.handled = f.handled \ {s}] = Fields(init, proof, f.handled \ {s}, f.reaches)
    BY <2>1 DEF Fields
  <2> QED
    BY <2>2, <2>3, <2>4, <2>5, Zenon DEF Fields
<1>2. init \in [DOMAIN kd -> Inits] /\ proof \in [DOMAIN kd -> Proofs]
  BY FlowIs DEF Inits, Proofs
<1>3. /\ \A x \in DOMAIN kd \ {s} : init[x] = f.init[x] /\ proof[x] = f.proof[x]
      /\ init[s] = (IF i THEN "set" ELSE "unset") /\ proof[s] = "unknown"
  BY FlowIs
<1> HIDE DEF init, proof
<1>4. g \in FlowSet(kd)
  BY <1>2, FlowIs, FlowMade
<1>5. ButFor(kd, f, g, s)
  BY <1>3 DEF ButFor
<1> QED
  BY <1>1, <1>3, <1>4, <1>5

\* An assignment: the symbol is set, and what was known of its outcome is forgotten; no
\* other symbol changes.
LEMMA StoreIs ==
    ASSUME NEW kd, NEW f \in FlowSet(kd), NEW s \in DOMAIN kd
    PROVE  LET g == Store(f, s) IN
           /\ g \in FlowSet(kd) /\ (g.reaches <=> f.reaches) /\ ButFor(kd, f, g, s)
           /\ g.init[s] = "set" /\ g.proof[s] = "unknown" /\ s \notin g.handled
<1>0. f = [init |-> f.init, proof |-> f.proof, handled |-> f.handled, reaches |-> f.reaches]
  BY FlowIs
<1> DEFINE init == [f.init EXCEPT ![s] = "set"]
           proof == [f.proof EXCEPT ![s] = "unknown"]
           g == [init |-> init, proof |-> proof, handled |-> f.handled \ {s}, reaches |-> f.reaches]
<1>1. Store(f, s) = g
  <2>1. f = Fields(f.init, f.proof, f.handled, f.reaches)
    BY <1>0 DEF Fields
  <2>2. Store(f, s) = [[[f EXCEPT !.init = init] EXCEPT !.proof = proof] EXCEPT !.handled = f.handled \ {s}]
    BY <2>1 DEF Store, Fields
  <2> HIDE DEF init, proof
  <2>3. [f EXCEPT !.init = init] = Fields(init, f.proof, f.handled, f.reaches)
    BY <2>1 DEF Fields
  <2>4. [Fields(init, f.proof, f.handled, f.reaches) EXCEPT !.proof = proof] = Fields(init, proof, f.handled, f.reaches)
    BY <2>1 DEF Fields
  <2>5. [Fields(init, proof, f.handled, f.reaches) EXCEPT !.handled = f.handled \ {s}] = Fields(init, proof, f.handled \ {s}, f.reaches)
    BY <2>1 DEF Fields
  <2> QED
    BY <2>2, <2>3, <2>4, <2>5, Zenon DEF Fields
<1>2. init \in [DOMAIN kd -> Inits] /\ proof \in [DOMAIN kd -> Proofs]
  BY FlowIs DEF Inits, Proofs
<1>3. /\ \A x \in DOMAIN kd \ {s} : init[x] = f.init[x] /\ proof[x] = f.proof[x]
      /\ init[s] = "set" /\ proof[s] = "unknown"
  BY FlowIs
<1> HIDE DEF init, proof
<1>4. g \in FlowSet(kd)
  BY <1>2, FlowIs, FlowMade
<1>5. ButFor(kd, f, g, s)
  BY <1>3 DEF ButFor
<1> QED
  BY <1>1, <1>3, <1>4, <1>5

\* What a match leaves: the result is handled, and known no better.
Matched(f, s, keeps) ==
    [f EXCEPT !.handled = @ \cup {s}, !.proof[s] = IF keeps THEN @ ELSE "unknown"]

\* check_match: the result is handled, and proved no more than before.
LEMMA MatchedIs ==
    ASSUME NEW kd, NEW f \in FlowSet(kd), NEW s \in DOMAIN kd, NEW keeps \in BOOLEAN
    PROVE  LET g == Matched(f, s, keeps) IN
           /\ g \in FlowSet(kd) /\ (g.reaches <=> f.reaches) /\ ButFor(kd, f, g, s)
           /\ g.init[s] = f.init[s] /\ g.proof[s] \in {f.proof[s], "unknown"} /\ s \in g.handled
<1>0. f = [init |-> f.init, proof |-> f.proof, handled |-> f.handled, reaches |-> f.reaches]
  BY FlowIs
<1> DEFINE proof == [f.proof EXCEPT ![s] = IF keeps THEN f.proof[s] ELSE "unknown"]
           g == [init |-> f.init, proof |-> proof, handled |-> f.handled \cup {s}, reaches |-> f.reaches]
<1>1. Matched(f, s, keeps) = g
  <2>1. f = Fields(f.init, f.proof, f.handled, f.reaches)
    BY <1>0 DEF Fields
  <2>2. Matched(f, s, keeps) = [[f EXCEPT !.handled = f.handled \cup {s}] EXCEPT !.proof = proof]
    BY <2>1 DEF Matched, Fields
  <2> HIDE DEF proof
  <2>3. [f EXCEPT !.handled = f.handled \cup {s}] = Fields(f.init, f.proof, f.handled \cup {s}, f.reaches)
    BY <2>1 DEF Fields
  <2>4. [Fields(f.init, f.proof, f.handled \cup {s}, f.reaches) EXCEPT !.proof = proof] = Fields(f.init, proof, f.handled \cup {s}, f.reaches)
    BY <2>1 DEF Fields
  <2> QED
    BY <2>2, <2>3, <2>4, Zenon DEF Fields
<1>2. proof \in [DOMAIN kd -> Proofs]
  BY FlowIs DEF Proofs
<1>3. /\ \A x \in DOMAIN kd \ {s} : proof[x] = f.proof[x]
      /\ proof[s] \in {f.proof[s], "unknown"}
  BY FlowIs
<1> HIDE DEF proof
<1>4. g \in FlowSet(kd)
  BY <1>2, FlowIs, FlowMade
<1>5. ButFor(kd, f, g, s)
  BY <1>3 DEF ButFor
<1> QED
  BY <1>1, <1>3, <1>4, <1>5

\* A condition on no symbol leaves the state alone.
LEMMA TestedIs ==
    ASSUME NEW kd, None \notin DOMAIN kd, NEW f \in FlowSet(kd),
           NEW c \in [on : DOMAIN kd \cup {None}, holds : BOOLEAN]
    PROVE  LET g == Tested(f, c) IN
           /\ g \in FlowSet(kd) /\ (g.reaches <=> f.reaches) /\ g.init = f.init /\ g.proof = f.proof
           /\ g.handled = f.handled \cup ({c.on} \ {None})
<1>0. f = [init |-> f.init, proof |-> f.proof, handled |-> f.handled, reaches |-> f.reaches]
  BY FlowIs
<1>1. CASE c.on = None
  BY <1>1 DEF Tested
<1>2. CASE c.on # None
  <2> DEFINE g == [init |-> f.init, proof |-> f.proof, handled |-> f.handled \cup {c.on}, reaches |-> f.reaches]
  <2>1. Tested(f, c) = g
    BY <1>0, <1>2 DEF Tested
  <2>2. c.on \in DOMAIN kd
    BY <1>2
  <2>3. g \in FlowSet(kd)
    BY <2>2, FlowIs, FlowMade
  <2> QED
    BY <1>2, <2>1, <2>3
<1> QED
  BY <1>1, <1>2

\* The result of c is handled and its proof is v.
Knowing(f, c, v) ==
    IF c.on = None THEN f ELSE [Tested(f, c) EXCEPT !.proof[c.on] = v]

\* A test that finds v.
LEMMA KnowingIs ==
    ASSUME NEW kd, None \notin DOMAIN kd, NEW f \in FlowSet(kd),
           NEW c \in [on : DOMAIN kd \cup {None}, holds : BOOLEAN], NEW v \in Known
    PROVE  LET g == Knowing(f, c, v) IN
           /\ g \in FlowSet(kd) /\ (g.reaches <=> f.reaches) /\ g.init = f.init
           /\ g.handled = f.handled \cup ({c.on} \ {None})
           /\ \A x \in DOMAIN kd : g.proof[x] = IF x = c.on THEN v ELSE f.proof[x]
<1>1. CASE c.on = None
  BY <1>1 DEF Knowing
<1>2. CASE c.on # None
  <2> DEFINE h == Tested(f, c)
             proof == [f.proof EXCEPT ![c.on] = v]
             g == [init |-> f.init, proof |-> proof, handled |-> f.handled \cup {c.on}, reaches |-> f.reaches]
  <2>1. h = [init |-> f.init, proof |-> f.proof, handled |-> f.handled \cup {c.on}, reaches |-> f.reaches]
    <3>1. f = Fields(f.init, f.proof, f.handled, f.reaches)
      BY FlowIs DEF Fields
    <3>2. h = [f EXCEPT !.handled = f.handled \cup {c.on}]
      BY <1>2, <3>1 DEF Tested, Fields
    <3> QED
      BY <3>1, <3>2 DEF Fields
  <2>2. Knowing(f, c, v) = [h EXCEPT !.proof[c.on] = v]
    BY <1>2 DEF Knowing
  <2>3. c.on \in DOMAIN kd /\ v \in Proofs
    BY <1>2 DEF Proofs
  <2>4. /\ proof \in [DOMAIN kd -> Proofs]
        /\ \A x \in DOMAIN kd : proof[x] = IF x = c.on THEN v ELSE f.proof[x]
    BY <2>3, FlowIs
  <2> HIDE DEF h
  <2>5. Knowing(f, c, v) = g
    BY <2>1, <2>2, Zenon
  <2> HIDE DEF proof
  <2>6. g \in FlowSet(kd)
    BY <2>3, <2>4, FlowIs, FlowMade
  <2> QED
    BY <1>2, <2>3, <2>4, <2>5, <2>6
<1> QED
  BY <1>1, <1>2

\* From f, g is what c proves when it is value.
Refines(kd, f, c, value, g) ==
    /\ g \in FlowSet(kd) /\ (g.reaches <=> f.reaches) /\ g.init = f.init
    /\ g.handled = f.handled \cup ({c.on} \ {None})
    /\ \A x \in DOMAIN kd : g.proof[x] = IF x = c.on THEN Finds(c, value) ELSE f.proof[x]

\* What a value of a condition proves.
LEMMA RefinedIs ==
    ASSUME NEW kd, None \notin DOMAIN kd, NEW f \in FlowSet(kd),
           NEW c \in [on : DOMAIN kd \cup {None}, holds : BOOLEAN], NEW value
    PROVE  Refines(kd, f, c, value, Refined(f, c, value))
<1>1. Refined(f, c, value) = Knowing(f, c, Finds(c, value))
  BY DEF Refined, Knowing, Finds
<1>2. PICK v \in Known : v = Finds(c, value)
  BY DEF Finds, Known
<1> DEFINE g == Knowing(f, c, v)
<1>3. /\ g \in FlowSet(kd) /\ (g.reaches <=> f.reaches) /\ g.init = f.init
      /\ g.handled = f.handled \cup ({c.on} \ {None})
      /\ \A x \in DOMAIN kd : g.proof[x] = IF x = c.on THEN v ELSE f.proof[x]
  BY KnowingIs
<1> HIDE DEF g
<1>4. Refines(kd, f, c, value, g)
  BY <1>2, <1>3 DEF Refines
<1> QED
  BY <1>1, <1>2, <1>4 DEF g

\* leave_scope: the symbols of the scope are forgotten, and no other.
LEMMA LeaveIs ==
    ASSUME NEW f \in FlowSet(kind), NEW locals
    PROVE  LET g == Leave(f, locals) IN
           /\ g \in FlowSet(kind) /\ (g.reaches <=> f.reaches) /\ g.handled = f.handled \ locals
           /\ \A x \in DOMAIN kind : /\ g.init[x] = IF x \in locals THEN "out" ELSE f.init[x]
                                    /\ g.proof[x] = IF x \in locals THEN "unknown" ELSE f.proof[x]
<1>0. f = [init |-> f.init, proof |-> f.proof, handled |-> f.handled, reaches |-> f.reaches]
  BY FlowIs
<1> DEFINE init == [s \in Symbols |-> IF s \in locals THEN "out" ELSE f.init[s]]
           proof == [s \in Symbols |-> IF s \in locals THEN "unknown" ELSE f.proof[s]]
           g == [init |-> init, proof |-> proof, handled |-> f.handled \ locals, reaches |-> f.reaches]
<1>1. Leave(f, locals) = g
  <2>1. f = Fields(f.init, f.proof, f.handled, f.reaches)
    BY <1>0 DEF Fields
  <2>2. Leave(f, locals) = [[[f EXCEPT !.init = init] EXCEPT !.proof = proof] EXCEPT !.handled = f.handled \ locals]
    BY <2>1 DEF Leave, Fields
  <2> HIDE DEF init, proof
  <2>3. [f EXCEPT !.init = init] = Fields(init, f.proof, f.handled, f.reaches)
    BY <2>1 DEF Fields
  <2>4. [Fields(init, f.proof, f.handled, f.reaches) EXCEPT !.proof = proof] = Fields(init, proof, f.handled, f.reaches)
    BY <2>1 DEF Fields
  <2>5. [Fields(init, proof, f.handled, f.reaches) EXCEPT !.handled = f.handled \ locals] = Fields(init, proof, f.handled \ locals, f.reaches)
    BY <2>1 DEF Fields
  <2> QED
    BY <2>2, <2>3, <2>4, <2>5, Zenon DEF Fields
<1>2. init \in [DOMAIN kind -> Inits] /\ proof \in [DOMAIN kind -> Proofs]
  BY FlowIs DEF Inits, Proofs, Symbols
<1>3. \A x \in DOMAIN kind : /\ init[x] = IF x \in locals THEN "out" ELSE f.init[x]
                             /\ proof[x] = IF x \in locals THEN "unknown" ELSE f.proof[x]
  BY DEF Symbols
<1> HIDE DEF init, proof
<1>4. g \in FlowSet(kind)
  BY <1>2, FlowIs, FlowMade
<1> QED
  BY <1>1, <1>3, <1>4

\* Two paths meet.
LEMMA MergeIs ==
    ASSUME NEW f \in FlowSet(kind), NEW g \in FlowSet(kind)
    PROVE  LET h == Merge(f, g) IN
           /\ h \in FlowSet(kind)
           /\ ~f.reaches => h = g
           /\ f.reaches /\ ~g.reaches => h = f
           /\ f.reaches /\ g.reaches =>
                /\ h.reaches /\ h.handled = f.handled \cap g.handled
                /\ \A x \in DOMAIN kind :
                     /\ h.init[x] = IF f.init[x] = g.init[x] THEN f.init[x] ELSE "maybe"
                     /\ h.proof[x] = IF f.proof[x] = g.proof[x] THEN f.proof[x] ELSE "unknown"
<1> DEFINE init == [s \in Symbols |-> Joined(f.init[s], g.init[s])]
           proof == [s \in Symbols |-> IF f.proof[s] = g.proof[s] THEN f.proof[s] ELSE "unknown"]
           h == [init |-> init, proof |-> proof, handled |-> f.handled \cap g.handled, reaches |-> TRUE]
<1>1. CASE f.reaches /\ g.reaches
  <2>1. Merge(f, g) = h
    BY <1>1, Zenon DEF Merge
  <2>2. init \in [DOMAIN kind -> Inits] /\ proof \in [DOMAIN kind -> Proofs]
    BY FlowIs DEF Inits, Proofs, Symbols, Joined
  <2>3. \A x \in DOMAIN kind : /\ init[x] = IF f.init[x] = g.init[x] THEN f.init[x] ELSE "maybe"
                               /\ proof[x] = IF f.proof[x] = g.proof[x] THEN f.proof[x] ELSE "unknown"
    BY DEF Symbols, Joined
  <2> HIDE DEF init, proof
  <2>4. f.handled \cap g.handled \in SUBSET DOMAIN kind
    BY FlowIs
  <2>5. h \in FlowSet(kind)
    BY <2>2, <2>4, FlowMade
  <2> QED
    BY <1>1, <2>1, <2>3, <2>5
<1>2. CASE ~f.reaches
  BY <1>2 DEF Merge
<1>3. CASE f.reaches /\ ~g.reaches
  BY <1>3 DEF Merge
<1> QED
  BY <1>1, <1>2, <1>3

\* A loop ends: it may not have run, and nothing is proved any more.
LEMMA AfterLoopIs ==
    ASSUME NEW f \in FlowSet(kind), NEW g \in FlowSet(kind), f.reaches
    PROVE  LET h == AfterLoop(f, g) IN
           /\ h \in FlowSet(kind) /\ h.reaches /\ h.handled \subseteq f.handled
           /\ g.reaches => h.handled = f.handled \cap g.handled
           /\ ~g.reaches => h.handled = f.handled
           /\ \A x \in DOMAIN kind :
                /\ h.init[x] = (IF ~g.reaches \/ f.init[x] = g.init[x] THEN f.init[x] ELSE "maybe")
                /\ h.proof[x] = "unknown"
<1> DEFINE k == Merge(f, g)
           proof == [s \in Symbols |-> "unknown"]
           h == [init |-> k.init, proof |-> proof, handled |-> k.handled, reaches |-> k.reaches]
<1>1. /\ k \in FlowSet(kind)
      /\ ~g.reaches => k = f
      /\ g.reaches =>
                /\ k.reaches /\ k.handled = f.handled \cap g.handled
                /\ \A x \in DOMAIN kind : k.init[x] = IF f.init[x] = g.init[x] THEN f.init[x] ELSE "maybe"
  BY MergeIs
<1>2. AfterLoop(f, g) = [k EXCEPT !.proof = proof]
  BY DEF AfterLoop
<1> HIDE DEF k
<1>6. k = [init |-> k.init, proof |-> k.proof, handled |-> k.handled, reaches |-> k.reaches]
  BY <1>1, FlowIs
<1>3. AfterLoop(f, g) = h
  BY <1>2, <1>6
<1>4. proof \in [DOMAIN kind -> Proofs] /\ \A x \in DOMAIN kind : proof[x] = "unknown"
  BY DEF Symbols, Proofs
<1> HIDE DEF proof
<1>5. h \in FlowSet(kind)
  BY <1>1, <1>4, FlowIs, FlowMade
<1> QED
  BY <1>1, <1>3, <1>4, <1>5

-----------------------------------------------------------------------------
(* The frames while a body is written.                                     *)

\* What a state follows, the states after it follow too: scopes lie in scopes.
LEMMA LaterTrans ==
    ASSUME NEW kd, NEW R, NEW b \in [DOMAIN kd -> Nat], NEW d \in Nat, NEW e \in Nat, d <= e,
           NEW f, NEW g, NEW h, Later(kd, R, b, d, f, g), Later(kd, R, b, e, g, h)
    PROVE  Later(kd, R, b, d, f, h)
<1>1. \A s \in LiveIn(kd, f) : s \in DOMAIN kd /\ s \in LiveIn(kd, g) /\ (b[s] < d => b[s] < e)
  BY DEF Later, LiveIn
<1> QED
  BY <1>1 DEF Later

\* Tokens that were there are there still.
LEMMA EndedGrows ==
    ASSUME NEW p, NEW N, NEW t, NEW n, NEW q, NEW M, Len(p) \in Nat, Grows(p, N, t, n, q, M),
           NEW i, Ended(p, i)
    PROVE  Ended(q, i)
BY DEF Ended, Ends, Grows

\* Openers that were open or ended are so still, and any new one is the last.
LEMMA OpenGrows ==
    ASSUME NEW p, NEW N, NEW t, NEW n, NEW q, NEW M, Len(p) \in Nat, Grows(p, N, t, n, q, M),
           NEW F, OpenOrEnded(p, F), t.op \notin Openers
    PROVE  OpenOrEnded(q, F)
<1> SUFFICES ASSUME NEW i \in 1..Len(q), q[i].op \in Openers
             PROVE  Ended(q, i) \/ \E k \in 2..Len(F) : F[k].start = i
  BY DEF OpenOrEnded
<1>1. i \in 1..Len(p) /\ p[i].op \in Openers
  BY DEF Grows
<1> QED
  BY <1>1, EndedGrows DEF OpenOrEnded

\* The last frame gets new locals.
Widened(F, L) == [F EXCEPT ![Len(F)].locals = @ \cup L]

\* A declaration adds its symbol to the locals of the last frame, and to nothing else.
LEMMA WidenedIs ==
    ASSUME NEW kd, NEW F \in Seq(FrameSet(kd)), Len(F) >= 1, NEW L \in SUBSET DOMAIN kd
    PROVE  /\ Widened(F, L) \in Seq(FrameSet(kd)) /\ Len(Widened(F, L)) = Len(F)
           /\ Alike(F, Widened(F, L), Len(F))
           /\ Widened(F, L)[Len(F)].locals = F[Len(F)].locals \cup L
<1> DEFINE m == Len(F)
           x == [F[m] EXCEPT !.locals = @ \cup L]
           G == [F EXCEPT ![m] = x]
<1>1. m \in Nat /\ m \in 1..m /\ F[m] \in FrameSet(kd) /\ DOMAIN F = 1..m
  OBVIOUS
<1>2. Widened(F, L) = G
  BY DEF Widened
<1>3. /\ x.op = F[m].op /\ x.start = F[m].start /\ x.cond = F[m].cond
      /\ x.before = F[m].before /\ x.merged = F[m].merged
      /\ x.depth = F[m].depth /\ x.header = F[m].header
      /\ x.locals = F[m].locals \cup L
  BY <1>1 DEF FrameSet
<1>4. x \in FrameSet(kd)
  BY <1>1 DEF FrameSet
<1> HIDE DEF x
<1>5. G \in Seq(FrameSet(kd)) /\ Len(G) = m
  BY <1>1, <1>4
<1>6. G[m] = x /\ \A j \in 1..m : j # m => G[j] = F[j]
  BY <1>1
<1> HIDE DEF G
<1>7. Alike(F, G, m)
  <2>1. ASSUME NEW j \in 1..m
        PROVE  /\ G[j].op = F[j].op /\ G[j].start = F[j].start /\ G[j].cond = F[j].cond
               /\ G[j].before = F[j].before /\ G[j].merged = F[j].merged
               /\ G[j].depth = F[j].depth /\ G[j].header = F[j].header
               /\ j < m => G[j].locals = F[j].locals
    <3>1. CASE j = m
      BY <1>3, <1>6, <3>1
    <3>2. CASE j # m
      BY <1>6, <3>2
    <3> QED
      BY <3>1, <3>2
  <2> QED
    BY <2>1 DEF Alike
<1> QED
  BY <1>2, <1>3, <1>5, <1>6, <1>7

\* The frames G are F, where the last gets the locals L.
Widens(F, L, G) == (G = F /\ L = {}) \/ G = Widened(F, L)

\* If state g reaches on it follows f, in a statement of that depth, with the
\* symbols of L new in scope.
Goes(kd, R, c, depth, f, g, L) ==
    g.reaches => /\ Later(kd, R, c, depth, f, g)
                 /\ LiveIn(kd, g) \subseteq LiveIn(kd, f) \cup L
                 /\ \A s \in LiveIn(kd, g) : c[s] <= depth

\* The state of a body that is written, from which the next token leads to g.
\* L are the symbols the last frame gets, and X those that the next frame gets.
LEMMA SimpleStep ==
    ASSUME NEW kd, NEW R, NEW S, R \subseteq S, NEW p, NEW N, Certified(kd, R, p, N),
           NEW F, NEW f, NEW b, Framed(kd, R, p, N, F, f, b), f.reaches,
           NEW t \in Tokens(DOMAIN kd), t.op \notin Closes, t.op \notin Openers,
           NEW L, L \subseteq DOMAIN kd, L \cap LiveIn(kd, f) = {}, NEW G, Widens(F, L, G),
           NEW g, FlowSound(kd, g), NEW c \in [DOMAIN kd -> Nat], Reborn(kd, f, b, c),
           NEW k, k = Len(F) + 1, StepSound(kd, S, t, Note(f, F, k), Note(g, F, k)),
           NEW X, Goes(kd, S, c, F[Len(F)].depth, f, g, L \cup X)
    PROVE  \E M : /\ Certified(kd, S, Append(p, t), M)
                  /\ FramedBut(kd, S, Append(p, t), M, G, g, c, X)
<1> DEFINE m == Len(F)
           n == Note(g, F, k)
           M == Append(N, n)
           q == Append(p, t)
<1>1. /\ FramesSound(kd, R, p, N, F, b) /\ Current(kd, R, F, f, b, {}) /\ OpenOrEnded(p, F)
      /\ N[Len(p) + 1] = Note(f, F, k)
  BY DEF Framed, FramedBut
<1>2. /\ F \in Seq(FrameSet(kd)) /\ m \in Nat /\ m >= 1 /\ m \in 1..m
      /\ F[m].locals \cap LiveIn(kd, F[m].before) = {}
  BY <1>1 DEF FramesSound
<1>3. /\ G \in Seq(FrameSet(kd)) /\ Len(G) = m /\ Alike(F, G, m)
      /\ G[m].locals = F[m].locals \cup L
  <2>1. CASE G = F /\ L = {}
    BY <1>2, <2>1 DEF Alike
  <2>2. CASE G = Widened(F, L)
    BY <1>2, <2>2, WidenedIs
  <2> QED
    BY <2>1, <2>2 DEF Widens
<1>4. /\ G[m].op = F[m].op /\ G[m].before = F[m].before /\ G[m].depth = F[m].depth
  BY <1>2, <1>3 DEF Alike
<1>5. n \in NoteSet(kd)
  BY NoteIs DEF FlowSound
<1>6. Certified(kd, S, q, M)
  BY <1>1, <1>5, CertifiedSteps
<1>7. /\ Later(kd, R, b, F[m].depth, F[m].before, f)
      /\ LiveIn(kd, f) \subseteq LiveIn(kd, F[m].before) \cup F[m].locals
  BY <1>1 DEF Current
<1>8. Grows(p, N, t, n, q, M) /\ Len(p) \in Nat /\ M[Len(q) + 1] = n
  <2>1. p \in Seq(Tokens(DOMAIN kd)) /\ N \in Seq(NoteSet(kd)) /\ Len(N) = Len(p) + 1
    BY DEF Certified
  <2> QED
    BY <2>1 DEF Grows
<1> HIDE DEF n, M, q
<1>9. LiveIn(kd, F[m].before) \subseteq LiveIn(kd, f)
  BY <1>7 DEF Later
<1>10. FramesSound(kd, S, q, M, G, c)
  <2>1. G[m].locals \cap LiveIn(kd, G[m].before) = {}
    BY <1>2, <1>3, <1>4, <1>9
  <2>2. Reborn(kd, F[m].before, b, c) /\ Apart(t, F, m)
    BY <1>9 DEF Reborn, Apart
  <2>3. FramesSound(kd, R, p, N, F, b) /\ m \in 1..Len(F) /\ m = Len(G)
    BY <1>1, <1>2, <1>3
  <2> QED
    BY <1>3, <1>8, <2>1, <2>2, <2>3, FramesStay
<1>11. Current(kd, S, G, g, c, X)
  <2> SUFFICES ASSUME g.reaches
               PROVE  /\ Later(kd, S, c, F[m].depth, F[m].before, g)
                      /\ LiveIn(kd, g) \subseteq LiveIn(kd, F[m].before) \cup G[m].locals \cup X
                      /\ \A s \in LiveIn(kd, g) : c[s] <= F[m].depth
    BY <1>3, <1>4 DEF Current
  <2>1. Later(kd, S, c, F[m].depth, F[m].before, f)
    BY <1>7, <1>9, LaterStays DEF Reborn
  <2>2. F[m].depth \in Nat
    <3>1. F[m] \in FrameSet(kd)
      BY <1>2
    <3> QED
      BY <3>1 DEF FrameSet
  <2>3. Later(kd, S, c, F[m].depth, F[m].before, g)
    BY <2>1, <2>2, LaterTrans DEF Goes
  <2> QED
    BY <1>3, <1>7, <2>3 DEF Goes
<1>12. OpenOrEnded(q, G)
  <2>1. OpenOrEnded(q, F)
    BY <1>1, <1>8, OpenGrows
  <2>2. \A j \in 2..m : G[j].start = F[j].start
    BY <1>3 DEF Alike
  <2> QED
    BY <1>3, <2>1, <2>2 DEF OpenOrEnded
<1>13. M[Len(q) + 1] = Note(g, G, Len(G) + 1)
  BY <1>2, <1>3, <1>8, NoteAlike DEF n
<1>14. FramedBut(kd, S, q, M, G, g, c, X)
  BY <1>10, <1>11, <1>12, <1>13 DEF FramedBut
<1> QED
  BY <1>6, <1>14 DEF q

\* The frame x that token t, the i-th, opens in state f; its header is X.
Starts(x, t, f, X, i, depth) ==
    /\ x.op = t.op /\ x.start = i /\ x.locals = {} /\ x.header = X
    /\ x.depth = depth + (IF t.op \in Loops THEN 1 ELSE 0)
    /\ x.cond.on = t.on /\ (t.op \in {"if"} \cup Loops => x.cond.holds = t.holds)
    /\ t.op \in {"block", "switch"} => t.on = None
    /\ X = IF t.op \in Loops THEN t.header ELSE {}
    /\ t.op = "while" => X = {}
    /\ x.before.reaches /\ x.before.init = f.init /\ x.before.proof = f.proof
    /\ x.before.handled = f.handled \cup ({t.on} \ {None})
    /\ x.merged.init = f.init /\ x.merged.proof = f.proof /\ x.merged.handled = f.handled
    /\ x.merged.reaches <=> t.op = "switch" /\ ~t.exhaustive

\* The symbols of X came into scope after the statement of frame y began.
Fresh(kd, f, y, X) ==
    X \subseteq LiveIn(kd, f) /\ X \cap LiveIn(kd, y.before) = {}

\* The frame x is put on the frames F.
Pushed(F, x, H) == H = Append(F, x)

\* A statement is opened.
LEMMA OpenStep ==
    ASSUME NEW kd, None \notin DOMAIN kd, NEW R, NEW p, NEW N, Certified(kd, R, p, N),
           NEW F, NEW f, NEW b, NEW X, FramedBut(kd, R, p, N, F, f, b, X), f.reaches,
           NEW m \in Nat, m = Len(F), NEW k \in Nat, k = m + 1, NEW l \in Nat, l = k + 1,
           NEW i \in Nat, i = Len(p) + 1,
           Fresh(kd, f, F[m], X),
           NEW t \in Tokens(DOMAIN kd), t.op \in Openers, t.on # None => f.init[t.on] = "set",
           NEW x \in FrameSet(kd), Starts(x, t, f, X, i, F[m].depth),
           FlowSound(kd, x.before), FlowSound(kd, x.merged),
           NEW g, FlowSound(kd, g), g.reaches, g.init = f.init, x.before.handled \subseteq g.handled,
           NEW H, Pushed(F, x, H), StepSound(kd, R, t, Note(f, F, k), Note(g, H, l))
    PROVE  \E M : /\ Certified(kd, R, Append(p, t), M)
                  /\ Framed(kd, R, Append(p, t), M, H, g, b)
<1> DEFINE n == Note(g, H, l)
           M == Append(N, n)
           q == Append(p, t)
<1>1. /\ FramesSound(kd, R, p, N, F, b) /\ Current(kd, R, F, f, b, X) /\ OpenOrEnded(p, F)
      /\ N[Len(p) + 1] = Note(f, F, k)
  BY DEF FramedBut
<1>0. X \subseteq LiveIn(kd, f) /\ X \cap LiveIn(kd, F[m].before) = {}
  BY DEF Fresh
<1>2. /\ F \in Seq(FrameSet(kd)) /\ m >= 1 /\ m \in 1..m
      /\ F[1].start = 0 /\ b \in [DOMAIN kd -> Nat] /\ F[m] \in FrameSet(kd)
  BY <1>1 DEF FramesSound
<1>3. /\ p \in Seq(Tokens(DOMAIN kd)) /\ N \in Seq(NoteSet(kd)) /\ Len(N) = i
      /\ Len(p) \in Nat
  BY DEF Certified
<1>4. t.op \notin Closes
  BY DEF Openers, Closes, Loops
<1>5. n \in NoteSet(kd) /\ f \in FlowSet(kd)
  BY <1>1, NoteIs DEF FlowSound, Current
<1>6. Certified(kd, R, q, M)
  BY <1>1, <1>4, <1>5, CertifiedSteps
<1>7. /\ Grows(p, N, t, n, q, M) /\ Len(q) = i /\ q[i] = t /\ M[i] = Note(f, F, k)
      /\ M[Len(q) + 1] = n
  BY <1>1, <1>3 DEF Grows
<1>8. /\ H \in Seq(FrameSet(kd)) /\ Len(H) = k /\ H[k] = x
      /\ \A j \in 1..m : H[j] = F[j]
  BY <1>2 DEF Pushed
<1>9. Alike(F, H, m)
  BY <1>8 DEF Alike
<1>10. /\ Later(kd, R, b, F[m].depth, F[m].before, f)
       /\ LiveIn(kd, f) \subseteq LiveIn(kd, F[m].before) \cup F[m].locals \cup X
       /\ \A s \in LiveIn(kd, f) : b[s] <= F[m].depth
  BY <1>1 DEF Current
<1>11. F[m].start < i /\ F[m].depth \in Nat
  <2>1. CASE m = 1
    BY <1>2, <1>3, <2>1 DEF FrameSet
  <2>2. CASE m >= 2
    <3>1. F[m].start \in 1..Len(p)
      <4>1. \A j \in 2..Len(F) : FrameSound(kd, R, p, N, F, j, b)
        BY <1>1 DEF FramesSound
      <4>2. m \in 2..Len(F)
        BY <1>1, <1>2, <2>2
      <4>3. FrameSound(kd, R, p, N, F, m, b)
        BY <4>1, <4>2
      <4> QED
        BY <4>3 DEF FrameSound, Begun
    <3> QED
      BY <1>2, <1>3, <3>1 DEF FrameSet
  <2> QED
    BY <1>2, <2>1, <2>2
<1>12. FramesSound(kd, R, q, M, F, b)
  <2>1. \A j \in 1..m : F[j].locals \cap LiveIn(kd, F[j].before) = {}
    BY <1>1 DEF FramesSound
  <2>2. Alike(F, F, m) /\ Reborn(kd, F[m].before, b, b) /\ Apart(t, F, m) /\ m \in 1..Len(F)
    BY <1>2, <1>4 DEF Alike, Reborn, Apart
  <2> QED
    BY <1>1, <1>2, <1>3, <1>4, <1>7, <2>1, <2>2, FramesStay
<1> HIDE DEF n, M, q
<1>14. /\ x.op = t.op /\ x.start = i /\ x.locals = {} /\ x.header = X
       /\ x.depth = F[m].depth + (IF t.op \in Loops THEN 1 ELSE 0)
       /\ x.cond.on = t.on /\ (t.op \in {"if"} \cup Loops => x.cond.holds = t.holds)
       /\ t.op \in {"block", "switch"} => t.on = None
       /\ X = IF t.op \in Loops THEN t.header ELSE {}
       /\ t.op = "while" => X = {}
       /\ x.before.reaches /\ x.before.init = f.init /\ x.before.proof = f.proof
       /\ x.before.handled = f.handled \cup ({t.on} \ {None})
       /\ x.merged.init = f.init /\ x.merged.proof = f.proof /\ x.merged.handled = f.handled
       /\ x.merged.reaches <=> t.op = "switch" /\ ~t.exhaustive
  BY DEF Starts
<1>15. /\ Note(f, F, k).init = f.init /\ Note(f, F, k).handled = f.handled
       /\ Note(f, F, k).reaches
  <2>1. Note(f, F, k).init = f.init /\ Note(f, F, k).handled = f.handled
    BY <1>5, NoteIs
  <2>2. (Note(f, F, k).reaches <=> f.reaches)
    BY <1>5, NoteIs, Zenon
  <2> QED
    BY <2>1, <2>2, Zenon
<1>16. /\ Note(x.before, H, k).facts = Note(f, F, k).facts
       /\ Note(x.merged, H, k).facts = Note(f, F, k).facts
  <2>1. f.proof = x.before.proof /\ f.proof = x.merged.proof
    BY <1>14
  <2>2. \A h : f.proof = h.proof => Note(f, F, k).facts = Note(h, H, k).facts
    <3>1. k \in 1..(m + 1)
      BY <1>2
    <3>2. \A h : Note(h, H, k) = Note(h, F, k)
      BY <1>9, <3>1, NoteAlike
    <3>3. \A h : f.proof = h.proof => Note(f, F, k).facts = Note(h, F, k).facts
      BY DEF Note
    <3> QED
      BY <3>2, <3>3
  <2> QED
    BY <2>1, <2>2
<1>17. /\ Note(x.merged, H, k).init = f.init /\ Note(x.merged, H, k).handled = f.handled
       /\ (Note(x.merged, H, k).reaches <=> x.merged.reaches)
  BY <1>14, NoteIs DEF FlowSound
<1>18. Begun(q, M, H, k)
  <2>1. i \in 1..Len(q) /\ q[i].op = x.op /\ x.op # "else" /\ x.op # "body"
    BY <1>3, <1>7, <1>14 DEF Openers, Loops
  <2> QED
    BY <1>7, <1>8, <1>14, <1>15, <1>16, <2>1 DEF Begun, Opens, Openers, Loops
<1>19. Merges(kd, R, q, M, H, k)
  <2>1. \A j \in Closers(q) : q[j].of # i
    <3>1. \A j \in Closers(q) : j \in 1..Len(q) /\ q[j].op \in Closes /\ TokenSound(kd, R, q, M, j)
      BY <1>6 DEF Closers, Certified
    <3> QED
      BY <1>7, <3>1 DEF TokenSound
  <2>2. ~t.exhaustive /\ t.op = "switch" => Plain(kd, R, M[i], Note(x.merged, H, k))
    BY <1>7, <1>14, <1>15, <1>16, <1>17 DEF Plain, AtLeast
  <2> QED
    BY <1>7, <1>8, <1>14, <1>17, <2>1, <2>2 DEF Merges, Openers, Loops
<1>20. LiveIn(kd, x.before) = LiveIn(kd, f) /\ LiveIn(kd, x.merged) = LiveIn(kd, f) /\ LiveIn(kd, g) = LiveIn(kd, f)
  BY <1>14 DEF LiveIn
<1>21. Later(kd, R, b, F[m].depth, F[m].before, x.before)
  BY <1>10, <1>14, <1>20 DEF Later
<1>22. Nested(kd, R, H, k, b)
  <2>2. x.merged.reaches => Later(kd, R, b, x.depth, x.before, x.merged)
    BY <1>14, <1>20 DEF Later
  <2>3. H[k - 1] = F[m]
    BY <1>2, <1>8
  <2> QED
    BY <1>0, <1>8, <1>10, <1>11, <1>14, <1>20, <1>21, <2>2, <2>3 DEF Nested
<1>23. FramesSound(kd, R, q, M, H, b)
  <2>1. FrameSound(kd, R, q, M, H, k, b)
    BY <1>8, <1>14, <1>18, <1>19, <1>22 DEF FrameSound, Openers, Loops
  <2>2. /\ F[m].start < x.start /\ F[m].depth <= x.depth
        /\ LiveIn(kd, F[m].before) \subseteq LiveIn(kd, x.before)
    BY <1>11, <1>14, <1>21 DEF Later
  <2> QED
    BY <1>12, <1>14, <2>1, <2>2, FramesPush DEF Pushed
<1>24. Current(kd, R, H, g, b, {})
  <2>1. Later(kd, R, b, x.depth, x.before, g)
    BY <1>14, <1>20 DEF Later
  <2>2. \A s \in LiveIn(kd, g) : b[s] <= x.depth
    <3>1. \A s \in LiveIn(kd, f) : b[s] \in Nat /\ b[s] <= F[m].depth
      BY <1>2, <1>10 DEF LiveIn
    <3> QED
      BY <1>11, <1>14, <1>20, <3>1
  <2> QED
    BY <1>8, <1>20, <2>1, <2>2 DEF Current
<1>25. OpenOrEnded(q, H)
  <2> SUFFICES ASSUME NEW j \in 1..Len(q), q[j].op \in Openers
               PROVE  Ended(q, j) \/ \E e \in 2..Len(H) : H[e].start = j
    BY DEF OpenOrEnded
  <2>1. CASE j = i
    BY <1>2, <1>8, <1>14, <2>1
  <2>2. CASE j # i
    <3>1. j \in 1..Len(p) /\ q[j] = p[j]
      BY <1>3, <1>7, <2>2 DEF Grows
    <3>2. Ended(p, j) \/ \E e \in 2..m : F[e].start = j
      BY <1>1, <3>1 DEF OpenOrEnded
    <3>3. \A e \in 2..m : e \in 2..Len(H) /\ H[e] = F[e]
      BY <1>2, <1>8
    <3> QED
      BY <1>3, <1>7, <3>2, <3>3, EndedGrows
  <2> QED
    BY <2>1, <2>2
<1>26. M[Len(q) + 1] = Note(g, H, Len(H) + 1)
  BY <1>7, <1>8 DEF n
<1>27. Framed(kd, R, q, M, H, g, b)
  BY <1>23, <1>24, <1>25, <1>26 DEF Framed, FramedBut
<1> QED
  BY <1>6, <1>27 DEF q

-----------------------------------------------------------------------------
(* Statements that open nothing.                                           *)

\* The certificate of the body that is being written.
Written(N) ==
    /\ Certified(kind, reassigned, program, N)
    /\ Framed(kind, reassigned, program, N, frames, flow, born)

\* The tokens that the statements emit.
LEMMA TokenMade ==
    ASSUME NEW S, NEW s \in S, NEW o \in S \cup {None}, NEW v \in BOOLEAN, NEW header \in SUBSET S,
           NEW op, NEW i \in Nat, NEW locals \in SUBSET S
    PROVE  /\ [op |-> "def", on |-> s, initialized |-> v] \in Tokens(S)
           /\ op \in {"set", "read", "value", "error", "match"} => [op |-> op, on |-> s] \in Tokens(S)
           /\ op \in {"defer", "return", "block"} => [op |-> op, on |-> o] \in Tokens(S)
           /\ [op |-> "if", on |-> o, holds |-> v] \in Tokens(S)
           /\ op \in Loops => [op |-> op, on |-> o, holds |-> v, header |-> header] \in Tokens(S)
           /\ [op |-> "switch", on |-> None, exhaustive |-> v] \in Tokens(S)
           /\ op \in Closes => [op |-> op, on |-> o, of |-> i, locals |-> locals] \in Tokens(S)
BY DEF Tokens

\* What a note says of a symbol about which the checker knows no more than before.
LEMMA NoteAtLeast ==
    ASSUME NEW kd, NEW R, NEW f \in FlowSet(kd), NEW g \in FlowSet(kd), NEW F, NEW k,
           NEW s \in DOMAIN kd, g.init[s] = f.init[s], s \in g.handled => s \in f.handled,
           g.proof[s] \in {f.proof[s], "unknown"}
    PROVE  AtLeast(kd, R, Note(f, F, k), Note(g, F, k), s)
<1>1. /\ Note(f, F, k).init = f.init /\ Note(f, F, k).handled = f.handled
      /\ \A v : v \in Note(f, F, k).facts[s] <=> v \in Known /\ (f.proof[s] = v \/ Lasts(F, k, s, v))
  BY NoteIs
<1>2. /\ Note(g, F, k).init = g.init /\ Note(g, F, k).handled = g.handled
      /\ \A v : v \in Note(g, F, k).facts[s] <=> v \in Known /\ (g.proof[s] = v \/ Lasts(F, k, s, v))
  BY NoteIs
<1>3. Note(g, F, k).facts[s] \subseteq Note(f, F, k).facts[s]
  BY <1>1, <1>2 DEF Known
<1> QED
  BY <1>1, <1>2, <1>3 DEF AtLeast

\* A note agrees with itself.
LEMMA PlainSame ==
    ASSUME NEW kd, NEW R, NEW n
    PROVE  Plain(kd, R, n, n)
BY DEF Plain, AtLeast

\* A definition or an assignment, of a symbol that no loop around began with a proof of.
LEMMA SetsNote ==
    ASSUME NEW kd, NEW R, NEW f \in FlowSet(kd), NEW g \in FlowSet(kd), NEW F, NEW k,
           NEW s \in DOMAIN kd, NEW state, ButFor(kd, f, g, s), g.reaches,
           g.init[s] = state, g.proof[s] = "unknown", s \notin g.handled,
           s \notin R => \A v \in Known : ~Lasts(F, k, s, v)
    PROVE  Sets(kd, R, Note(f, F, k), Note(g, F, k), s, state)
<1>1. \A x \in DOMAIN kd \ {s} : AtLeast(kd, R, Note(f, F, k), Note(g, F, k), x)
  BY NoteAtLeast DEF ButFor
<1>2. /\ Note(g, F, k).init[s] = state /\ s \notin Note(g, F, k).handled
      /\ \A v : v \in Note(g, F, k).facts[s] <=> v \in Known /\ (g.proof[s] = v \/ Lasts(F, k, s, v))
  BY NoteIs
<1>3. Note(g, F, k).reaches
  <2>1. (Note(g, F, k).reaches <=> g.reaches)
    BY NoteIs, Zenon
  <2> QED
    BY <2>1, Zenon
<1>4. Untested(R, Note(g, F, k), s)
  BY <1>2 DEF Untested, Known
<1> QED
  BY <1>1, <1>2, <1>3, <1>4 DEF Sets

\* A match.
LEMMA MatchesNote ==
    ASSUME NEW kd, NEW R, NEW f \in FlowSet(kd), NEW g \in FlowSet(kd), NEW F, NEW k,
           NEW s \in DOMAIN kd, ButFor(kd, f, g, s), g.reaches,
           g.init[s] = "set", g.proof[s] \in {f.proof[s], "unknown"}
    PROVE  Matches(kd, R, Note(f, F, k), Note(g, F, k), s)
<1>1. \A x \in DOMAIN kd \ {s} : AtLeast(kd, R, Note(f, F, k), Note(g, F, k), x)
  BY NoteAtLeast DEF ButFor
<1>2. /\ Note(g, F, k).init[s] = "set"
      /\ \A v : v \in Note(g, F, k).facts[s] <=> v \in Known /\ (g.proof[s] = v \/ Lasts(F, k, s, v))
      /\ \A v : v \in Note(f, F, k).facts[s] <=> v \in Known /\ (f.proof[s] = v \/ Lasts(F, k, s, v))
  BY NoteIs
<1>3. Note(g, F, k).reaches
  <2>1. (Note(g, F, k).reaches <=> g.reaches)
    BY NoteIs, Zenon
  <2> QED
    BY <2>1, Zenon
<1>4. Note(g, F, k).facts[s] \subseteq Note(f, F, k).facts[s]
  BY <1>2 DEF Known
<1> QED
  BY <1>1, <1>2, <1>3, <1>4 DEF Matches

\* What is declared outside of a loop of that depth is kept from f to g.
Keeps(kd, R, b, depth, f, g, s) ==
    s \in LiveIn(kd, f) /\ b[s] < depth =>
        /\ ~kd[s].mutable /\ f.init[s] = "unset" => g.init[s] = "unset"
        /\ s \notin R /\ s \in f.handled => s \in g.handled

\* A statement about one symbol leaves what is in scope there.
LEMMA LaterButFor ==
    ASSUME NEW kd, NEW R, NEW b, NEW depth, NEW f, NEW g, NEW s \in DOMAIN kd, ButFor(kd, f, g, s),
           g.init[s] # "out", f.init[s] = "set" => g.init[s] = "set",
           Keeps(kd, R, b, depth, f, g, s)
    PROVE  Later(kd, R, b, depth, f, g) /\ LiveIn(kd, g) = LiveIn(kd, f) \cup {s}
<1>1. \A x \in DOMAIN kd : x # s => g.init[x] = f.init[x] /\ (x \in g.handled <=> x \in f.handled)
  BY DEF ButFor
<1> QED
  BY <1>1 DEF Later, LiveIn, Keeps

\* A statement about one symbol that is in scope then.
LEMMA SoundButFor ==
    ASSUME NEW kd, NEW f, FlowSound(kd, f), NEW g \in FlowSet(kd), NEW s \in DOMAIN kd, ButFor(kd, f, g, s),
           g.init[s] # "out", g.proof[s] # "unknown" \/ s \in g.handled => kd[s].result
    PROVE  FlowSound(kd, g)
BY DEF FlowSound, ButFor

\* The state of a body that can go on.
LEMMA Standing ==
    ASSUME NEW N, Written(N), flow.reaches
    PROVE  /\ frames \in Seq(FrameSet(kind)) /\ Len(frames) \in Nat /\ Len(frames) >= 1
           /\ top \in FrameSet(kind) /\ loop_depth \in Nat /\ born \in [Symbols -> Nat]
           /\ flow \in FlowSet(kind) /\ FlowSound(kind, flow)
           /\ Later(kind, reassigned, born, top.depth, top.before, flow)
           /\ LiveIn(kind, flow) \subseteq LiveIn(kind, top.before) \cup top.locals
           /\ \A s \in LiveIn(kind, flow) : born[s] <= top.depth
           /\ top.locals \cap LiveIn(kind, top.before) = {}
           /\ program \in Seq(Tokens(DOMAIN kind)) /\ Len(program) \in Nat
<1>1. FramesSound(kind, reassigned, program, N, frames, born) /\ Current(kind, reassigned, frames, flow, born, {})
  BY DEF Written, Framed, FramedBut
<1>2. /\ frames \in Seq(FrameSet(kind)) /\ Len(frames) \in Nat /\ Len(frames) >= 1
      /\ born \in [Symbols -> Nat] /\ Len(frames) \in 1..Len(frames)
  BY <1>1 DEF FramesSound, Symbols
<1>3. frames[Len(frames)] \in FrameSet(kind)
  BY <1>2
<1>4. frames[Len(frames)].depth \in Nat
  BY <1>3 DEF FrameSet
<1>5. top.locals \cap LiveIn(kind, top.before) = {}
  BY <1>1, <1>2 DEF FramesSound, top
<1>6. flow \in FlowSet(kind) /\ FlowSound(kind, flow)
  BY <1>1 DEF Current, FlowSound
<1>7. /\ Later(kind, reassigned, born, top.depth, top.before, flow)
      /\ LiveIn(kind, flow) \subseteq LiveIn(kind, top.before) \cup top.locals
      /\ \A s \in LiveIn(kind, flow) : born[s] <= top.depth
  BY <1>1 DEF Current, top
<1>8. program \in Seq(Tokens(DOMAIN kind)) /\ Len(program) \in Nat
  BY DEF Written, Certified
<1> QED
  BY <1>2, <1>3, <1>4, <1>5, <1>6, <1>7, <1>8 DEF top, loop_depth

\* Token t defines s; then the state is g, and the symbols are born in b.
Declares(s, t, g, b) ==
    /\ \E initialized \in BOOLEAN :
           /\ t = [op |-> "def", on |-> s, initialized |-> initialized]
           /\ g = Define(flow, s, initialized)
    /\ b = [born EXCEPT ![s] = loop_depth]

\* A definition brings its symbol into the scope of the last open statement (L) or
\* of one that is about to be opened (X).
LEMMA Declared ==
    ASSUME Kinds, NEW N, Written(N), flow.reaches, NEW s \in Symbols, flow.init[s] = "out",
           NEW t, NEW g, NEW b, Declares(s, t, g, b),
           NEW L, NEW X, L \cup X = {s}, NEW G, Widens(frames, L, G)
    PROVE  /\ FlowSound(kind, g) /\ g.reaches /\ LiveIn(kind, g) = LiveIn(kind, flow) \cup {s}
           /\ \E M : /\ Certified(kind, reassigned, Append(program, t), M)
                     /\ FramedBut(kind, reassigned, Append(program, t), M, G, g, b, X)
<1>1. PICK k : k = Len(frames) + 1
  OBVIOUS
<1>b. PICK initialized \in BOOLEAN :
        /\ t = [op |-> "def", on |-> s, initialized |-> initialized]
        /\ g = Define(flow, s, initialized)
        /\ b = [born EXCEPT ![s] = loop_depth]
  BY DEF Declares
<1>a. PICK state \in {"set", "unset"} : state = IF initialized THEN "set" ELSE "unset"
  OBVIOUS
<1>2. /\ frames \in Seq(FrameSet(kind)) /\ Len(frames) \in Nat /\ Len(frames) >= 1
      /\ loop_depth \in Nat /\ born \in [Symbols -> Nat]
      /\ flow \in FlowSet(kind) /\ FlowSound(kind, flow)
      /\ Later(kind, reassigned, born, top.depth, top.before, flow)
      /\ \A x \in LiveIn(kind, flow) : born[x] <= top.depth
  BY Standing
<1>3. /\ g \in FlowSet(kind) /\ (g.reaches <=> flow.reaches) /\ ButFor(kind, flow, g, s)
      /\ g.init[s] = state /\ g.proof[s] = "unknown" /\ s \notin g.handled
  BY <1>a, <1>b, <1>2, DefineIs DEF Symbols
<1>4. s \in DOMAIN kind /\ s \notin LiveIn(kind, flow) /\ L \subseteq {s}
  BY DEF Symbols, LiveIn
<1>5. t \in Tokens(DOMAIN kind) /\ t.op = "def" /\ t.on = s /\ t.initialized = initialized
  BY <1>b, <1>4, TokenMade
<1>6. g.reaches
  BY <1>3
<1>7. ASSUME NEW v \in Known PROVE ~Lasts(frames, k, s, v)
  <2> SUFFICES ASSUME Lasts(frames, k, s, v) PROVE FALSE
    OBVIOUS
  <2>1. FramesSound(kind, reassigned, program, N, frames, born)
    BY DEF Written, Framed, FramedBut
  <2>2. k \in 2..(Len(frames) + 1) /\ k - 1 = Len(frames)
    BY <1>1, <1>2
  <2>3. s \in LiveIn(kind, frames[k - 1].before)
    BY <1>4, <2>1, <2>2, LastsLive
  <2>4. LiveIn(kind, top.before) \subseteq LiveIn(kind, flow)
    BY <1>2 DEF Later
  <2> QED
    BY <1>4, <2>2, <2>3, <2>4 DEF top
<1>8. Sets(kind, reassigned, Note(flow, frames, k), Note(g, frames, k), s, state)
  BY <1>2, <1>3, <1>4, <1>6, <1>7, SetsNote
<1>9. StepSound(kind, reassigned, t, Note(flow, frames, k), Note(g, frames, k))
  BY <1>a, <1>5, <1>8 DEF StepSound, Loops
<1>10. FlowSound(kind, g)
  BY <1>2, <1>3, <1>4, SoundButFor
<1>11. b \in [Symbols -> Nat] /\ b[s] = loop_depth /\ \A x \in LiveIn(kind, flow) : b[x] = born[x]
  BY <1>b, <1>2, <1>4 DEF LiveIn, Symbols
<1>12. Later(kind, reassigned, b, top.depth, flow, g) /\ LiveIn(kind, g) = LiveIn(kind, flow) \cup {s}
  <2>1. Keeps(kind, reassigned, b, top.depth, flow, g, s)
    BY <1>4 DEF Keeps
  <2>2. g.init[s] # "out" /\ flow.init[s] = "out"
    BY <1>3
  <2> QED
    BY <1>3, <1>4, <2>1, <2>2, LaterButFor
<1>13. \A x \in LiveIn(kind, g) : b[x] <= top.depth
  BY <1>2, <1>11, <1>12 DEF loop_depth
<1>14. L \subseteq DOMAIN kind /\ L \cap LiveIn(kind, flow) = {} /\ t.op \notin Closes /\ t.op \notin Openers
  BY <1>4, <1>5 DEF Closes, Openers, Loops
<1>15. /\ Certified(kind, reassigned, program, N)
       /\ Framed(kind, reassigned, program, N, frames, flow, born)
       /\ b \in [DOMAIN kind -> Nat] /\ Reborn(kind, flow, born, b)
       /\ Goes(kind, reassigned, b, frames[Len(frames)].depth, flow, g, L \cup X)
  BY <1>11, <1>12, <1>13 DEF Written, Symbols, Reborn, Goes, top
<1>16. \E M : /\ Certified(kind, reassigned, Append(program, t), M)
              /\ FramedBut(kind, reassigned, Append(program, t), M, G, g, b, X)
  BY <1>1, <1>5, <1>9, <1>10, <1>14, <1>15, SimpleStep
<1> QED
  BY <1>6, <1>10, <1>12, <1>16

\* A declaration.
LEMMA DeclareIsWritten ==
    ASSUME Kinds, NEW N, Written(N), Declare
    PROVE  \E M : Written(M)'
<1>1. PICK s \in Symbols, initialized \in BOOLEAN :
        /\ flow.init[s] = "out"
        /\ flow' = Define(flow, s, initialized)
        /\ born' = [born EXCEPT ![s] = loop_depth]
        /\ frames' = Widened(frames, {s})
        /\ program' = Append(program, [op |-> "def", on |-> s, initialized |-> initialized])
        /\ UNCHANGED <<kind, reassigned>>
  BY DEF Declare, Emit, Checks, Widened
<1>2. flow.reaches
  BY DEF Declare, Reachable
<1>3. {s} \cup {} = {s} /\ Widens(frames, {s}, Widened(frames, {s}))
  BY DEF Widens
<1>4. PICK t : t = [op |-> "def", on |-> s, initialized |-> initialized]
  OBVIOUS
<1>5. Declares(s, t, flow', born')
  BY <1>1, <1>4 DEF Declares
<1>6. \E M : /\ Certified(kind, reassigned, Append(program, t), M)
             /\ FramedBut(kind, reassigned, Append(program, t), M, Widened(frames, {s}), flow', born', {})
  BY <1>1, <1>2, <1>3, <1>5, Declared, ZenonT(60)
<1> QED
  BY <1>1, <1>4, <1>6 DEF Written, Framed

\* An assignment, which excepts a result in a loop around which it lives.
LEMMA AssignIsWritten ==
    ASSUME Kinds, NEW N, Written(N), Assign
    PROVE  \E M : Written(M)'
<1>1. PICK s \in Symbols :
        /\ Writable(flow, s)
        /\ flow' = Store(flow, s)
        /\ reassigned' = reassigned \cup Reassigns(s)
        /\ program' = Append(program, [op |-> "set", on |-> s])
        /\ UNCHANGED <<kind, born, frames>>
  BY DEF Assign, Emit, Checks
<1>0. flow.reaches
  BY DEF Assign, Reachable
<1> DEFINE t == [op |-> "set", on |-> s]
           k == Len(frames) + 1
           R == reassigned'
<1>2. /\ frames \in Seq(FrameSet(kind)) /\ Len(frames) \in Nat /\ Len(frames) >= 1
      /\ loop_depth \in Nat /\ born \in [Symbols -> Nat]
      /\ flow \in FlowSet(kind) /\ FlowSound(kind, flow)
      /\ \A x \in LiveIn(kind, flow) : born[x] <= top.depth
  BY <1>0, Standing
<1>3. /\ flow' \in FlowSet(kind) /\ (flow'.reaches <=> flow.reaches) /\ ButFor(kind, flow, flow', s)
      /\ flow'.init[s] = "set" /\ flow'.proof[s] = "unknown" /\ s \notin flow'.handled
  BY <1>1, <1>2, StoreIs DEF Symbols
<1>4. /\ s \in DOMAIN kind /\ s \in LiveIn(kind, flow)
      /\ kind[s].mutable \/ (flow.init[s] = "unset" /\ born[s] = loop_depth)
      /\ loop_depth = top.depth
  BY <1>1 DEF Symbols, LiveIn, Writable, loop_depth
<1>5. t \in Tokens(DOMAIN kind) /\ t.op = "set" /\ t.on = s
  BY <1>4, TokenMade
<1>6. flow'.reaches
  BY <1>0, <1>3
<1>7. kind[s].result /\ born[s] < top.depth => s \in R
  BY <1>1, <1>4 DEF Reassigns
<1>8. s \notin R => \A v \in Known : ~Lasts(frames, k, s, v)
  <2> SUFFICES ASSUME NEW v \in Known, Lasts(frames, k, s, v) PROVE s \in R
    OBVIOUS
  <2>1. FramesSound(kind, reassigned, program, N, frames, born)
    BY DEF Written, Framed, FramedBut
  <2>2. k \in 2..(Len(frames) + 1) /\ k - 1 = Len(frames)
    BY <1>2
  <2>3. kind[s].result /\ born[s] < frames[k - 1].depth
    BY <1>4, <2>1, <2>2, LastsLive
  <2> QED
    BY <1>7, <2>2, <2>3 DEF top
<1>9. Sets(kind, R, Note(flow, frames, k), Note(flow', frames, k), s, "set")
  BY <1>2, <1>3, <1>4, <1>6, <1>8, SetsNote
<1>10. Note(flow, frames, k).init = flow.init
  BY <1>2, NoteIs
<1>11. StepSound(kind, R, t, Note(flow, frames, k), Note(flow', frames, k))
  BY <1>4, <1>5, <1>9, <1>10 DEF StepSound, Loops
<1>12. FlowSound(kind, flow')
  BY <1>2, <1>3, <1>4, SoundButFor
<1>13. Later(kind, R, born, top.depth, flow, flow') /\ LiveIn(kind, flow') = LiveIn(kind, flow) \cup {s}
  <2>1. Keeps(kind, R, born, top.depth, flow, flow', s)
    <3>1. born[s] \in Nat
      BY <1>2, <1>4 DEF Symbols
    <3>2. s \in flow.handled => kind[s].result
      BY <1>2, <1>4 DEF FlowSound
    <3> QED
      BY <1>2, <1>4, <1>7, <3>1, <3>2 DEF Keeps
  <2> QED
    BY <1>3, <1>4, <2>1, LaterButFor
<1>14. \A x \in LiveIn(kind, flow') : born[x] <= top.depth
  BY <1>2, <1>4, <1>13
<1>15. t.op \notin Closes /\ t.op \notin Openers
  BY <1>5 DEF Closes, Openers, Loops
<1>16. /\ Certified(kind, reassigned, program, N)
       /\ Framed(kind, reassigned, program, N, frames, flow, born)
       /\ reassigned \subseteq R /\ born \in [DOMAIN kind -> Nat]
       /\ {} \subseteq DOMAIN kind /\ {} \cap LiveIn(kind, flow) = {}
       /\ Reborn(kind, flow, born, born) /\ Widens(frames, {}, frames) /\ k = Len(frames) + 1
       /\ Goes(kind, R, born, frames[Len(frames)].depth, flow, flow', {} \cup {})
  BY <1>1, <1>2, <1>4, <1>13, <1>14 DEF Written, Symbols, Reborn, Widens, Goes, top
<1> HIDE DEF t, k, R
<1>17. \E M : /\ Certified(kind, R, Append(program, t), M)
              /\ FramedBut(kind, R, Append(program, t), M, frames, flow', born, {})
  BY <1>0, <1>5, <1>11, <1>12, <1>15, <1>16, SimpleStep
<1> QED
  BY <1>1, <1>17 DEF Written, Framed, t, R

\* A token that brings nothing into scope.
LEMMA StepIsWritten ==
    ASSUME NEW N, Written(N), flow.reaches,
           NEW t \in Tokens(DOMAIN kind), t.op \notin Closes, t.op \notin Openers,
           program' = Append(program, t), FlowSound(kind, flow'), NEW k, k = Len(frames) + 1,
           StepSound(kind, reassigned, t, Note(flow, frames, k), Note(flow', frames, k)),
           Goes(kind, reassigned, born, top.depth, flow, flow', {}),
           UNCHANGED <<kind, born, frames, reassigned>>
    PROVE  \E M : Written(M)'
<1>1. born \in [DOMAIN kind -> Nat]
  BY Standing DEF Symbols
<1>2. /\ Certified(kind, reassigned, program, N)
      /\ Framed(kind, reassigned, program, N, frames, flow, born)
      /\ {} \subseteq DOMAIN kind /\ {} \cap LiveIn(kind, flow) = {}
      /\ Reborn(kind, flow, born, born) /\ Widens(frames, {}, frames)
      /\ Goes(kind, reassigned, born, frames[Len(frames)].depth, flow, flow', {} \cup {})
  BY DEF Written, Reborn, Widens, top
<1>3. \E M : /\ Certified(kind, reassigned, Append(program, t), M)
             /\ FramedBut(kind, reassigned, Append(program, t), M, frames, flow', born, {})
  BY <1>1, <1>2, SimpleStep
<1> QED
  BY <1>3 DEF Written, Framed

\* What stays as it is goes on.
LEMMA GoesSame ==
    ASSUME NEW N, Written(N), flow.reaches
    PROVE  Goes(kind, reassigned, born, top.depth, flow, flow, {})
BY Standing DEF Goes, Later

\* A read.
LEMMA ReadIsWritten ==
    ASSUME Kinds, NEW N, Written(N), Read
    PROVE  \E M : Written(M)'
<1>1. PICK s \in Symbols, op \in {"read", "value", "error"} :
        /\ Access(flow, op, s)
        /\ program' = Append(program, [op |-> op, on |-> s])
        /\ UNCHANGED <<kind, flow, born, frames, reassigned>>
  BY DEF Read, Emit, Checks
<1>2. flow.reaches
  BY DEF Read, Reachable
<1> DEFINE t == [op |-> op, on |-> s]
           k == Len(frames) + 1
<1>3. flow \in FlowSet(kind) /\ FlowSound(kind, flow)
  BY <1>2, Standing
<1>4. s \in DOMAIN kind
  BY DEF Symbols
<1>5. t \in Tokens(DOMAIN kind) /\ t.op = op /\ t.on = s
  BY <1>4, TokenMade
<1>6. /\ Note(flow, frames, k).init = flow.init
      /\ \A v : v \in Note(flow, frames, k).facts[s] <=> v \in Known /\ (flow.proof[s] = v \/ Lasts(frames, k, s, v))
  BY <1>3, <1>4, NoteIs
<1>7. StepSound(kind, reassigned, t, Note(flow, frames, k), Note(flow, frames, k))
  BY <1>1, <1>5, <1>6, PlainSame DEF StepSound, Loops, Access, Known
<1>8. t.op \notin Closes /\ t.op \notin Openers
  BY <1>5 DEF Closes, Openers, Loops
<1>9. Goes(kind, reassigned, born, top.depth, flow, flow, {})
  BY <1>2, GoesSame
<1>10. program' = Append(program, t) /\ k = Len(frames) + 1
  BY <1>1
<1> HIDE DEF t, k
<1> QED
  BY <1>1, <1>2, <1>3, <1>5, <1>7, <1>8, <1>9, <1>10, StepIsWritten

\* A deferred call.
LEMMA DeferIsWritten ==
    ASSUME Kinds, NEW N, Written(N), Defer
    PROVE  \E M : Written(M)'
<1>1. PICK s \in (Symbols \ Results) \cup {None} :
        /\ Readable(flow, s)
        /\ program' = Append(program, [op |-> "defer", on |-> s])
        /\ UNCHANGED <<kind, flow, born, frames, reassigned>>
  BY DEF Defer, Emit, Checks
<1>2. flow.reaches
  BY DEF Defer, Reachable
<1> DEFINE t == [op |-> "defer", on |-> s]
           k == Len(frames) + 1
<1>3. flow \in FlowSet(kind) /\ FlowSound(kind, flow)
  BY <1>2, Standing
<1>4. s \in DOMAIN kind \cup {None}
  BY DEF Symbols
<1>5. t \in Tokens(DOMAIN kind) /\ t.op = "defer" /\ t.on = s
  BY <1>4 DEF Tokens
<1>6. Note(flow, frames, k).init = flow.init
  BY <1>3, NoteIs
<1>7. StepSound(kind, reassigned, t, Note(flow, frames, k), Note(flow, frames, k))
  BY <1>1, <1>5, <1>6, PlainSame DEF StepSound, Loops, Readable
<1>8. t.op \notin Closes /\ t.op \notin Openers
  BY <1>5 DEF Closes, Openers, Loops
<1>9. Goes(kind, reassigned, born, top.depth, flow, flow, {})
  BY <1>2, GoesSame
<1>10. program' = Append(program, t) /\ k = Len(frames) + 1
  BY <1>1
<1> HIDE DEF t, k
<1> QED
  BY <1>1, <1>2, <1>3, <1>5, <1>7, <1>8, <1>9, <1>10, StepIsWritten

\* A match on a result.
LEMMA MatchIsWritten ==
    ASSUME Kinds, NEW N, Written(N), Match
    PROVE  \E M : Written(M)'
<1>1. PICK s \in Results, arm \in {"both", "success", "error"} :
        /\ flow.init[s] = "set"
        /\ flow' = [flow EXCEPT !.handled = @ \cup {s}, !.proof[s] = IF arm = @ THEN @ ELSE "unknown"]
        /\ program' = Append(program, [op |-> "match", on |-> s])
        /\ UNCHANGED <<kind, born, frames, reassigned>>
  BY DEF Match, Emit, Checks
<1>2. flow.reaches
  BY DEF Match, Reachable
<1> DEFINE t == [op |-> "match", on |-> s]
           k == Len(frames) + 1
           keeps == arm = flow.proof[s]
<1>3. flow \in FlowSet(kind) /\ FlowSound(kind, flow) /\ \A x \in LiveIn(kind, flow) : born[x] <= top.depth
  BY <1>2, Standing
<1>4. s \in DOMAIN kind /\ kind[s].result /\ s \in LiveIn(kind, flow)
  BY <1>1 DEF Symbols, Results, LiveIn
<1>5. t \in Tokens(DOMAIN kind) /\ t.op = "match" /\ t.on = s
  BY <1>4, TokenMade
<1>6. flow' = Matched(flow, s, keeps)
  BY <1>1 DEF Matched
<1>7. keeps \in BOOLEAN
  OBVIOUS
<1>8. program' = Append(program, t) /\ k = Len(frames) + 1
  BY <1>1
<1> HIDE DEF t, k, keeps
<1>9. /\ flow' \in FlowSet(kind) /\ (flow'.reaches <=> flow.reaches) /\ ButFor(kind, flow, flow', s)
      /\ flow'.init[s] = flow.init[s] /\ flow'.proof[s] \in {flow.proof[s], "unknown"} /\ s \in flow'.handled
  BY <1>3, <1>4, <1>6, <1>7, MatchedIs
<1>10. flow'.reaches
  BY <1>2, <1>9
<1>11. flow'.init[s] = "set"
  BY <1>1, <1>9
<1>12. Note(flow, frames, k).init = flow.init
  BY <1>3, NoteIs
<1>13. Matches(kind, reassigned, Note(flow, frames, k), Note(flow', frames, k), s)
  BY <1>3, <1>4, <1>9, <1>10, <1>11, MatchesNote
<1>14. StepSound(kind, reassigned, t, Note(flow, frames, k), Note(flow', frames, k))
  BY <1>1, <1>5, <1>12, <1>13 DEF StepSound, Loops
<1>15. FlowSound(kind, flow')
  BY <1>3, <1>4, <1>9, <1>11, SoundButFor
<1>16. Later(kind, reassigned, born, top.depth, flow, flow') /\ LiveIn(kind, flow') = LiveIn(kind, flow) \cup {s}
  <2>1. Keeps(kind, reassigned, born, top.depth, flow, flow', s)
    BY <1>1, <1>9 DEF Keeps
  <2> QED
    BY <1>4, <1>9, <1>11, <2>1, LaterButFor
<1>17. Goes(kind, reassigned, born, top.depth, flow, flow', {})
  BY <1>3, <1>4, <1>16 DEF Goes
<1>18. t.op \notin Closes /\ t.op \notin Openers
  BY <1>5 DEF Closes, Openers, Loops
<1> QED
  BY <1>1, <1>2, <1>5, <1>8, <1>14, <1>15, <1>17, <1>18, StepIsWritten

\* A return, after which nothing is reached.
LEMMA ReturnIsWritten ==
    ASSUME Kinds, NEW N, Written(N), Return
    PROVE  \E M : Written(M)'
<1>1. /\ (Results \cap Live(flow)) \subseteq flow.handled
      /\ flow' = [flow EXCEPT !.reaches = FALSE]
      /\ program' = Append(program, [op |-> "return", on |-> None])
      /\ UNCHANGED <<kind, born, frames, reassigned>>
  BY DEF Return, Emit, Checks
<1>2. flow.reaches
  BY DEF Return, Reachable
<1> DEFINE t == [op |-> "return", on |-> None]
           k == Len(frames) + 1
<1>3. flow \in FlowSet(kind) /\ FlowSound(kind, flow)
  BY <1>2, Standing
<1>4. t \in Tokens(DOMAIN kind) /\ t.op = "return" /\ t.on = None
  BY DEF Tokens
<1>5. program' = Append(program, t) /\ k = Len(frames) + 1
  BY <1>1
<1> HIDE DEF t, k
<1>6. flow' = [init |-> flow.init, proof |-> flow.proof, handled |-> flow.handled, reaches |-> FALSE]
  <2>1. flow = [init |-> flow.init, proof |-> flow.proof, handled |-> flow.handled, reaches |-> flow.reaches]
    BY <1>3, FlowIs
  <2> QED
    BY <1>1, <2>1
<1>7. flow' \in FlowSet(kind)
  BY <1>3, <1>6, FlowIs, FlowMade
<1>8. FlowSound(kind, flow') /\ ~flow'.reaches
  BY <1>3, <1>6, <1>7 DEF FlowSound
<1>9. Note(flow, frames, k).init = flow.init /\ Note(flow, frames, k).handled = flow.handled
  BY <1>3, NoteIs
<1>10. StepSound(kind, reassigned, t, Note(flow, frames, k), Note(flow', frames, k))
  BY <1>1, <1>4, <1>9 DEF StepSound, Loops, Results, Live, Symbols
<1>11. Goes(kind, reassigned, born, top.depth, flow, flow', {})
  BY <1>8 DEF Goes
<1>12. t.op \notin Closes /\ t.op \notin Openers
  BY <1>4 DEF Closes, Openers, Loops
<1> QED
  BY <1>1, <1>2, <1>4, <1>5, <1>8, <1>10, <1>11, <1>12, StepIsWritten

-----------------------------------------------------------------------------
(* Statements that are opened.                                             *)

\* What the loops around a new statement began with.
LEMMA LastsPushed ==
    ASSUME NEW kd, NEW F \in Seq(FrameSet(kd)), NEW x \in FrameSet(kd), NEW H, Pushed(F, x, H),
           NEW m \in Nat, m = Len(F), NEW k \in Nat, k = m + 1, NEW l \in Nat, l = k + 1,
           NEW f, x.before.proof = f.proof, NEW s, NEW v, Lasts(H, l, s, v)
    PROVE  Lasts(F, k, s, v) \/ f.proof[s] = v
<1>1. H[k] = x /\ Alike(F, H, m)
  BY DEF Pushed, Alike
<1>2. Lasts(H, k, s, v) \/ (H[k].op \in Loops /\ H[k].before.proof[s] = v)
  <2>1. Lasts(H, k + 1, s, v) /\ k \in Nat \ {0}
    OBVIOUS
  <2> QED
    BY <2>1, LastsNext
<1>3. k \in 1..(m + 1)
  OBVIOUS
<1>4. Lasts(H, k, s, v) => Lasts(F, k, s, v)
  BY <1>1, <1>3, LastsAlike
<1> QED
  BY <1>1, <1>2, <1>4

\* The state after token t, which tests c if it tests anything, in the statement it opens.
LEMMA OpenNote ==
    ASSUME NEW kd, None \notin DOMAIN kd, NEW R,
           NEW F \in Seq(FrameSet(kd)), NEW x \in FrameSet(kd), NEW H, Pushed(F, x, H),
           NEW m \in Nat, m = Len(F), NEW k \in Nat, k = m + 1, NEW l \in Nat, l = k + 1,
           NEW f \in FlowSet(kd), f.reaches, x.before.proof = f.proof,
           NEW c \in [on : DOMAIN kd \cup {None}, holds : BOOLEAN], c.on # None => f.init[c.on] = "set",
           NEW t \in Tokens(DOMAIN kd), t.op \in Openers, t.on = c.on,
           t.op \in {"if"} \cup Loops => t.holds = c.holds,
           t.op \in {"block", "switch"} => c.on = None
    PROVE  StepSound(kd, R, t, Note(f, F, k), Note(Refined(f, c, TRUE), H, l))
<1> DEFINE g == Refined(f, c, TRUE)
           n == Note(f, F, k)
           o == Note(g, H, l)
<1>0. Refines(kd, f, c, TRUE, g)
  BY RefinedIs
<1> HIDE DEF g
<1>1. /\ g \in FlowSet(kd) /\ g.init = f.init
      /\ g.handled = f.handled \cup ({c.on} \ {None})
      /\ \A s \in DOMAIN kd : g.proof[s] = IF s = c.on THEN Finds(c, TRUE) ELSE f.proof[s]
  BY <1>0 DEF Refines
<1>2. g.reaches
  BY <1>0 DEF Refines
<1>3. /\ n.init = f.init /\ n.handled = f.handled
      /\ \A s \in DOMAIN kd : \A v : v \in n.facts[s] <=> v \in Known /\ (f.proof[s] = v \/ Lasts(F, k, s, v))
  BY NoteIs
<1>4. /\ o.init = g.init /\ o.handled = g.handled
      /\ \A s \in DOMAIN kd : \A v : v \in o.facts[s] <=> v \in Known /\ (g.proof[s] = v \/ Lasts(H, l, s, v))
  BY <1>1, NoteIs
<1>5. o.reaches
  <2>1. (o.reaches <=> g.reaches)
    BY <1>1, NoteIs, Zenon
  <2> QED
    BY <1>2, <2>1, Zenon
<1> HIDE DEF n, o
<1>6. \A s, v : Lasts(H, l, s, v) => Lasts(F, k, s, v) \/ f.proof[s] = v
  BY LastsPushed
<1>7. ASSUME NEW s \in DOMAIN kd, s # c.on PROVE AtLeast(kd, R, n, o, s)
  <2>1. o.facts[s] \subseteq n.facts[s]
    BY <1>1, <1>3, <1>4, <1>6, <1>7, ZenonT(60)
  <2> QED
    BY <1>1, <1>3, <1>4, <1>7, <2>1 DEF AtLeast
<1>8. t.op \in {"block", "switch"} => Plain(kd, R, n, o)
  BY <1>5, <1>7 DEF Plain
<1>9. t.op \in {"if"} \cup Loops => Tests(kd, R, n, o, t, TRUE, {})
  <2> SUFFICES ASSUME t.op \in {"if"} \cup Loops, c.on \in DOMAIN kd
               PROVE  /\ o.init[c.on] \notin {"out", "unset"}
                      /\ o.facts[c.on] \subseteq n.facts[c.on] \cup {Finds(t, TRUE)}
    BY <1>5, <1>7 DEF Tests
  <2>1. Finds(t, TRUE) = Finds(c, TRUE)
    BY DEF Finds
  <2>2. o.facts[c.on] \subseteq n.facts[c.on] \cup {Finds(c, TRUE)}
    <3>1. PICK w : w = Finds(c, TRUE)
      OBVIOUS
    <3>2. PICK s \in DOMAIN kd : s = c.on
      OBVIOUS
    <3>3. g.proof[s] = w
      BY <1>1, <3>1, <3>2
    <3>4. \A v \in o.facts[s] : v = w \/ v \in n.facts[s]
      BY <1>3, <1>4, <1>6, <3>3
    <3> QED
      BY <3>1, <3>2, <3>4
  <2> QED
    BY <1>1, <1>4, <2>1, <2>2
<1>10. StepSound(kd, R, t, n, o)
  BY <1>3, <1>8, <1>9 DEF StepSound, Openers, Loops
<1> QED
  BY <1>10 DEF n, o, g

\* The state f, reaching on or not.
Reaching(f, r) == [init |-> f.init, proof |-> f.proof, handled |-> f.handled, reaches |-> r]

\* Token t opens, in state f, a statement with condition c and header X; x is its
\* frame, behind i tokens and in d loops, and r is whether no branch may be taken.
Opening(f, X, c, t, r, i, d, x) ==
    /\ Fresh(kind, f, top, X)
    /\ c \in [on : Symbols \cup {None}, holds : BOOLEAN]
    /\ c.on # None => f.init[c.on] = "set" /\ kind[c.on].result
    /\ t.op \in Openers /\ t.on = c.on
    /\ t.op \in {"if"} \cup Loops => t.holds = c.holds
    /\ t.op \in {"block", "switch"} => c.on = None
    /\ X = IF t.op \in Loops THEN t.header ELSE {}
    /\ t.op = "while" => X = {}
    /\ r \in BOOLEAN /\ (r <=> t.op = "switch" /\ ~t.exhaustive)
    /\ d = top.depth + (IF t.op \in Loops THEN 1 ELSE 0)
    /\ x = [op |-> t.op, start |-> i, cond |-> c, before |-> Tested(f, c),
            merged |-> Reaching(f, r), depth |-> d, locals |-> {}, header |-> X]

\* A statement is opened by token t.
LEMMA Opened ==
    ASSUME Kinds, NEW p, NEW N, NEW b, NEW f, NEW X, Certified(kind, reassigned, p, N),
           FramedBut(kind, reassigned, p, N, frames, f, b, X), f.reaches,
           NEW t \in Tokens(DOMAIN kind), NEW c, NEW r, NEW i, i = Len(p) + 1, NEW d, NEW x,
           Opening(f, X, c, t, r, i, d, x)
    PROVE  \E M : /\ Certified(kind, reassigned, Append(p, t), M)
                  /\ Framed(kind, reassigned, Append(p, t), M, Append(frames, x), Refined(f, c, TRUE), b)
<1>a. /\ Fresh(kind, f, top, X)
      /\ c \in [on : Symbols \cup {None}, holds : BOOLEAN]
      /\ c.on # None => f.init[c.on] = "set" /\ kind[c.on].result
      /\ t.op \in Openers /\ t.on = c.on
      /\ t.op \in {"if"} \cup Loops => t.holds = c.holds
      /\ t.op \in {"block", "switch"} => c.on = None
      /\ X = IF t.op \in Loops THEN t.header ELSE {}
      /\ t.op = "while" => X = {}
      /\ d = top.depth + (IF t.op \in Loops THEN 1 ELSE 0)
  BY DEF Opening
<1>b. r \in BOOLEAN /\ (r <=> t.op = "switch" /\ ~t.exhaustive)
  BY DEF Opening
<1>c. x = [op |-> t.op, start |-> i, cond |-> c, before |-> Tested(f, c),
            merged |-> Reaching(f, r), depth |-> d, locals |-> {}, header |-> X]
  BY DEF Opening
<1>1. /\ FramesSound(kind, reassigned, p, N, frames, b) /\ Current(kind, reassigned, frames, f, b, X)
      /\ None \notin DOMAIN kind /\ Symbols = DOMAIN kind
  BY DEF FramedBut, Kinds, Symbols
<1>2. frames \in Seq(FrameSet(kind)) /\ Len(frames) \in Nat /\ Len(frames) >= 1
  BY <1>1 DEF FramesSound
<1>3. PICK m \in Nat : m = Len(frames)
  BY <1>2
<1>4. PICK k \in Nat : k = m + 1
  OBVIOUS
<1>5. PICK l \in Nat : l = k + 1
  OBVIOUS
<1>6. i \in Nat /\ d \in Nat /\ top = frames[m]
  <2>1. Len(p) \in Nat
    BY DEF Certified
  <2>2. frames[m] \in FrameSet(kind)
    BY <1>2, <1>3
  <2>3. top.depth \in Nat
    BY <1>3, <2>2 DEF top, FrameSet
  <2> QED
    BY <1>3, <1>a, <2>1, <2>3 DEF top
<1>7. f \in FlowSet(kind) /\ FlowSound(kind, f)
  BY <1>1 DEF Current, FlowSound
<1> DEFINE before == Tested(f, c)
           merged == Reaching(f, r)
           g == Refined(f, c, TRUE)
<1>8. /\ before \in FlowSet(kind) /\ before.init = f.init /\ before.proof = f.proof
      /\ before.handled = f.handled \cup ({c.on} \ {None})
  BY <1>1, <1>7, <1>a, TestedIs
<1>9. before.reaches
  <2>1. (before.reaches <=> f.reaches)
    BY <1>1, <1>7, <1>a, TestedIs
  <2> QED
    BY <2>1, Zenon
<1>10. /\ merged \in FlowSet(kind) /\ merged.init = f.init /\ merged.proof = f.proof
       /\ merged.handled = f.handled
  BY <1>7, <1>b, FlowIs, FlowMade DEF Reaching
<1>11. merged.reaches <=> t.op = "switch" /\ ~t.exhaustive
  BY <1>b DEF Reaching
<1>21. Refines(kind, f, c, TRUE, g)
  BY <1>1, <1>7, <1>a, RefinedIs
<1> HIDE DEF g
<1>12. /\ g \in FlowSet(kind) /\ g.init = f.init /\ g.handled = before.handled
       /\ \A s \in DOMAIN kind : g.proof[s] = IF s = c.on THEN Finds(c, TRUE) ELSE f.proof[s]
  BY <1>8, <1>21 DEF Refines
<1>13. g.reaches
  BY <1>21 DEF Refines
<1> HIDE DEF before, merged
<1>14. FlowSound(kind, before) /\ FlowSound(kind, merged) /\ FlowSound(kind, g)
  <2>1. c.on # None => c.on \in DOMAIN kind /\ f.init[c.on] = "set" /\ kind[c.on].result
    BY <1>1, <1>a
  <2>2. FlowSound(kind, before)
    BY <1>7, <1>8, <2>1 DEF FlowSound
  <2>3. FlowSound(kind, merged)
    BY <1>7, <1>10 DEF FlowSound
  <2>4. FlowSound(kind, g)
    <3> SUFFICES ASSUME NEW s \in DOMAIN kind
                 PROVE  /\ g.proof[s] # "unknown" => kind[s].result /\ g.init[s] # "out"
                        /\ s \in g.handled => kind[s].result /\ g.init[s] # "out"
      BY <1>12 DEF FlowSound
    <3>1. CASE s = c.on
      BY <1>1, <1>12, <2>1, <3>1
    <3>2. CASE s # c.on
      BY <1>7, <1>8, <1>12, <3>2 DEF FlowSound
    <3> QED
      BY <3>1, <3>2
  <2> QED
    BY <2>2, <2>3, <2>4
<1>15. /\ x.op = t.op /\ x.start = i /\ x.cond = c /\ x.before = before /\ x.merged = merged
       /\ x.depth = d /\ x.locals = {} /\ x.header = X
  BY <1>c DEF before, merged
<1>16. x \in FrameSet(kind)
  <2>1. X \in SUBSET DOMAIN kind
    BY <1>a DEF Fresh, LiveIn
  <2>2. c \in [on : DOMAIN kind \cup {None}, holds : BOOLEAN]
    BY <1>1, <1>a
  <2>3. x = [op |-> t.op, start |-> i, cond |-> c, before |-> before, merged |-> merged,
             depth |-> d, locals |-> {}, header |-> X]
    BY <1>c DEF before, merged
  <2>4. t.op \in {"body", "else"} \cup Openers
    BY <1>a
  <2> QED
    BY <1>6, <1>8, <1>10, <2>1, <2>2, <2>3, <2>4 DEF FrameSet
<1>17. Starts(x, t, f, X, i, frames[m].depth)
  BY <1>6, <1>8, <1>9, <1>10, <1>11, <1>15, <1>a DEF Starts
<1>18. PICK H : Pushed(frames, x, H)
  BY DEF Pushed
<1>19. StepSound(kind, reassigned, t, Note(f, frames, k), Note(g, H, l))
  <2>1. x.before.proof = f.proof
    BY <1>8, <1>15
  <2> QED
    BY <1>1, <1>2, <1>3, <1>4, <1>5, <1>7, <1>16, <1>18, <1>a, <2>1, OpenNote DEF g
<1>20. \E M : /\ Certified(kind, reassigned, Append(p, t), M)
              /\ Framed(kind, reassigned, Append(p, t), M, H, g, b)
  <2>1. /\ Fresh(kind, f, frames[m], X)
        /\ FlowSound(kind, x.before) /\ FlowSound(kind, x.merged)
        /\ x.before.handled \subseteq g.handled
        /\ t.on # None => f.init[t.on] = "set"
        /\ t.op \in Openers
    BY <1>6, <1>12, <1>14, <1>15, <1>a
  <2> QED
    BY <1>1, <1>3, <1>4, <1>5, <1>6, <1>12, <1>13, <1>14, <1>16, <1>17, <1>18, <1>19, <2>1, OpenStep, SMTT(30)
<1> QED
  BY <1>18, <1>20 DEF Pushed, g

\* A statement is opened in the state that was there.
LEMMA OpenIsWritten ==
    ASSUME Kinds, NEW N, Written(N), flow.reaches,
           NEW t \in Tokens(DOMAIN kind), NEW c, NEW r, NEW d, NEW x,
           Opening(flow, {}, c, t, r, Len(program) + 1, d, x),
           program' = Append(program, t), frames' = Append(frames, x),
           flow' = Refined(flow, c, TRUE), UNCHANGED <<kind, born, reassigned>>
    PROVE  \E M : Written(M)'
<1>1. PICK i : i = Len(program) + 1
  OBVIOUS
<1>2. /\ Certified(kind, reassigned, program, N)
      /\ FramedBut(kind, reassigned, program, N, frames, flow, born, {})
  BY DEF Written, Framed
<1>3. PICK M : /\ Certified(kind, reassigned, Append(program, t), M)
               /\ Framed(kind, reassigned, Append(program, t), M, Append(frames, x), Refined(flow, c, TRUE), born)
  BY <1>1, <1>2, Opened
<1>4. Written(M)'
  BY <1>3 DEF Written
<1> QED
  BY <1>4

\* The state with another end.
LEMMA ReachingIs ==
    ASSUME NEW f \in FlowSet(kind), NEW r
    PROVE  [f EXCEPT !.reaches = r] = Reaching(f, r)
BY FlowIs DEF Reaching

\* A block.
LEMMA BlockIsWritten ==
    ASSUME Kinds, NEW N, Written(N), Block
    PROVE  \E M : Written(M)'
<1> DEFINE t == [op |-> "block", on |-> None]
           i == Len(program) + 1
           x == Frame("block", i, Always, flow, Closed(flow), loop_depth)
<1>1. /\ program' = Append(program, t) /\ frames' = Append(frames, x)
      /\ UNCHANGED <<kind, flow, born, reassigned>>
  BY DEF Block, Emit, Checks
<1>2. flow.reaches
  BY DEF Block, Reachable
<1>3. flow \in FlowSet(kind) /\ loop_depth \in Nat /\ top \in FrameSet(kind)
  BY <1>2, Standing
<1>4. t \in Tokens(DOMAIN kind) /\ t.op = "block" /\ t.on = None
  BY DEF Tokens
<1>5. Refined(flow, Always, TRUE) = flow /\ Tested(flow, Always) = flow
  BY DEF Refined, Tested, Always
<1>6. Closed(flow) = Reaching(flow, FALSE)
  BY <1>3, ReachingIs DEF Closed
<1>7. Opening(flow, {}, Always, t, FALSE, i, loop_depth, x)
  <2>1. x = [op |-> t.op, start |-> i, cond |-> Always, before |-> Tested(flow, Always),
             merged |-> Reaching(flow, FALSE), depth |-> loop_depth, locals |-> {}, header |-> {}]
    BY <1>5, <1>6 DEF Frame
  <2>2. t.op \in Openers /\ t.op \notin Loops
    BY <1>4 DEF Openers, Loops
  <2>3. Fresh(kind, flow, top, {})
    BY DEF Fresh
  <2>4. Always \in [on : Symbols \cup {None}, holds : BOOLEAN] /\ Always.on = None
    BY DEF Always
  <2>5. loop_depth = top.depth + 0
    BY <1>3 DEF loop_depth
  <2> HIDE DEF t, x
  <2> QED
    BY <1>4, <2>1, <2>2, <2>3, <2>4, <2>5 DEF Opening
<1> HIDE DEF t, x
<1>8. flow' = Refined(flow, Always, TRUE)
  BY <1>1, <1>5
<1> QED
  BY <1>1, <1>2, <1>4, <1>7, <1>8, OpenIsWritten

\* A switch.
LEMMA SwitchIsWritten ==
    ASSUME Kinds, NEW N, Written(N), Switch
    PROVE  \E M : Written(M)'
<1>0. PICK exhaustive \in BOOLEAN :
        /\ program' = Append(program, [op |-> "switch", on |-> None, exhaustive |-> exhaustive])
        /\ frames' = Append(frames, Frame("switch", Len(program) + 1, Always, flow,
                                          [flow EXCEPT !.reaches = ~exhaustive], loop_depth))
        /\ UNCHANGED <<kind, flow, born, reassigned>>
  BY DEF Switch, Emit, Checks
<1> DEFINE t == [op |-> "switch", on |-> None, exhaustive |-> exhaustive]
           i == Len(program) + 1
           r == ~exhaustive
           x == Frame("switch", i, Always, flow, [flow EXCEPT !.reaches = r], loop_depth)
<1>1. /\ program' = Append(program, t) /\ frames' = Append(frames, x)
      /\ UNCHANGED <<kind, flow, born, reassigned>>
  BY <1>0
<1>2. flow.reaches
  BY DEF Switch, Reachable
<1>3. flow \in FlowSet(kind) /\ loop_depth \in Nat /\ top \in FrameSet(kind)
  BY <1>2, Standing
<1>4. t \in Tokens(DOMAIN kind) /\ t.op = "switch" /\ t.on = None /\ (r <=> ~t.exhaustive) /\ r \in BOOLEAN
  BY DEF Tokens
<1>5. Refined(flow, Always, TRUE) = flow /\ Tested(flow, Always) = flow
  BY DEF Refined, Tested, Always
<1> HIDE DEF r
<1>6. [flow EXCEPT !.reaches = r] = Reaching(flow, r)
  BY <1>3, ReachingIs
<1>7. Opening(flow, {}, Always, t, r, i, loop_depth, x)
  <2>1. x = [op |-> t.op, start |-> i, cond |-> Always, before |-> Tested(flow, Always),
             merged |-> Reaching(flow, r), depth |-> loop_depth, locals |-> {}, header |-> {}]
    BY <1>5, <1>6 DEF Frame
  <2>2. t.op \in Openers /\ t.op \notin Loops
    BY <1>4 DEF Openers, Loops
  <2>3. Fresh(kind, flow, top, {})
    BY DEF Fresh
  <2>4. Always \in [on : Symbols \cup {None}, holds : BOOLEAN] /\ Always.on = None
    BY DEF Always
  <2>5. loop_depth = top.depth + 0
    BY <1>3 DEF loop_depth
  <2> HIDE DEF t, x
  <2> QED
    BY <1>4, <2>1, <2>2, <2>3, <2>4, <2>5 DEF Opening
<1> HIDE DEF t, x
<1>8. flow' = Refined(flow, Always, TRUE)
  BY <1>1, <1>5
<1> QED
  BY <1>1, <1>2, <1>4, <1>7, <1>8, OpenIsWritten

\* An if.
LEMMA IfIsWritten ==
    ASSUME Kinds, NEW N, Written(N), If
    PROVE  \E M : Written(M)'
<1>0. PICK c \in Conditions :
        /\ Condition(flow, c)
        /\ flow' = Refined(flow, c, TRUE)
        /\ frames' = Append(frames,
               Frame("if", Len(program) + 1, c, Tested(flow, c), Closed(flow), loop_depth))
        /\ program' = Append(program, [op |-> "if", on |-> c.on, holds |-> c.holds])
        /\ UNCHANGED <<kind, born, reassigned>>
  BY DEF If, Emit, Checks
<1> DEFINE t == [op |-> "if", on |-> c.on, holds |-> c.holds]
           i == Len(program) + 1
           x == Frame("if", i, c, Tested(flow, c), Closed(flow), loop_depth)
<1>1. program' = Append(program, t) /\ frames' = Append(frames, x)
  BY <1>0
<1>2. flow.reaches
  BY DEF If, Reachable
<1>3. flow \in FlowSet(kind) /\ loop_depth \in Nat /\ top \in FrameSet(kind)
  BY <1>2, Standing
<1>4. c \in [on : Symbols \cup {None}, holds : BOOLEAN]
  BY DEF Conditions
<1>5. t \in Tokens(DOMAIN kind) /\ t.op = "if" /\ t.on = c.on /\ t.holds = c.holds
  BY <1>4 DEF Tokens, Symbols
<1>6. Closed(flow) = Reaching(flow, FALSE)
  BY <1>3, ReachingIs DEF Closed
<1>7. Opening(flow, {}, c, t, FALSE, i, loop_depth, x)
  <2>1. x = [op |-> t.op, start |-> i, cond |-> c, before |-> Tested(flow, c),
             merged |-> Reaching(flow, FALSE), depth |-> loop_depth, locals |-> {}, header |-> {}]
    BY <1>6 DEF Frame
  <2>2. t.op \in Openers /\ t.op \notin Loops
    BY <1>5 DEF Openers, Loops
  <2>3. Fresh(kind, flow, top, {})
    BY DEF Fresh
  <2>4. c.on # None => flow.init[c.on] = "set" /\ kind[c.on].result
    BY <1>0 DEF Condition, Readable
  <2>5. loop_depth = top.depth + 0
    BY <1>3 DEF loop_depth
  <2> HIDE DEF t, x
  <2> QED
    BY <1>4, <1>5, <2>1, <2>2, <2>3, <2>4, <2>5 DEF Opening
<1> HIDE DEF t, x
<1> QED
  BY <1>0, <1>1, <1>2, <1>5, <1>7, OpenIsWritten

\* A loop with the header X, of state f and program p, in which no symbol is born later.
LEMMA LoopOpens ==
    ASSUME Kinds, top \in FrameSet(kind), loop_depth \in Nat, NEW op \in Loops, NEW f \in FlowSet(kind),
           NEW X \in SUBSET Symbols, op = "while" => X = {},
           Fresh(kind, f, top, X), NEW c \in Conditions, Condition(f, c),
           NEW i, NEW t, t = [op |-> op, on |-> c.on, holds |-> c.holds, header |-> X],
           NEW x, x = [Frame(op, i, c, Tested(f, c), Closed(f), loop_depth + 1) EXCEPT !.header = X]
    PROVE  /\ t \in Tokens(DOMAIN kind)
           /\ Opening(f, X, c, t, FALSE, i, loop_depth + 1, x)
<1>1. c \in [on : Symbols \cup {None}, holds : BOOLEAN]
  BY DEF Conditions
<1>2. t \in Tokens(DOMAIN kind) /\ t.op = op /\ t.on = c.on /\ t.holds = c.holds /\ t.header = X
  BY <1>1 DEF Tokens, Symbols
<1>3. Closed(f) = Reaching(f, FALSE)
  BY ReachingIs DEF Closed
<1>4. x = [op |-> t.op, start |-> i, cond |-> c, before |-> Tested(f, c),
           merged |-> Reaching(f, FALSE), depth |-> loop_depth + 1, locals |-> {}, header |-> X]
  BY <1>2, <1>3 DEF Frame
<1>5. t.op \in Openers /\ t.op \in Loops /\ t.op \notin {"block", "switch"}
  BY <1>2 DEF Openers, Loops
<1>6. c.on # None => f.init[c.on] = "set" /\ kind[c.on].result
  BY DEF Condition, Readable
<1>7. loop_depth + 1 = top.depth + 1
  BY DEF loop_depth
<1>8. Opening(f, X, c, t, FALSE, i, loop_depth + 1, x)
  BY <1>1, <1>2, <1>4, <1>5, <1>6, <1>7 DEF Opening
<1> QED
  BY <1>2, <1>8

\* A loop without a header of its own.
LEMMA LoopIsWritten ==
    ASSUME Kinds, NEW N, Written(N), flow.reaches, NEW c \in Conditions, NEW op \in Loops,
           Loop(op, flow, c, {}, <<>>), UNCHANGED born
    PROVE  \E M : Written(M)'
<1> DEFINE t == [op |-> op, on |-> c.on, holds |-> c.holds, header |-> {}]
           i == Len(program) + 1
           x == [Frame(op, i, c, Tested(flow, c), Closed(flow), loop_depth + 1) EXCEPT !.header = {}]
<1>1. flow \in FlowSet(kind) /\ loop_depth \in Nat /\ top \in FrameSet(kind)
      /\ program \in Seq(Tokens(DOMAIN kind)) /\ Len(program) \in Nat
  BY Standing
<1>2. /\ Condition(flow, c) /\ flow' = Refined(flow, c, TRUE)
      /\ frames' = Append(frames, [Frame(op, Len(program) + Len(<<>>) + 1, c, Tested(flow, c), Closed(flow), loop_depth + 1)
                                     EXCEPT !.header = {}])
      /\ program' = program \o <<>> \o <<t>>
      /\ UNCHANGED <<kind, reassigned>>
  BY DEF Loop, Checks
<1>3. Len(program) + Len(<<>>) + 1 = i
  BY <1>1
<1>4. frames' = Append(frames, x)
  BY <1>2, <1>3
<1>5. program' = Append(program, t)
  <2>1. program \o <<>> = program
    BY <1>1
  <2> HIDE DEF t
  <2>2. program \o <<t>> = Append(program, t)
    BY <1>1
  <2> QED
    BY <1>2, <2>1, <2>2
<1>6. Fresh(kind, flow, top, {})
  BY DEF Fresh
<1>7. t \in Tokens(DOMAIN kind) /\ Opening(flow, {}, c, t, FALSE, i, loop_depth + 1, x)
  BY <1>1, <1>2, <1>6, LoopOpens
<1> HIDE DEF t, x
<1> QED
  BY <1>2, <1>4, <1>5, <1>7, OpenIsWritten

\* A while.
LEMMA WhileIsWritten ==
    ASSUME Kinds, NEW N, Written(N), While
    PROVE  \E M : Written(M)'
<1>1. PICK c \in Conditions : Loop("while", flow, c, {}, <<>>) /\ flow.reaches /\ UNCHANGED born
  BY DEF While, Reachable
<1>2. "while" \in Loops
  BY DEF Loops
<1> QED
  BY <1>1, <1>2, LoopIsWritten

\* A for, after its initializer.
LEMMA ForIsWritten ==
    ASSUME Kinds, NEW N, Written(N), For
    PROVE  \E M : Written(M)'
<1>1. "for" \in Loops
  BY DEF Loops
<1>2. CASE \E c \in Conditions : Reachable(2) /\ Loop("for", flow, c, {}, <<>>) /\ UNCHANGED born
  <2>1. PICK c \in Conditions : Loop("for", flow, c, {}, <<>>) /\ flow.reaches /\ UNCHANGED born
    BY <1>2 DEF Reachable
  <2> QED
    BY <1>1, <2>1, LoopIsWritten
<1>3. ASSUME NEW c \in Conditions, NEW s \in Symbols, Reachable(3), flow.init[s] = "out",
             born' = [born EXCEPT ![s] = loop_depth],
             Loop("for", Define(flow, s, TRUE), c, {s}, <<[op |-> "def", on |-> s, initialized |-> TRUE]>>)
      PROVE  \E M : Written(M)'
  <2> DEFINE g == Define(flow, s, TRUE)
             d == [op |-> "def", on |-> s, initialized |-> TRUE]
             t == [op |-> "for", on |-> c.on, holds |-> c.holds, header |-> {s}]
             p == Append(program, d)
             i == Len(p) + 1
             x == [Frame("for", i, c, Tested(g, c), Closed(g), loop_depth + 1) EXCEPT !.header = {s}]
  <2>1. flow.reaches
    BY <1>3 DEF Reachable
  <2>2. /\ Condition(g, c) /\ flow' = Refined(g, c, TRUE)
        /\ frames' = Append(frames, [Frame("for", Len(program) + Len(<<d>>) + 1, c, Tested(g, c), Closed(g), loop_depth + 1)
                                       EXCEPT !.header = {s}])
        /\ program' = program \o <<d>> \o <<t>>
        /\ UNCHANGED <<kind, reassigned>>
    BY <1>3 DEF Loop, Checks
  <2>3. /\ loop_depth \in Nat /\ top \in FrameSet(kind)
        /\ program \in Seq(Tokens(DOMAIN kind)) /\ Len(program) \in Nat
        /\ LiveIn(kind, top.before) \subseteq LiveIn(kind, flow)
        /\ LiveIn(kind, flow) \subseteq LiveIn(kind, top.before) \cup top.locals
        /\ FramesSound(kind, reassigned, program, N, frames, born)
    BY <2>1, Standing DEF Later, Written, Framed, FramedBut
  <2>4. s \in DOMAIN kind /\ s \notin LiveIn(kind, flow) /\ d \in Tokens(DOMAIN kind)
    BY <1>3 DEF Symbols, LiveIn, Tokens
  <2>5. Len(program) + Len(<<d>>) + 1 = i /\ program' = Append(p, t)
    <3> HIDE DEF d, t
    <3>1. program \o <<d>> = p /\ Len(p) = Len(program) + 1 /\ p \in Seq(Tokens(DOMAIN kind))
      BY <2>3, <2>4
    <3>2. p \o <<t>> = Append(p, t) /\ Len(<<d>>) = 1
      BY <3>1
    <3> QED
      BY <2>2, <2>3, <3>1, <3>2
  <2>6. frames' = Append(frames, x)
    BY <2>2, <2>5
  <2>7. Widens(frames, {}, frames) /\ {} \cup {s} = {s}
    BY DEF Widens
  <2>8. /\ FlowSound(kind, g) /\ g.reaches /\ LiveIn(kind, g) = LiveIn(kind, flow) \cup {s}
        /\ \E M : /\ Certified(kind, reassigned, p, M)
                  /\ FramedBut(kind, reassigned, p, M, frames, g, born', {s})
    <3>1. Declares(s, d, g, born') /\ flow.init[s] = "out"
      BY <1>3 DEF Declares
    <3> HIDE DEF d, g
    <3> QED
      BY <2>1, <2>7, <3>1, Declared
  <2>9. Fresh(kind, g, top, {s})
    BY <2>3, <2>4, <2>8 DEF Fresh
  <2>10. g \in FlowSet(kind) /\ {s} \in SUBSET Symbols
    BY <2>8 DEF FlowSound
  <2>11. t \in Tokens(DOMAIN kind) /\ Opening(g, {s}, c, t, FALSE, i, loop_depth + 1, x)
    BY <1>1, <2>2, <2>3, <2>9, <2>10, LoopOpens
  <2>12. i = Len(p) + 1 /\ flow' = Refined(g, c, TRUE)
    BY <2>2
  <2> HIDE DEF g, t, p, i, x
  <2>13. PICK M : Certified(kind, reassigned, p, M) /\ FramedBut(kind, reassigned, p, M, frames, g, born', {s})
    BY <2>8
  <2>14. PICK W : /\ Certified(kind, reassigned, Append(p, t), W)
                  /\ Framed(kind, reassigned, Append(p, t), W, Append(frames, x), Refined(g, c, TRUE), born')
    BY <2>8, <2>11, <2>12, <2>13, Opened
  <2>15. Written(W)'
    BY <2>2, <2>5, <2>6, <2>12, <2>14 DEF Written
  <2> QED
    BY <2>15
<1> QED
  BY <1>2, <1>3 DEF For

-----------------------------------------------------------------------------
(* What two branches come to.                                              *)

\* g claims no more than n of any symbol, and has the same ones in scope.
Settles(kd, n, g) ==
    n.reaches => /\ g.reaches
                 /\ g.handled \subseteq n.handled
                 /\ \A s \in DOMAIN kd :
                      /\ g.init[s] \in {n.init[s], "maybe"}
                      /\ n.init[s] = "out" => g.init[s] = "out"
                      /\ g.facts[s] \subseteq n.facts[s]

\* Whatever agrees with n agrees with what settles it: the merges of
\* merge_initialization may be chained.
LEMMA SettledStays ==
    ASSUME NEW kd, NEW R, NEW h, NEW n, NEW g, Settles(kd, n, g)
    PROVE  /\ Plain(kd, R, h, n) => Plain(kd, R, h, g)
           /\ \A L : Leaves(kd, R, h, n, L) => Leaves(kd, R, h, g, L)
           /\ \A c, v : Tests(kd, R, h, n, c, v, {}) => Tests(kd, R, h, g, c, v, {})
<1>1. \A s \in DOMAIN kd : n.reaches /\ AtLeast(kd, R, h, n, s) => AtLeast(kd, R, h, g, s)
  BY DEF Settles, AtLeast
<1>2. \A s \in DOMAIN kd : n.reaches /\ Gone(n, s) => Gone(g, s)
  BY DEF Settles, Gone
<1>3. Plain(kd, R, h, n) => Plain(kd, R, h, g)
  BY <1>1 DEF Plain, Settles
<1>4. ASSUME NEW L, Leaves(kd, R, h, n, L) PROVE Leaves(kd, R, h, g, L)
  BY <1>1, <1>2, <1>4 DEF Leaves, Settles
<1>5. ASSUME NEW c, NEW v, Tests(kd, R, h, n, c, v, {}) PROVE Tests(kd, R, h, g, c, v, {})
  <2> SUFFICES ASSUME h.reaches
               PROVE  /\ g.reaches
                      /\ \A s \in DOMAIN kd \ ({} \cup {c.on}) : AtLeast(kd, R, h, g, s)
                      /\ c.on \in DOMAIN kd \ {} =>
                           /\ g.init[c.on] \notin {"out", "unset"}
                           /\ c.on \notin R => g.facts[c.on] \subseteq h.facts[c.on] \cup {Finds(c, v)}
    BY DEF Tests
  <2>1. /\ n.reaches
        /\ \A s \in DOMAIN kd \ ({} \cup {c.on}) : AtLeast(kd, R, h, n, s)
        /\ c.on \in DOMAIN kd \ {} =>
                           /\ n.init[c.on] \notin {"out", "unset"}
                           /\ c.on \notin R => n.facts[c.on] \subseteq h.facts[c.on] \cup {Finds(c, v)}
    BY <1>5 DEF Tests
  <2>2. g.reaches
    BY <2>1 DEF Settles
  <2>3. \A s \in DOMAIN kd \ ({} \cup {c.on}) : AtLeast(kd, R, h, g, s)
    BY <1>1, <2>1
  <2>4. c.on \in DOMAIN kd \ {} =>
                           /\ g.init[c.on] \notin {"out", "unset"}
                           /\ c.on \notin R => g.facts[c.on] \subseteq h.facts[c.on] \cup {Finds(c, v)}
    <3> SUFFICES ASSUME c.on \in DOMAIN kd
                 PROVE  /\ g.init[c.on] \notin {"out", "unset"}
                        /\ c.on \notin R => g.facts[c.on] \subseteq h.facts[c.on] \cup {Finds(c, v)}
      OBVIOUS
    <3>1. g.init[c.on] \in {n.init[c.on], "maybe"} /\ g.facts[c.on] \subseteq n.facts[c.on]
      BY <2>1 DEF Settles
    <3> QED
      BY <2>1, <3>1
  <2> QED
    BY <2>2, <2>3, <2>4
<1> QED
  BY <1>3, <1>4, <1>5

\* A state with the fields of another is settled by it.
LEMMA NoteSettles ==
    ASSUME NEW kd, NEW f \in FlowSet(kd), NEW g \in FlowSet(kd), NEW F, NEW k,
           f.reaches => /\ g.reaches /\ g.handled \subseteq f.handled
                        /\ \A s \in DOMAIN kd :
                             /\ g.init[s] \in {f.init[s], "maybe"}
                             /\ f.init[s] = "out" => g.init[s] = "out"
                             /\ g.proof[s] \in {f.proof[s], "unknown"}
    PROVE  Settles(kd, Note(f, F, k), Note(g, F, k))
<1>1. /\ Note(f, F, k).init = f.init /\ Note(f, F, k).handled = f.handled
      /\ \A s \in DOMAIN kd : \A v : v \in Note(f, F, k).facts[s] <=> v \in Known /\ (f.proof[s] = v \/ Lasts(F, k, s, v))
  BY NoteIs
<1>2. /\ Note(g, F, k).init = g.init /\ Note(g, F, k).handled = g.handled
      /\ \A s \in DOMAIN kd : \A v : v \in Note(g, F, k).facts[s] <=> v \in Known /\ (g.proof[s] = v \/ Lasts(F, k, s, v))
  BY NoteIs
<1>3. (Note(f, F, k).reaches <=> f.reaches) /\ (Note(g, F, k).reaches <=> g.reaches)
  <2>1. (Note(f, F, k).reaches <=> f.reaches)
    BY NoteIs, Zenon
  <2>2. (Note(g, F, k).reaches <=> g.reaches)
    BY NoteIs, Zenon
  <2> QED
    BY <2>1, <2>2
<1>4. f.reaches => \A s \in DOMAIN kd : Note(g, F, k).facts[s] \subseteq Note(f, F, k).facts[s]
  BY <1>1, <1>2 DEF Known
<1> QED
  BY <1>1, <1>2, <1>3, <1>4 DEF Settles

\* If state f is reached within the statement of frame x, it is behind its scopes.
Within(kd, R, b, x, f) ==
    f.reaches => /\ Later(kd, R, b, x.depth, x.before, f)
                 /\ LiveIn(kd, f) \subseteq LiveIn(kd, x.before)

\* merge_initialization and merge_result_flow keep what both paths agree on.
LEMMA MergeSettles ==
    ASSUME NEW f, FlowSound(kind, f), NEW g, FlowSound(kind, g), NEW R, NEW b, NEW x,
           Within(kind, R, b, x, f), Within(kind, R, b, x, g), NEW h, h = Merge(f, g), NEW F, NEW k
    PROVE  /\ FlowSound(kind, h) /\ Within(kind, R, b, x, h)
           /\ Settles(kind, Note(f, F, k), Note(h, F, k))
           /\ Settles(kind, Note(g, F, k), Note(h, F, k))
<1>1. f \in FlowSet(kind) /\ g \in FlowSet(kind)
  BY DEF FlowSound
<1>2. /\ h \in FlowSet(kind)
      /\ ~f.reaches => h = g
      /\ f.reaches /\ ~g.reaches => h = f
      /\ f.reaches /\ g.reaches =>
           /\ h.handled = f.handled \cap g.handled
           /\ \A s \in DOMAIN kind :
                /\ h.init[s] = IF f.init[s] = g.init[s] THEN f.init[s] ELSE "maybe"
                /\ h.proof[s] = IF f.proof[s] = g.proof[s] THEN f.proof[s] ELSE "unknown"
  BY <1>1, MergeIs
<1>3. f.reaches /\ g.reaches => h.reaches
  BY <1>1, MergeIs
<1>4. Settles(kind, Note(f, F, k), Note(f, F, k)) /\ Settles(kind, Note(g, F, k), Note(g, F, k))
  BY DEF Settles
<1>5. (Note(f, F, k).reaches <=> f.reaches) /\ (Note(g, F, k).reaches <=> g.reaches)
  <2>1. (Note(f, F, k).reaches <=> f.reaches)
    BY <1>1, NoteIs, Zenon
  <2>2. (Note(g, F, k).reaches <=> g.reaches)
    BY <1>1, NoteIs, Zenon
  <2> QED
    BY <2>1, <2>2
<1>6. CASE ~f.reaches
  <2>1. Settles(kind, Note(f, F, k), Note(h, F, k))
    BY <1>5, <1>6 DEF Settles
  <2> QED
    BY <1>2, <1>4, <1>6, <2>1
<1>7. CASE f.reaches /\ ~g.reaches
  <2>1. Settles(kind, Note(g, F, k), Note(h, F, k))
    BY <1>5, <1>7 DEF Settles
  <2> QED
    BY <1>2, <1>4, <1>7, <2>1
<1>8. CASE f.reaches /\ g.reaches
  <2>1. /\ h.handled = f.handled \cap g.handled
        /\ \A s \in DOMAIN kind :
             /\ h.init[s] = IF f.init[s] = g.init[s] THEN f.init[s] ELSE "maybe"
             /\ h.proof[s] = IF f.proof[s] = g.proof[s] THEN f.proof[s] ELSE "unknown"
    BY <1>2, <1>8
  <2>2. /\ Later(kind, R, b, x.depth, x.before, f) /\ LiveIn(kind, f) \subseteq LiveIn(kind, x.before)
        /\ Later(kind, R, b, x.depth, x.before, g) /\ LiveIn(kind, g) \subseteq LiveIn(kind, x.before)
    BY <1>8 DEF Within
  <2>3. LiveIn(kind, f) = LiveIn(kind, x.before) /\ LiveIn(kind, g) = LiveIn(kind, x.before)
    BY <2>2 DEF Later
  <2>4. \A s \in DOMAIN kind : f.init[s] = "out" <=> g.init[s] = "out"
    BY <2>3 DEF LiveIn
  <2>5. \A s \in DOMAIN kind : h.init[s] = "out" <=> f.init[s] = "out"
    BY <2>1, <2>4
  <2>6. FlowSound(kind, h)
    <3>1. \A s \in DOMAIN kind :
            /\ h.proof[s] # "unknown" => f.proof[s] # "unknown"
            /\ s \in h.handled => s \in f.handled
      BY <2>1
    <3> QED
      BY <1>2, <2>5, <3>1 DEF FlowSound
  <2>7. LiveIn(kind, h) = LiveIn(kind, x.before)
    BY <2>3, <2>5 DEF LiveIn
  <2>8. Later(kind, R, b, x.depth, x.before, h)
    <3>1. \A s \in DOMAIN kind : x.before.init[s] = "set" => h.init[s] = "set"
      BY <2>1, <2>2 DEF Later
    <3>2. \A s \in LiveIn(kind, x.before) : b[s] < x.depth =>
            /\ ~kind[s].mutable /\ x.before.init[s] = "unset" => h.init[s] = "unset"
            /\ s \notin R /\ s \in x.before.handled => s \in h.handled
      BY <2>1, <2>2 DEF Later, LiveIn
    <3> QED
      BY <2>7, <3>1, <3>2 DEF Later
  <2>9. Settles(kind, Note(f, F, k), Note(h, F, k)) /\ Settles(kind, Note(g, F, k), Note(h, F, k))
    <3>1. \A s \in DOMAIN kind :
            /\ h.init[s] \in {f.init[s], "maybe"} /\ h.init[s] \in {g.init[s], "maybe"}
            /\ f.init[s] = "out" => h.init[s] = "out"
            /\ g.init[s] = "out" => h.init[s] = "out"
            /\ h.proof[s] \in {f.proof[s], "unknown"} /\ h.proof[s] \in {g.proof[s], "unknown"}
      BY <2>1, <2>4, <2>5
    <3>2. h.handled \subseteq f.handled /\ h.handled \subseteq g.handled
      BY <2>1
    <3>3. Settles(kind, Note(f, F, k), Note(h, F, k))
      BY <1>1, <1>2, <1>3, <1>8, <3>1, <3>2, NoteSettles
    <3>4. Settles(kind, Note(g, F, k), Note(h, F, k))
      BY <1>1, <1>2, <1>3, <1>8, <3>1, <3>2, NoteSettles
    <3> QED
      BY <3>3, <3>4
  <2> QED
    BY <2>2, <2>6, <2>7, <2>8, <2>9 DEF Within
<1> QED
  BY <1>6, <1>7, <1>8

-----------------------------------------------------------------------------
(* The end of a branch.                                                    *)

\* The last frame, of a statement, is frame k; it lies in frame j.
Innermost(k, j) ==
    /\ k \in Nat /\ j \in Nat /\ k = j + 1 /\ j = k - 1 /\ j >= 1
    /\ Len(frames) = k /\ top = frames[k]

\* What the frames remember of it.
LEMMA Inside ==
    ASSUME Kinds, NEW N, Written(N), top.op # "body"
    PROVE  \E k, j : Innermost(k, j)
<1>1. /\ frames \in Seq(FrameSet(kind)) /\ Len(frames) >= 1 /\ frames[1].op = "body"
  BY DEF Written, Framed, FramedBut, FramesSound
<1>2. PICK k : k = Len(frames)
  OBVIOUS
<1>3. PICK j : j = k - 1
  OBVIOUS
<1>4. k \in Nat /\ k >= 1 /\ top = frames[k] /\ k # 1
  BY <1>1, <1>2 DEF top
<1>5. Innermost(k, j)
  BY <1>2, <1>3, <1>4 DEF Innermost
<1> QED
  BY <1>5

\* What is known of the last statement and of the one around it, when a branch ends.
LEMMA InnermostIs ==
    ASSUME Kinds, NEW N, Written(N), NEW k, NEW j, Innermost(k, j)
    PROVE  /\ FramesSound(kind, reassigned, program, N, frames, born)
           /\ frames \in Seq(FrameSet(kind)) /\ k \in 2..k /\ k \in 1..k /\ j \in 1..k
           /\ top \in FrameSet(kind) /\ frames[j] \in FrameSet(kind)
           /\ FlowSound(kind, top.before) /\ FlowSound(kind, top.merged) /\ FlowSound(kind, frames[j].before)
           /\ top.locals \cap LiveIn(kind, top.before) = {}
           /\ born \in [DOMAIN kind -> Nat] /\ OpenOrEnded(program, frames)
           /\ Begun(program, N, frames, k) /\ Merges(kind, reassigned, program, N, frames, k)
           /\ Nested(kind, reassigned, frames, k, born)
           /\ top.depth \in Nat /\ frames[j].depth \in Nat /\ top.start \in Nat
           /\ LiveIn(kind, frames[j].before) \subseteq LiveIn(kind, top.before)
<1>1. FramesSound(kind, reassigned, program, N, frames, born) /\ OpenOrEnded(program, frames)
  BY DEF Written, Framed, FramedBut
<1>2. frames \in Seq(FrameSet(kind)) /\ k \in 2..k /\ k \in 1..k /\ j \in 1..k /\ Len(frames) = k
      /\ top = frames[k] /\ j < k
  BY <1>1 DEF FramesSound, Innermost
<1>3. top \in FrameSet(kind) /\ frames[j] \in FrameSet(kind)
  BY <1>2
<1>4. top.depth \in Nat /\ frames[j].depth \in Nat /\ top.start \in Nat
  BY <1>3 DEF FrameSet
<1>5. /\ FlowSound(kind, top.before) /\ FlowSound(kind, top.merged) /\ FlowSound(kind, frames[j].before)
      /\ top.locals \cap LiveIn(kind, top.before) = {} /\ born \in [DOMAIN kind -> Nat]
      /\ LiveIn(kind, frames[j].before) \subseteq LiveIn(kind, top.before)
  BY <1>1, <1>2 DEF FramesSound
<1>6. /\ Begun(program, N, frames, k) /\ Merges(kind, reassigned, program, N, frames, k)
      /\ Nested(kind, reassigned, frames, k, born)
  BY <1>1, <1>2 DEF FramesSound, FrameSound
<1> QED
  BY <1>1, <1>2, <1>3, <1>4, <1>5, <1>6

\* What was proved when a loop around the last statement began is of a result that
\* was in scope when the statement began, and born outside of that loop.
LEMMA LastsOutside ==
    ASSUME Kinds, NEW N, Written(N), NEW k, NEW j, Innermost(k, j),
           NEW s \in DOMAIN kind, NEW v \in Known, Lasts(frames, k, s, v)
    PROVE  s \in LiveIn(kind, frames[j].before) /\ kind[s].result /\ born[s] < frames[j].depth
<1>1. FramesSound(kind, reassigned, program, N, frames, born) /\ k \in 2..k
  BY InnermostIs
<1>2. k \in 2..(Len(frames) + 1) /\ k - 1 = j
  BY <1>1 DEF Innermost
<1> QED
  BY <1>1, <1>2, LastsLive

\* leave_scope: what is left is of the symbols that were in scope before the
\* statement, and as it was.
LEMMA LeavesTop ==
    ASSUME Kinds, NEW N, Written(N), NEW k, NEW j, Innermost(k, j),
           NEW g, g = Leave(flow, top.locals), NEW l, l = k + 1
    PROVE  /\ FlowSound(kind, g) /\ (g.reaches <=> flow.reaches)
           /\ Within(kind, reassigned, born, top, g)
           /\ Leaves(kind, reassigned, Note(flow, frames, l), Note(g, frames, k), top.locals)
<1>1. /\ FramesSound(kind, reassigned, program, N, frames, born) /\ top.locals \cap LiveIn(kind, top.before) = {}
      /\ LiveIn(kind, frames[j].before) \subseteq LiveIn(kind, top.before)
  BY InnermostIs
<1>2. FlowSound(kind, flow) /\ flow \in FlowSet(kind)
  BY DEF Written, Framed, FramedBut, Current, FlowSound
<1>3. /\ g \in FlowSet(kind) /\ g.handled = flow.handled \ top.locals
      /\ \A s \in DOMAIN kind : /\ g.init[s] = IF s \in top.locals THEN "out" ELSE flow.init[s]
                                /\ g.proof[s] = IF s \in top.locals THEN "unknown" ELSE flow.proof[s]
  BY <1>2, LeaveIs
<1>4. g.reaches <=> flow.reaches
  BY <1>2, LeaveIs
<1>5. FlowSound(kind, g)
  <2>1. \A s \in DOMAIN kind :
          /\ g.proof[s] # "unknown" => flow.proof[s] # "unknown" /\ g.init[s] = flow.init[s]
          /\ s \in g.handled => s \in flow.handled /\ g.init[s] = flow.init[s]
    BY <1>3
  <2> QED
    BY <1>2, <1>3, <2>1 DEF FlowSound
<1>6. Within(kind, reassigned, born, top, g)
  <2> SUFFICES ASSUME flow.reaches
               PROVE  /\ Later(kind, reassigned, born, top.depth, top.before, g)
                      /\ LiveIn(kind, g) \subseteq LiveIn(kind, top.before)
    BY <1>4 DEF Within
  <2>1. /\ Later(kind, reassigned, born, top.depth, top.before, flow)
        /\ LiveIn(kind, flow) \subseteq LiveIn(kind, top.before) \cup top.locals
    BY Standing
  <2>2. \A s \in LiveIn(kind, top.before) :
          s \in DOMAIN kind /\ s \notin top.locals /\ g.init[s] = flow.init[s] /\ (s \in g.handled <=> s \in flow.handled)
    BY <1>1, <1>3 DEF LiveIn
  <2>3. LiveIn(kind, g) \subseteq LiveIn(kind, top.before)
    BY <1>3, <2>1 DEF LiveIn
  <2>4. LiveIn(kind, top.before) \subseteq LiveIn(kind, g)
    BY <2>1, <2>2 DEF LiveIn, Later
  <2>5. \A s \in DOMAIN kind : top.before.init[s] = "set" => g.init[s] = "set"
    <3>1. \A s \in DOMAIN kind : top.before.init[s] = "set" => s \in LiveIn(kind, top.before)
      BY DEF LiveIn
    <3> QED
      BY <2>1, <2>2, <3>1 DEF Later
  <2>6. \A s \in LiveIn(kind, top.before) : born[s] < top.depth =>
          /\ ~kind[s].mutable /\ top.before.init[s] = "unset" => g.init[s] = "unset"
          /\ s \notin reassigned /\ s \in top.before.handled => s \in g.handled
    BY <2>1, <2>2 DEF Later
  <2> QED
    BY <2>3, <2>4, <2>5, <2>6 DEF Later
<1>7. /\ Note(flow, frames, l).init = flow.init /\ Note(flow, frames, l).handled = flow.handled
      /\ \A s \in DOMAIN kind : \A v : v \in Note(flow, frames, l).facts[s] <=>
           v \in Known /\ (flow.proof[s] = v \/ Lasts(frames, l, s, v))
  BY <1>2, NoteIs
<1>8. /\ Note(g, frames, k).init = g.init /\ Note(g, frames, k).handled = g.handled
      /\ \A s \in DOMAIN kind : \A v : v \in Note(g, frames, k).facts[s] <=>
           v \in Known /\ (g.proof[s] = v \/ Lasts(frames, k, s, v))
  BY <1>3, NoteIs
<1>9. Note(flow, frames, l).reaches => Note(g, frames, k).reaches
  <2>1. (Note(flow, frames, l).reaches <=> flow.reaches)
    BY <1>2, NoteIs, Zenon
  <2>2. (Note(g, frames, k).reaches <=> g.reaches)
    BY <1>3, NoteIs, Zenon
  <2> QED
    BY <1>4, <2>1, <2>2
<1>10. \A s, v : Lasts(frames, k, s, v) => Lasts(frames, l, s, v)
  <2>1. k \in Nat \ {0}
    BY DEF Innermost
  <2> QED
    BY <2>1, LastsNext
<1>11. \A s \in DOMAIN kind, v \in Known : Lasts(frames, k, s, v) => s \notin top.locals
  <2>1. \A s \in DOMAIN kind, v \in Known : Lasts(frames, k, s, v) => s \in LiveIn(kind, frames[j].before)
    BY LastsOutside
  <2> QED
    BY <1>1, <2>1
<1>12. Leaves(kind, reassigned, Note(flow, frames, l), Note(g, frames, k), top.locals)
  <2>1. ASSUME NEW s \in DOMAIN kind, s \in top.locals PROVE Gone(Note(g, frames, k), s)
    <3>1. g.init[s] = "out" /\ g.proof[s] = "unknown" /\ s \notin g.handled
      BY <1>3, <2>1
    <3>2. Note(g, frames, k).facts[s] = {}
      BY <1>8, <1>11, <2>1, <3>1 DEF Known
    <3> QED
      BY <1>8, <3>1, <3>2 DEF Gone
  <2>2. ASSUME NEW s \in DOMAIN kind, s \notin top.locals
        PROVE  AtLeast(kind, reassigned, Note(flow, frames, l), Note(g, frames, k), s)
    <3>1. g.init[s] = flow.init[s] /\ g.proof[s] = flow.proof[s] /\ (s \in g.handled => s \in flow.handled)
      BY <1>3, <2>2
    <3>2. Note(g, frames, k).facts[s] \subseteq Note(flow, frames, l).facts[s]
      BY <1>7, <1>8, <1>10, <3>1
    <3> QED
      BY <1>7, <1>8, <3>1, <3>2 DEF AtLeast
  <2> QED
    BY <1>9, <2>1, <2>2 DEF Leaves
<1> QED
  BY <1>4, <1>5, <1>6, <1>12

\* What the alternative branch of a test may take for granted: what held before
\* the statement, and that the test failed.
LEMMA TestedJoins ==
    ASSUME Kinds, NEW N, Written(N), NEW k, NEW j, Innermost(k, j), top.op \in {"if", "else"} \cup Loops,
           NEW f, Refines(kind, top.before, top.cond, FALSE, f), NEW G, NEW l,
           \A s, v : Lasts(G, l, s, v) => Lasts(frames, k, s, v)
    PROVE  /\ FlowSound(kind, f) /\ f.reaches /\ LiveIn(kind, f) = LiveIn(kind, top.before)
           /\ Within(kind, reassigned, born, top, f)
           /\ Tests(kind, reassigned, N[top.start], Note(f, G, l), program[top.start], FALSE, {})
<1> DEFINE i == top.start
           c == top.cond
           x == top.before
           n == N[i]
           o == Note(f, G, l)
<1>1. /\ Begun(program, N, frames, k) /\ top = frames[k] /\ FlowSound(kind, x) /\ top \in FrameSet(kind)
  BY InnermostIs DEF Innermost
<1>2. /\ c.on = program[i].on /\ c.holds = program[i].holds
      /\ n.reaches /\ x.reaches /\ n.init = x.init
      /\ n.facts = Note(x, frames, k).facts
      /\ x.handled = n.handled \cup ({c.on} \ {None})
      /\ c.on # None => x.init[c.on] = "set"
  BY <1>1 DEF Begun
<1>3. /\ x \in FlowSet(kind) /\ c \in [on : DOMAIN kind \cup {None}, holds : BOOLEAN] /\ None \notin DOMAIN kind
  BY <1>1 DEF FrameSet, Kinds, Symbols
<1>5. /\ f \in FlowSet(kind) /\ f.init = x.init
      /\ f.handled = x.handled \cup ({c.on} \ {None})
      /\ \A s \in DOMAIN kind : f.proof[s] = IF s = c.on THEN Finds(c, FALSE) ELSE x.proof[s]
  BY DEF Refines
<1>6. f.reaches
  BY <1>2 DEF Refines
<1>7. f.handled = x.handled
  BY <1>2, <1>5
<1>8. FlowSound(kind, f)
  <2>1. c.on \in DOMAIN kind => c.on \in x.handled
    BY <1>2, <1>3
  <2> SUFFICES ASSUME NEW s \in DOMAIN kind
               PROVE  /\ f.proof[s] # "unknown" => kind[s].result /\ f.init[s] # "out"
                      /\ s \in f.handled => kind[s].result /\ f.init[s] # "out"
    BY <1>5 DEF FlowSound
  <2>2. CASE s = c.on
    <3>1. s \in x.handled
      BY <2>1, <2>2
    <3>2. kind[s].result /\ x.init[s] # "out"
      BY <1>1, <3>1 DEF FlowSound
    <3> QED
      BY <1>5, <3>2
  <2>3. CASE s # c.on
    BY <1>1, <1>5, <1>7, <2>3 DEF FlowSound
  <2> QED
    BY <2>2, <2>3
<1>9. LiveIn(kind, f) = LiveIn(kind, x)
  BY <1>5 DEF LiveIn
<1>10. Within(kind, reassigned, born, top, f)
  BY <1>5, <1>7, <1>9 DEF Within, Later
<1>11. /\ o.init = f.init /\ o.handled = f.handled
       /\ \A s \in DOMAIN kind : \A v : v \in o.facts[s] <=> v \in Known /\ (f.proof[s] = v \/ Lasts(G, l, s, v))
  <2>1. f \in FlowSet(kind)
    BY <1>5
  <2>2. o.init = f.init /\ o.handled = f.handled
    BY <2>1, NoteIs
  <2>3. \A s \in DOMAIN kind : \A v : v \in o.facts[s] <=> v \in Known /\ (f.proof[s] = v \/ Lasts(G, l, s, v))
    BY <2>1, NoteIs
  <2> QED
    BY <2>2, <2>3
<1>12. o.reaches
  <2>1. (o.reaches <=> f.reaches)
    BY <1>5, NoteIs, Zenon
  <2> QED
    BY <1>6, <2>1, Zenon
<1>13. \A s \in DOMAIN kind : \A v : v \in n.facts[s] <=> v \in Known /\ (x.proof[s] = v \/ Lasts(frames, k, s, v))
  <2>1. \A s \in DOMAIN kind : \A v : v \in Note(x, frames, k).facts[s] <=>
            v \in Known /\ (x.proof[s] = v \/ Lasts(frames, k, s, v))
    BY <1>3, NoteIs
  <2> QED
    BY <1>2, <2>1
<1>14. \A s, v : Lasts(G, l, s, v) => Lasts(frames, k, s, v)
  OBVIOUS
<1> HIDE DEF n, o
<1>15. ASSUME NEW s \in DOMAIN kind \ ({} \cup {program[i].on}) PROVE AtLeast(kind, reassigned, n, o, s)
  <2>1. s # c.on /\ s \in DOMAIN kind
    BY <1>2
  <2>2. s \in f.handled => s \in n.handled
    BY <1>2, <1>7, <2>1
  <2>3. o.facts[s] \subseteq n.facts[s]
    BY <1>5, <1>11, <1>13, <1>14, <2>1
  <2> QED
    BY <1>2, <1>5, <1>11, <2>2, <2>3 DEF AtLeast
<1>16. ASSUME c.on \in DOMAIN kind
       PROVE  /\ o.init[c.on] \notin {"out", "unset"}
              /\ o.facts[c.on] \subseteq n.facts[c.on] \cup {Finds(program[i], FALSE)}
  <2>1. o.init[c.on] = "set"
    BY <1>2, <1>3, <1>5, <1>11, <1>16
  <2>2. Finds(program[i], FALSE) = Finds(c, FALSE)
    BY <1>2 DEF Finds
  <2>3. PICK w : w = Finds(c, FALSE)
    OBVIOUS
  <2>4. PICK s \in DOMAIN kind : s = c.on
    BY <1>16
  <2>5. f.proof[s] = w
    BY <1>5, <2>3, <2>4
  <2>6. \A v \in o.facts[s] : v = w \/ v \in n.facts[s]
    BY <1>11, <1>13, <1>14, <2>5
  <2> QED
    BY <2>1, <2>2, <2>3, <2>4, <2>6
<1>17. Tests(kind, reassigned, n, o, program[i], FALSE, {})
  BY <1>2, <1>12, <1>15, <1>16 DEF Tests
<1> QED
  BY <1>6, <1>8, <1>9, <1>10, <1>17 DEF n, o

\* An arm of a switch begins with what held before it.
LEMMA ArmJoins ==
    ASSUME Kinds, NEW N, Written(N), NEW k, NEW j, Innermost(k, j), top.op = "switch",
           NEW G, NEW l, \A s, v : Lasts(G, l, s, v) => Lasts(frames, k, s, v)
    PROVE  /\ FlowSound(kind, top.before) /\ top.before.reaches
           /\ Within(kind, reassigned, born, top, top.before)
           /\ Plain(kind, reassigned, N[top.start], Note(top.before, G, l))
<1> DEFINE i == top.start
           x == top.before
           n == N[i]
           o == Note(x, G, l)
<1>1. /\ Begun(program, N, frames, k) /\ top = frames[k] /\ FlowSound(kind, x)
  BY InnermostIs DEF Innermost
<1>2. /\ n.reaches /\ x.reaches /\ n.init = x.init
      /\ n.facts = Note(x, frames, k).facts /\ x.handled = n.handled
  BY <1>1 DEF Begun
<1>3. x \in FlowSet(kind)
  BY <1>1 DEF FlowSound
<1>4. Within(kind, reassigned, born, top, x)
  BY DEF Within, Later
<1>5. /\ o.init = x.init /\ o.handled = x.handled
      /\ \A s \in DOMAIN kind : \A v : v \in o.facts[s] <=> v \in Known /\ (x.proof[s] = v \/ Lasts(G, l, s, v))
  BY <1>3, NoteIs
<1>6. o.reaches
  <2>1. (o.reaches <=> x.reaches)
    BY <1>3, NoteIs, Zenon
  <2> QED
    BY <1>2, <2>1, Zenon
<1>7. \A s \in DOMAIN kind : \A v : v \in n.facts[s] <=> v \in Known /\ (x.proof[s] = v \/ Lasts(frames, k, s, v))
  <2>1. \A s \in DOMAIN kind : \A v : v \in Note(x, frames, k).facts[s] <=>
            v \in Known /\ (x.proof[s] = v \/ Lasts(frames, k, s, v))
    BY <1>3, NoteIs
  <2> QED
    BY <1>2, <2>1
<1> HIDE DEF n, o
<1>8. \A s \in DOMAIN kind : o.facts[s] \subseteq n.facts[s]
  BY <1>5, <1>7
<1>9. Plain(kind, reassigned, n, o)
  BY <1>2, <1>5, <1>6, <1>8 DEF Plain, AtLeast
<1> QED
  BY <1>1, <1>2, <1>4, <1>9 DEF n, o

-----------------------------------------------------------------------------
(* The frames when a branch ends.                                          *)

\* The program q and the notes M have one token more, which ends a branch of the
\* last statement, and one note more; G are the frames around.
Closing(N, j, t, n, q, M, G) ==
    /\ t.of = top.start /\ q = Append(program, t) /\ M = Append(N, n)
    /\ G = SubSeq(frames, 1, j)

\* Nothing changes for the frames around the last statement.
LEMMA OuterStays ==
    ASSUME Kinds, NEW N, Written(N), NEW k, NEW j, Innermost(k, j), NEW S, reassigned \subseteq S,
           NEW t, NEW n, NEW q, NEW M, NEW G, Closing(N, j, t, n, q, M, G)
    PROVE  /\ Grows(program, N, t, n, q, M) /\ Len(program) \in Nat /\ Len(q) = Len(program) + 1
           /\ N[Len(program) + 1] = Note(flow, frames, k + 1) /\ M[Len(q) + 1] = n
           /\ G \in Seq(FrameSet(kind)) /\ Len(G) = j /\ \A e \in 1..j : G[e] = frames[e]
           /\ Alike(frames, G, j) /\ FramesSound(kind, S, q, M, G, born)
<1>1. /\ program \in Seq(Tokens(DOMAIN kind)) /\ N \in Seq(NoteSet(kind)) /\ Len(N) = Len(program) + 1
      /\ FramesSound(kind, reassigned, program, N, frames, born)
      /\ N[Len(program) + 1] = Note(flow, frames, Len(frames) + 1)
  BY DEF Written, Certified, Framed, FramedBut
<1>2. /\ frames \in Seq(FrameSet(kind)) /\ k \in Nat /\ j \in Nat /\ k = j + 1 /\ j >= 1
      /\ Len(frames) = k /\ top = frames[k] /\ born \in [DOMAIN kind -> Nat]
  BY InnermostIs DEF Innermost
<1>3. G \in Seq(FrameSet(kind)) /\ Len(G) = j /\ \A e \in 1..j : G[e] = frames[e]
  BY <1>2 DEF Closing
<1>4. Alike(frames, G, j)
  BY <1>3 DEF Alike
<1>5. Grows(program, N, t, n, q, M) /\ Len(program) \in Nat /\ Len(q) = Len(program) + 1 /\ M[Len(q) + 1] = n
  <2>1. Len(program) \in Nat /\ Len(q) = Len(program) + 1 /\ Len(M) = Len(program) + 2
    BY <1>1 DEF Closing
  <2>2. /\ \A i \in 1..Len(program) : q[i] = program[i]
        /\ q[Len(program) + 1] = t
        /\ \A i \in 1..Len(N) : M[i] = N[i]
        /\ M[Len(N) + 1] = n
    BY <1>1 DEF Closing
  <2> QED
    BY <1>1, <2>1, <2>2, SMTT(30) DEF Grows
<1>6. \A e \in 1..j : frames[e].locals \cap LiveIn(kind, frames[e].before) = {} /\ frames[e].start # top.start
  <2> SUFFICES ASSUME NEW e \in 1..j
               PROVE  frames[e].locals \cap LiveIn(kind, frames[e].before) = {} /\ frames[e].start # top.start
    OBVIOUS
  <2>1. e \in 1..Len(frames) /\ k \in 1..Len(frames) /\ e < k
    BY <1>2
  <2>2. frames[e].locals \cap LiveIn(kind, frames[e].before) = {} /\ frames[e].start < frames[k].start
    BY <1>1, <2>1 DEF FramesSound
  <2>3. frames[e] \in FrameSet(kind) /\ frames[k] \in FrameSet(kind)
    BY <1>2, <2>1
  <2>4. frames[e].start \in Nat /\ frames[k].start \in Nat
    BY <2>3 DEF FrameSet
  <2> QED
    BY <1>2, <2>2, <2>4
<1>7. /\ j = Len(G) /\ j \in 1..Len(frames) /\ Reborn(kind, frames[j].before, born, born) /\ Apart(t, frames, j)
      /\ G[j].locals \cap LiveIn(kind, G[j].before) = {}
  BY <1>2, <1>3, <1>6 DEF Reborn, Apart, Closing
<1>8. FramesSound(kind, S, q, M, G, born)
  <2>1. /\ Len(program) \in Nat /\ Grows(program, N, t, n, q, M)
        /\ FramesSound(kind, reassigned, program, N, frames, born)
        /\ G \in Seq(FrameSet(kind)) /\ j = Len(G) /\ j \in 1..Len(frames) /\ Alike(frames, G, j)
        /\ born \in [DOMAIN kind -> Nat] /\ Reborn(kind, frames[j].before, born, born) /\ Apart(t, frames, j)
        /\ G[j].locals \cap LiveIn(kind, G[j].before) = {}
    BY <1>1, <1>2, <1>3, <1>4, <1>5, <1>7
  <2> QED
    BY <2>1, FramesStay
<1> QED
  BY <1>1, <1>2, <1>3, <1>4, <1>5, <1>8

\* The last statement is over; state g is behind it.
LEMMA Popped ==
    ASSUME Kinds, NEW N, Written(N), NEW k, NEW j, Innermost(k, j), NEW S, reassigned \subseteq S,
           NEW t, t.op = "end", NEW g, FlowSound(kind, g),
           NEW q, NEW M, NEW G, Closing(N, j, t, Note(g, frames, k), q, M, G),
           Goes(kind, S, born, frames[j].depth, frames[j].before, g, frames[j].locals)
    PROVE  Framed(kind, S, q, M, G, g, born)
<1>0. PICK n : n = Note(g, frames, k)
  OBVIOUS
<1>1. /\ Grows(program, N, t, n, q, M) /\ Len(program) \in Nat /\ Len(q) = Len(program) + 1
      /\ M[Len(q) + 1] = n
      /\ Len(G) = j /\ \A e \in 1..j : G[e] = frames[e]
      /\ Alike(frames, G, j) /\ FramesSound(kind, S, q, M, G, born)
  <2>1. Closing(N, j, t, n, q, M, G)
    BY <1>0
  <2>2. /\ Grows(program, N, t, n, q, M) /\ Len(program) \in Nat /\ Len(q) = Len(program) + 1
        /\ N[Len(program) + 1] = Note(flow, frames, k + 1) /\ M[Len(q) + 1] = n
        /\ G \in Seq(FrameSet(kind)) /\ Len(G) = j /\ \A e \in 1..j : G[e] = frames[e]
        /\ Alike(frames, G, j) /\ FramesSound(kind, S, q, M, G, born)
    BY <2>1, OuterStays
  <2> QED
    BY <2>2
<1>2. k = j + 1 /\ j \in Nat /\ j >= 1 /\ Len(frames) = k /\ top = frames[k] /\ OpenOrEnded(program, frames)
  BY InnermostIs DEF Innermost
<1>3. M[Len(q) + 1] = Note(g, G, Len(G) + 1)
  <2>1. k \in 1..(j + 1)
    BY <1>2
  <2> QED
    BY <1>0, <1>1, <1>2, <2>1, NoteAlike
<1>4. Current(kind, S, G, g, born, {})
  <2>1. G[Len(G)] = frames[j]
    BY <1>1, <1>2
  <2> QED
    BY <2>1 DEF Current, Goes
<1>5. OpenOrEnded(q, G)
  <2> SUFFICES ASSUME NEW i \in 1..Len(q), q[i].op \in Openers
               PROVE  Ended(q, i) \/ \E e \in 2..Len(G) : G[e].start = i
    BY DEF OpenOrEnded
  <2>1. q[Len(program) + 1] = t
    BY <1>1 DEF Grows
  <2>2. i # Len(program) + 1
    BY <2>1 DEF Openers, Loops
  <2>3. i \in 1..Len(program) /\ program[i].op \in Openers
    BY <1>1, <2>2 DEF Grows
  <2>4. Ended(program, i) \/ \E e \in 2..Len(frames) : frames[e].start = i
    BY <1>2, <2>3 DEF OpenOrEnded
  <2>5. CASE Ended(program, i)
    BY <1>1, <2>5, EndedGrows
  <2>6. ASSUME NEW e \in 2..Len(frames), frames[e].start = i
        PROVE  Ended(q, i) \/ \E d \in 2..Len(G) : G[d].start = i
    <3>1. CASE e = k
      <4>1. t.of = i
        BY <1>2, <2>6, <3>1 DEF Closing
      <4>2. Len(program) + 1 \in Ends(q)
        BY <1>1, <2>1 DEF Ends
      <4> QED
        BY <2>1, <4>1, <4>2 DEF Ended
    <3>2. CASE e # k
      BY <1>1, <1>2, <2>6, <3>2
    <3> QED
      BY <3>1, <3>2
  <2> QED
    BY <2>4, <2>5, <2>6
<1> QED
  BY <1>1, <1>3, <1>4, <1>5 DEF Framed, FramedBut

\* The frame x is the last one for the next branch, in operator op, with m behind it.
Turns(x, op, m) ==
    /\ x.op = op /\ x.merged = m /\ x.locals = {}
    /\ x.start = top.start /\ x.cond = top.cond /\ x.before = top.before
    /\ x.depth = top.depth /\ x.header = top.header

\* The branch is the first of an if, or an arm of a switch.
Turning(t, op) ==
    \/ t.op = "else" /\ top.op = "if" /\ op = "else"
    \/ t.op = "arm" /\ top.op = "switch" /\ op = "switch"

\* Frame k is x.
Replaced(H, k, x) == H = [frames EXCEPT ![k] = x]

\* Another branch of the last statement is opened, in state f.
LEMMA Turned ==
    ASSUME Kinds, NEW N, Written(N), NEW k, NEW j, Innermost(k, j),
           NEW t, t.locals = top.locals, NEW op, Turning(t, op),
           NEW m, FlowSound(kind, m), Within(kind, reassigned, born, top, m),
           Settles(kind, Note(top.merged, frames, k), Note(m, frames, k)), NEW l, l = k + 1,
           Leaves(kind, reassigned, Note(flow, frames, l), Note(m, frames, k), top.locals),
           NEW x \in FrameSet(kind), Turns(x, op, m),
           NEW f, FlowSound(kind, f), Within(kind, reassigned, born, top, f),
           NEW H, Replaced(H, k, x),
           NEW q, NEW M, NEW G, Closing(N, j, t, Note(f, H, l), q, M, G)
    PROVE  Framed(kind, reassigned, q, M, H, f, born)
<1> DEFINE i == top.start
           e == Len(program) + 1
<1>2. PICK n : n = Note(f, H, l)
  OBVIOUS
<1>1. Closing(N, j, t, n, q, M, G) /\ t.of = i
  BY <1>2 DEF Closing
<1>3. /\ Grows(program, N, t, n, q, M) /\ Len(program) \in Nat /\ Len(q) = e
      /\ N[e] = Note(flow, frames, l) /\ M[Len(q) + 1] = n
      /\ G \in Seq(FrameSet(kind)) /\ Len(G) = j /\ \A d \in 1..j : G[d] = frames[d]
      /\ Alike(frames, G, j) /\ FramesSound(kind, reassigned, q, M, G, born)
  <2> HIDE DEF i, e
  <2>1. /\ Grows(program, N, t, n, q, M) /\ Len(program) \in Nat /\ Len(q) = Len(program) + 1
        /\ N[Len(program) + 1] = Note(flow, frames, k + 1) /\ M[Len(q) + 1] = n
        /\ G \in Seq(FrameSet(kind)) /\ Len(G) = j /\ \A d \in 1..j : G[d] = frames[d]
        /\ Alike(frames, G, j) /\ FramesSound(kind, reassigned, q, M, G, born)
    BY <1>1, OuterStays
  <2> QED
    BY <2>1 DEF e
<1>4. /\ k = j + 1 /\ j \in Nat /\ k \in Nat /\ j >= 1 /\ Len(frames) = k /\ top = frames[k] /\ k - 1 = j
      /\ frames \in Seq(FrameSet(kind))
      /\ FlowSound(kind, top.before) /\ OpenOrEnded(program, frames)
      /\ Begun(program, N, frames, k) /\ Merges(kind, reassigned, program, N, frames, k)
      /\ Nested(kind, reassigned, frames, k, born)
      /\ top.depth \in Nat /\ frames[j].depth \in Nat /\ top.start \in Nat /\ born \in [DOMAIN kind -> Nat]
      /\ LiveIn(kind, frames[j].before) \subseteq LiveIn(kind, top.before)
  BY InnermostIs DEF Innermost
<1>5. H \in Seq(FrameSet(kind)) /\ Len(H) = k /\ H[k] = x /\ \A d \in 1..j : H[d] = frames[d]
  BY <1>4 DEF Replaced
<1>6. Append(G, x) = H
  <2>1. Append(G, x) \in Seq(FrameSet(kind)) /\ Len(Append(G, x)) = k
    BY <1>3, <1>4
  <2>2. \A d \in 1..k : Append(G, x)[d] = H[d]
    <3> SUFFICES ASSUME NEW d \in 1..k PROVE Append(G, x)[d] = H[d]
      OBVIOUS
    <3>1. CASE d = k
      BY <1>3, <1>4, <1>5, <3>1
    <3>2. CASE d # k
      <4>1. d \in 1..j
        BY <1>4, <3>2
      <4> QED
        BY <1>3, <1>5, <4>1
    <3> QED
      BY <3>1, <3>2
  <2> HIDE DEF i
  <2> QED
    BY <1>5, <2>1, <2>2, SeqEqual
<1>7. Alike(frames, H, j)
  BY <1>5 DEF Alike
<1>8. \A g : Note(g, H, k) = Note(g, frames, k)
  <2>1. k \in 1..(j + 1)
    BY <1>4
  <2> QED
    BY <1>4, <1>7, <2>1, NoteAlike
<1>9. /\ x.op = op /\ x.merged = m /\ x.locals = {} /\ x.start = i /\ x.cond = top.cond /\ x.before = top.before
      /\ x.depth = top.depth /\ x.header = top.header
  BY DEF Turns
<1>10. op \in {"else", "switch"} /\ Opens(op) = Opens(top.op) /\ op \notin Loops /\ top.op \notin Loops
  BY DEF Turning, Opens, Loops
<1>11. i \in 1..Len(program) /\ q[i] = program[i] /\ M[i] = N[i] /\ i \in 1..Len(q)
  <2>1. i \in 1..Len(program)
    BY <1>4 DEF Begun
  <2> QED
    BY <1>3, <2>1 DEF Grows
<1>12. Begun(q, M, H, k)
  <2>1. /\ program[i].op = Opens(top.op)
        /\ top.op \in {"if", "else"} \cup Loops => top.cond.on = program[i].on /\ top.cond.holds = program[i].holds
        /\ top.op \in {"block", "switch"} => top.cond.on = None
        /\ top.header = {}
        /\ N[i].reaches /\ top.before.reaches /\ N[i].init = top.before.init
        /\ N[i].facts = Note(top.before, frames, k).facts
        /\ top.before.handled = N[i].handled \cup ({top.cond.on} \ {None})
        /\ top.cond.on # None => top.before.init[top.cond.on] = "set"
    BY <1>4, <1>10 DEF Begun
  <2>2. /\ op \in {"if", "else"} => top.op \in {"if", "else"}
        /\ op \in {"block", "switch"} => top.op \in {"block", "switch"}
    BY DEF Turning
  <2>3. PICK y : y = H[k]
    OBVIOUS
  <2>4. /\ y.op = op /\ y.start = i /\ y.cond = top.cond /\ y.before = top.before /\ y.header = top.header
    BY <1>5, <1>9, <2>3
  <2>5. Note(y.before, H, k).facts = N[i].facts
    BY <1>8, <2>1, <2>4
  <2> HIDE DEF i
  <2>6. q[i].op = Opens(y.op) /\ y.op \notin Loops
    BY <1>10, <1>11, <2>1, <2>4
  <2>7. /\ y.op \in {"if", "else"} \cup Loops => y.cond.on = q[i].on /\ y.cond.holds = q[i].holds
        /\ y.op \in {"block", "switch"} => y.cond.on = None
    BY <1>11, <2>1, <2>2, <2>4, <2>6
  <2> QED
    BY <1>11, <2>1, <2>3, <2>4, <2>5, <2>6, <2>7 DEF Begun
<1>13. Merges(kind, reassigned, q, M, H, k)
  <2>1. /\ top.op = "switch" => program[i].exhaustive \/ Plain(kind, reassigned, N[i], Note(top.merged, frames, k))
        /\ \A d \in Closers(program) :
             program[d].of = i => /\ program[d].op # "end"
                                  /\ Leaves(kind, reassigned, N[d], Note(top.merged, frames, k), program[d].locals)
    BY <1>4 DEF Merges
  <2>2. q[e] = t /\ M[e] = N[e] /\ Closers(q) \subseteq Closers(program) \cup {e}
        /\ \A d \in Closers(program) : q[d] = program[d] /\ M[d] = N[d]
    BY <1>3 DEF Grows, Closers
  <2>3. Note(x.merged, H, k) = Note(m, frames, k)
    BY <1>8, <1>9
  <2>4. ASSUME NEW d \in Closers(q), q[d].of = i
        PROVE  q[d].op # "end" /\ Leaves(kind, reassigned, M[d], Note(m, frames, k), q[d].locals)
    <3>1. CASE d = e
      <4>1. t.op # "end"
        BY DEF Turning
      <4> QED
        BY <1>1, <1>3, <2>2, <3>1, <4>1
    <3>2. CASE d \in Closers(program)
      <4>1. program[d].op # "end" /\ Leaves(kind, reassigned, N[d], Note(top.merged, frames, k), program[d].locals)
        BY <2>1, <2>2, <2>4, <3>2
      <4>2. Leaves(kind, reassigned, N[d], Note(m, frames, k), program[d].locals)
        BY <4>1, SettledStays
      <4> QED
        BY <2>2, <3>2, <4>1, <4>2
    <3> QED
      BY <2>2, <3>1, <3>2
  <2>5. op = "else" => Elses(q, i) # {}
    <3> SUFFICES ASSUME op = "else" PROVE e \in Elses(q, i)
      OBVIOUS
    <3>1. t.op = "else"
      BY DEF Turning
    <3> QED
      BY <1>1, <1>3, <2>2, <3>1 DEF Elses
  <2>6. op = "switch" => program[i].exhaustive \/ Plain(kind, reassigned, N[i], Note(m, frames, k))
    <3>1. op = "switch" => top.op = "switch"
      BY DEF Turning
    <3> QED
      BY <2>1, <3>1, SettledStays
  <2> HIDE DEF i
  <2> QED
    BY <1>5, <1>9, <1>10, <1>11, <2>3, <2>4, <2>5, <2>6 DEF Merges
<1>14. Nested(kind, reassigned, H, k, born)
  <2>1. /\ frames[j].start < i
        /\ top.depth = frames[j].depth
        /\ Later(kind, reassigned, born, frames[j].depth, frames[j].before, top.before)
        /\ LiveIn(kind, top.before) \subseteq LiveIn(kind, frames[j].before) \cup frames[j].locals \cup top.header
        /\ top.header \subseteq LiveIn(kind, top.before)
        /\ top.header \cap LiveIn(kind, frames[j].before) = {}
        /\ \A s \in LiveIn(kind, top.before) : born[s] <= frames[j].depth
    BY <1>4, <1>10, SMTT(30) DEF Nested
  <2>2. H[k - 1] = frames[j]
    BY <1>4, <1>5
  <2> HIDE DEF i
  <2>3. x.merged.reaches =>
         /\ Later(kind, reassigned, born, x.depth, x.before, x.merged)
         /\ LiveIn(kind, x.merged) \subseteq LiveIn(kind, x.before)
    BY <1>9 DEF Within
  <2>4. x.depth = frames[j].depth + (IF x.op \in Loops THEN 1 ELSE 0)
    BY <1>4, <1>9, <1>10, <2>1
  <2> QED
    BY <1>5, <1>9, <2>1, <2>2, <2>3, <2>4 DEF Nested
<1>15. FramesSound(kind, reassigned, q, M, H, born)
  <2>1. FrameSound(kind, reassigned, q, M, H, k, born)
    BY <1>5, <1>9, <1>10, <1>12, <1>13, <1>14 DEF FrameSound
  <2>2. FrameSound(kind, reassigned, q, M, Append(G, x), Len(G) + 1, born)
    BY <1>3, <1>4, <1>6, <2>1
  <2>3. /\ G[Len(G)].start < x.start /\ G[Len(G)].depth <= x.depth
        /\ LiveIn(kind, G[Len(G)].before) \subseteq LiveIn(kind, x.before)
    <3>1. G[Len(G)] = frames[j]
      BY <1>3, <1>4
    <3>2. frames[j].start < i /\ frames[j].depth <= top.depth
      BY <1>4, <1>10 DEF Nested
    <3> QED
      BY <1>4, <1>9, <3>1, <3>2
  <2>4. FramesSound(kind, reassigned, q, M, Append(G, x), born)
    BY <1>3, <1>4, <1>9, <2>2, <2>3, FramesPush
  <2> QED
    BY <1>6, <2>4
<1>16. Current(kind, reassigned, H, f, born, {})
  <2>1. \A s \in LiveIn(kind, top.before) : born[s] <= top.depth
    <3>1. /\ \A s \in LiveIn(kind, top.before) : born[s] <= frames[j].depth
          /\ top.depth = frames[j].depth
      BY <1>4, <1>10 DEF Nested
    <3> QED
      BY <3>1
  <2>2. H[Len(H)] = x
    BY <1>5
  <2> QED
    BY <1>9, <2>1, <2>2 DEF Current, Within
<1>17. OpenOrEnded(q, H)
  <2> SUFFICES ASSUME NEW d \in 1..Len(q), q[d].op \in Openers
               PROVE  Ended(q, d) \/ \E c \in 2..Len(H) : H[c].start = d
    BY DEF OpenOrEnded
  <2>1. q[e] = t
    BY <1>3 DEF Grows
  <2>2. d # e
    BY <2>1 DEF Turning, Openers, Loops
  <2>3. d \in 1..Len(program) /\ program[d].op \in Openers
    BY <1>3, <2>2 DEF Grows
  <2>4. Ended(program, d) \/ \E c \in 2..Len(frames) : frames[c].start = d
    BY <1>4, <2>3 DEF OpenOrEnded
  <2>5. \A c \in 2..k : H[c].start = frames[c].start
    <3> SUFFICES ASSUME NEW c \in 2..k PROVE H[c].start = frames[c].start
      OBVIOUS
    <3>1. c = k \/ c \in 1..j
      BY <1>4
    <3> QED
      BY <1>4, <1>5, <1>9, <3>1
  <2>6. Ended(program, d) => Ended(q, d)
    BY <1>3, EndedGrows
  <2> QED
    BY <1>4, <1>5, <2>4, <2>5, <2>6
<1>18. M[Len(q) + 1] = Note(f, H, Len(H) + 1)
  BY <1>2, <1>3, <1>5
<1> QED
  BY <1>15, <1>16, <1>17, <1>18 DEF Framed, FramedBut

-----------------------------------------------------------------------------
(* Statements that end a branch.                                           *)

\* Token t ends a branch of the last statement, rightly, and n is known after it.
Ending(N, k, S, t, n) ==
    /\ t.op \in Closes /\ t.of = top.start
    /\ CloseSound(kind, S, t, program[top.start], Note(flow, frames, k + 1), N[top.start])
    /\ JoinSound(kind, S, t, program[top.start], N[top.start], n, Elses(program, top.start) # {})
    /\ t.op = "end" /\ top.op \notin Loops =>
         /\ Leaves(kind, S, Note(flow, frames, k + 1), n, t.locals)
         /\ Settles(kind, Note(top.merged, frames, k), n)

\* The branches that ended before agree with what follows, as the last frame knows.
LEMMA EndingIsCertified ==
    ASSUME Kinds, NEW N, Written(N), NEW k, NEW j, Innermost(k, j), NEW S, reassigned \subseteq S,
           NEW t \in Tokens(DOMAIN kind), NEW n \in NoteSet(kind), Ending(N, k, S, t, n)
    PROVE  Certified(kind, S, Append(program, t), Append(N, n))
<1> DEFINE q == Append(program, t)
           M == Append(N, n)
           i == top.start
           e == Len(program) + 1
           R == reassigned
<1>1. /\ t.op \in Closes /\ t.of = i
      /\ CloseSound(kind, S, t, program[i], Note(flow, frames, k + 1), N[i])
      /\ JoinSound(kind, S, t, program[i], N[i], n, Elses(program, i) # {})
      /\ t.op = "end" /\ top.op \notin Loops =>
           /\ Leaves(kind, S, Note(flow, frames, k + 1), n, t.locals)
           /\ Settles(kind, Note(top.merged, frames, k), n)
  BY DEF Ending
<1>2. /\ Certified(kind, R, program, N) /\ Len(frames) = k
      /\ N[e] = Note(flow, frames, k + 1)
      /\ program \in Seq(Tokens(DOMAIN kind)) /\ N \in Seq(NoteSet(kind)) /\ Len(N) = e
  BY DEF Written, Framed, FramedBut, Certified, Innermost
<1>3. /\ Begun(program, N, frames, k) /\ Merges(kind, R, program, N, frames, k) /\ top = frames[k]
  BY InnermostIs DEF Innermost
<1>4. /\ i \in 1..Len(program) /\ program[i].op = Opens(top.op)
      /\ top.op \in Loops <=> program[i].op \in Loops
      /\ \A d \in Closers(program) : program[d].of = i =>
           /\ top.op \notin Loops /\ program[d].op # "end"
           /\ Leaves(kind, R, N[d], Note(top.merged, frames, k), program[d].locals)
  BY <1>3 DEF Begun, Merges, Opens, Loops
<1>5. /\ Len(program) \in Nat /\ Len(q) = e /\ q[e] = t /\ \A d \in 1..Len(program) : q[d] = program[d]
      /\ M[e] = N[e] /\ M[e + 1] = n /\ \A d \in 1..Len(program) : M[d] = N[d]
  BY <1>2
<1> HIDE DEF q, M
<1>6. TokenSound(kind, S, q, M, e)
  <2>1. StepSound(kind, S, t, M[e], n)
    BY <1>1 DEF StepSound, Closes, Loops
  <2>2. Elses(program, i) # {} => Elses(q, i) # {}
    BY <1>5 DEF Elses
  <2>3. JoinSound(kind, S, t, program[i], N[i], n, Elses(q, i) # {})
    BY <1>1, <2>2 DEF JoinSound
  <2>4. i \in 1..(e - 1)
    BY <1>4, <1>5
  <2> HIDE DEF i, e
  <2> QED
    BY <1>1, <1>2, <1>4, <1>5, <2>1, <2>3, <2>4 DEF TokenSound
<1>7. ~Ended(program, t.of)
  BY <1>1, <1>4 DEF Ended, Ends, Closers, Closes
<1>8. ASSUME t.op = "end", NEW d \in Closers(q) PROVE BranchSound(kind, S, q, M, d, e)
  <2> SUFFICES ASSUME q[d].of = i, q[i].op \notin Loops
               PROVE  Leaves(kind, S, M[d], n, q[d].locals)
    BY <1>1, <1>5 DEF BranchSound
  <2>1. top.op \notin Loops
    BY <1>4, <1>5
  <2>2. d = e \/ d \in Closers(program)
    BY <1>5 DEF Closers
  <2>3. CASE d = e
    BY <1>1, <1>2, <1>5, <1>8, <2>1, <2>3
  <2>4. CASE d \in Closers(program)
    <3>1. d \in 1..Len(program) /\ q[d] = program[d] /\ M[d] = N[d]
      BY <1>5, <2>4 DEF Closers
    <3>2. Leaves(kind, R, N[d], Note(top.merged, frames, k), program[d].locals)
      BY <1>4, <2>4, <3>1
    <3>3. Leaves(kind, S, N[d], Note(top.merged, frames, k), program[d].locals)
      BY <3>2, MoreExcepted
    <3>4. Leaves(kind, S, N[d], n, program[d].locals)
      BY <1>1, <1>8, <2>1, <3>3, SettledStays
    <3> QED
      BY <3>1, <3>4
  <2> QED
    BY <2>2, <2>3, <2>4
<1>9. Certified(kind, S, q, M)
  BY <1>1, <1>2, <1>6, <1>7, <1>8, CertifiedGrows DEF q, M, e
<1> QED
  BY <1>9 DEF q, M

\* What is behind a statement that is no loop follows what was before it.
LEMMA WithinGoes ==
    ASSUME Kinds, NEW N, Written(N), NEW k, NEW j, Innermost(k, j), top.op \notin Loops,
           NEW g, Within(kind, reassigned, born, top, g)
    PROVE  Goes(kind, reassigned, born, frames[j].depth, frames[j].before, g, frames[j].locals)
<1>1. /\ Begun(program, N, frames, k) /\ Nested(kind, reassigned, frames, k, born) /\ top = frames[k] /\ k - 1 = j
      /\ top.depth \in Nat /\ frames[j].depth \in Nat /\ born \in [DOMAIN kind -> Nat]
  BY InnermostIs DEF Innermost
<1>2. /\ top.depth = frames[j].depth
      /\ Later(kind, reassigned, born, frames[j].depth, frames[j].before, top.before)
      /\ LiveIn(kind, top.before) \subseteq LiveIn(kind, frames[j].before) \cup frames[j].locals
      /\ \A s \in LiveIn(kind, top.before) : born[s] <= frames[j].depth
  BY <1>1, SMTT(30) DEF Nested, Begun
<1> SUFFICES ASSUME g.reaches
             PROVE  /\ Later(kind, reassigned, born, frames[j].depth, frames[j].before, g)
                    /\ LiveIn(kind, g) \subseteq LiveIn(kind, frames[j].before) \cup frames[j].locals
                    /\ \A s \in LiveIn(kind, g) : born[s] <= frames[j].depth
  BY DEF Goes
<1>3. /\ Later(kind, reassigned, born, top.depth, top.before, g)
      /\ LiveIn(kind, g) \subseteq LiveIn(kind, top.before)
  BY DEF Within
<1>4. Later(kind, reassigned, born, frames[j].depth, frames[j].before, g)
  <2>1. frames[j].depth \in Nat /\ top.depth \in Nat /\ frames[j].depth <= top.depth
    BY <1>1, <1>2
  <2> QED
    BY <1>1, <1>2, <1>3, <2>1, LaterTrans
<1> QED
  BY <1>2, <1>3, <1>4

\* leave_scope refuses results of the branch that were not looked at.
LEMMA MayLeaveIs ==
    ASSUME Kinds, NEW N, Written(N), NEW k, NEW j, Innermost(k, j), top.op \notin Loops, MayLeave(flow, top.locals),
           NEW S, NEW t, t.locals = top.locals, t.on = None, NEW h
    PROVE  CloseSound(kind, S, t, program[top.start], Note(flow, frames, k + 1), h)
<1>1. Begun(program, N, frames, k) /\ top = frames[k] /\ top.op \in {"else"} \cup Openers \cup {"body"} /\ top.op # "body"
  <2>1. top \in FrameSet(kind) /\ Begun(program, N, frames, k) /\ top = frames[k] /\ k \in 2..k
    BY InnermostIs DEF Innermost
  <2>2. FrameSound(kind, reassigned, program, N, frames, k, born)
    BY <2>1 DEF Written, Framed, FramedBut, FramesSound, Innermost
  <2> QED
    BY <2>1, <2>2 DEF FrameSet, FrameSound
<1>2. program[top.start].op \in Openers /\ program[top.start].op \notin Loops
  BY <1>1 DEF Begun, Opens, Openers, Loops
<1>3. flow \in FlowSet(kind) /\ top.locals \subseteq DOMAIN kind
  <2>1. flow \in FlowSet(kind) /\ top \in FrameSet(kind)
    BY InnermostIs DEF Written, Framed, FramedBut, Current, FlowSound
  <2> QED
    BY <2>1 DEF FrameSet
<1>4. Note(flow, frames, k + 1).handled = flow.handled
  BY <1>3, NoteIs
<1>5. Note(flow, frames, k + 1).reaches => flow.reaches
  <2>1. (Note(flow, frames, k + 1).reaches <=> flow.reaches)
    BY <1>3, NoteIs, Zenon
  <2> QED
    BY <2>1
<1>6. Note(flow, frames, k + 1).reaches => Handles(kind, Note(flow, frames, k + 1), t.locals)
  BY <1>3, <1>4, <1>5 DEF MayLeave, Handles, Results, Symbols
<1> QED
  BY <1>2, <1>6 DEF CloseSound

\* What the closed branches of the last statement come to is behind them.
LEMMA MergedWithin ==
    ASSUME Kinds, NEW N, Written(N), NEW k, NEW j, Innermost(k, j)
    PROVE  /\ FlowSound(kind, top.merged) /\ Within(kind, reassigned, born, top, top.merged)
           /\ top.op \in {"block", "if"} => \A g : Settles(kind, Note(top.merged, frames, k), g)
<1>1. /\ FlowSound(kind, top.merged) /\ Merges(kind, reassigned, program, N, frames, k)
      /\ Nested(kind, reassigned, frames, k, born) /\ top = frames[k]
  BY InnermostIs DEF Innermost
<1>2. Within(kind, reassigned, born, top, top.merged)
  BY <1>1 DEF Nested, Within
<1>3. top.op \in {"block", "if"} => ~Note(top.merged, frames, k).reaches
  BY <1>1 DEF Merges
<1> QED
  BY <1>1, <1>2, <1>3 DEF Settles

\* A branch ends a statement: what was known at the end of it is merged with other,
\* which is known on the alternative.
LEMMA BranchEnds ==
    ASSUME Kinds, NEW N, Written(N), NEW k, NEW j, Innermost(k, j), top.op \notin Loops, MayLeave(flow, top.locals),
           NEW inner, inner = Leave(flow, top.locals),
           NEW other, FlowSound(kind, other), Within(kind, reassigned, born, top, other),
           NEW t \in Tokens(DOMAIN kind), t = [op |-> "end", on |-> None, of |-> top.start, locals |-> top.locals],
           program' = Append(program, t), frames' = SubSeq(frames, 1, Len(frames) - 1),
           flow' = Merge(inner, other) \/ flow' = Merge(other, inner),
           top.op = "if" => Tests(kind, reassigned, N[top.start], Note(other, frames, k), program[top.start], FALSE, {}),
           top.op # "if" => other = top.merged,
           UNCHANGED <<kind, born, reassigned>>
    PROVE  \E M : Written(M)'
<1> DEFINE g == flow'
           n == Note(g, frames, k)
           i == top.start
           c == Note(flow, frames, k + 1)
<1>1. /\ FlowSound(kind, inner) /\ Within(kind, reassigned, born, top, inner)
      /\ Leaves(kind, reassigned, c, Note(inner, frames, k), top.locals)
  <2>1. PICK l : l = k + 1
    OBVIOUS
  <2> QED
    BY <2>1, LeavesTop
<1>2. /\ FlowSound(kind, g) /\ Within(kind, reassigned, born, top, g)
      /\ Settles(kind, Note(inner, frames, k), n)
      /\ Settles(kind, Note(other, frames, k), n)
  <2>1. CASE flow' = Merge(inner, other)
    BY <1>1, <2>1, MergeSettles
  <2>2. CASE flow' = Merge(other, inner)
    BY <1>1, <2>2, MergeSettles
  <2> QED
    BY <2>1, <2>2
<1> HIDE DEF g
<1>3. t.op = "end" /\ t.on = None /\ t.of = i /\ t.locals = top.locals
  OBVIOUS
<1>4. /\ Begun(program, N, frames, k) /\ Merges(kind, reassigned, program, N, frames, k) /\ top = frames[k] /\ top.op # "body"
      /\ k = Len(frames) /\ j = Len(frames) - 1
  <2>1. Begun(program, N, frames, k) /\ Merges(kind, reassigned, program, N, frames, k) /\ top = frames[k] /\ k \in 2..k
    BY InnermostIs DEF Innermost
  <2>2. FrameSound(kind, reassigned, program, N, frames, k, born)
    BY <2>1 DEF Written, Framed, FramedBut, FramesSound, Innermost
  <2> QED
    BY <2>1, <2>2 DEF FrameSound, Innermost
<1>5. CloseSound(kind, reassigned, t, program[i], c, N[i])
  BY <1>3, MayLeaveIs
<1>6. JoinSound(kind, reassigned, t, program[i], N[i], n, Elses(program, i) # {})
  <2>1. program[i].op = Opens(top.op) /\ program[i].op \notin Loops
    BY <1>4 DEF Begun, Opens, Loops
  <2>2. program[i].op = "if" => Elses(program, i) # {} \/ Tests(kind, reassigned, N[i], n, program[i], FALSE, {})
    <3>1. CASE top.op = "if"
      BY <1>2, <3>1, SettledStays
    <3>2. CASE top.op = "else"
      BY <1>4, <3>2 DEF Merges
    <3> QED
      BY <2>1, <3>1, <3>2 DEF Opens
  <2>3. program[i].op = "switch" => program[i].exhaustive \/ Plain(kind, reassigned, N[i], n)
    <3> SUFFICES ASSUME program[i].op = "switch" PROVE program[i].exhaustive \/ Plain(kind, reassigned, N[i], n)
      OBVIOUS
    <3>1. top.op = "switch" /\ other = top.merged
      BY <2>1 DEF Opens
    <3>2. program[i].exhaustive \/ Plain(kind, reassigned, N[i], Note(top.merged, frames, k))
      BY <1>4, <3>1 DEF Merges
    <3> QED
      BY <1>2, <3>1, <3>2, SettledStays
  <2> QED
    BY <1>3, <2>1, <2>2, <2>3 DEF JoinSound
<1>7. Leaves(kind, reassigned, c, n, t.locals)
  BY <1>1, <1>2, <1>3, SettledStays
<1>8. Settles(kind, Note(top.merged, frames, k), n)
  <2>1. CASE top.op = "if"
    BY <2>1, MergedWithin
  <2>2. CASE top.op # "if"
    BY <1>2, <2>2
  <2> QED
    BY <2>1, <2>2
<1>9. Ending(N, k, reassigned, t, n)
  <2>1. t.op \in Closes
    BY <1>3 DEF Closes
  <2> QED
    BY <1>3, <1>5, <1>6, <1>7, <1>8, <2>1 DEF Ending
<1>10. n \in NoteSet(kind)
  BY <1>2, NoteIs DEF FlowSound
<1> HIDE DEF c
<1>11. PICK q : q = Append(program, t)
  OBVIOUS
<1>12. PICK M : M = Append(N, n)
  OBVIOUS
<1>13. Certified(kind, reassigned, q, M)
  BY <1>9, <1>10, <1>11, <1>12, EndingIsCertified
<1>14. PICK G : G = SubSeq(frames, 1, j)
  OBVIOUS
<1>15. Closing(N, j, t, n, q, M, G)
  BY <1>3, <1>11, <1>12, <1>14 DEF Closing
<1>16. Goes(kind, reassigned, born, frames[j].depth, frames[j].before, g, frames[j].locals)
  BY <1>2, WithinGoes
<1>17. Framed(kind, reassigned, q, M, G, g, born)
  BY <1>2, <1>3, <1>15, <1>16, Popped
<1>18. q = program' /\ G = frames'
  BY <1>4, <1>11, <1>14
<1>19. Written(M)'
  BY <1>13, <1>17, <1>18 DEF Written, g
<1> QED
  BY <1>19

\* The end of an if, a switch or a block.
LEMMA EndBranchIsWritten ==
    ASSUME Kinds, NEW N, Written(N), EndBranch
    PROVE  \E M : Written(M)'
<1> DEFINE t == [op |-> "end", on |-> None, of |-> top.start, locals |-> top.locals]
           inner == Leave(flow, top.locals)
           ref == Refined(top.before, top.cond, FALSE)
<1>1. /\ top.op \in {"if", "else", "switch", "block"} /\ MayLeave(flow, top.locals)
      /\ program' = Append(program, t) /\ frames' = SubSeq(frames, 1, Len(frames) - 1)
      /\ flow' = IF top.op = "if" THEN Merge(inner, ref) ELSE Merge(top.merged, inner)
      /\ UNCHANGED <<kind, born, reassigned>>
  BY DEF EndBranch, LeaveBranch, Emit, Checks
<1>2. top.op # "body" /\ top.op \notin Loops
  BY <1>1 DEF Loops
<1>3. PICK k, j : Innermost(k, j)
  BY <1>2, Inside
<1>4. t \in Tokens(DOMAIN kind)
  <2>1. top \in FrameSet(kind)
    BY <1>3, InnermostIs
  <2>2. top.start \in Nat /\ top.locals \in SUBSET DOMAIN kind
    BY <2>1 DEF FrameSet
  <2> QED
    BY <2>2 DEF Tokens, Closes
<1> HIDE DEF t
<1>5. CASE top.op = "if"
  <2>1. Refines(kind, top.before, top.cond, FALSE, ref)
    <3>1. top \in FrameSet(kind) /\ None \notin DOMAIN kind
      BY <1>3, InnermostIs DEF Kinds, Symbols
    <3>2. top.before \in FlowSet(kind) /\ top.cond \in [on : DOMAIN kind \cup {None}, holds : BOOLEAN]
      BY <3>1 DEF FrameSet
    <3> QED
      BY <3>1, <3>2, RefinedIs
  <2> HIDE DEF ref
  <2>2. /\ FlowSound(kind, ref) /\ Within(kind, reassigned, born, top, ref)
        /\ Tests(kind, reassigned, N[top.start], Note(ref, frames, k), program[top.start], FALSE, {})
    BY <1>3, <1>5, <2>1, TestedJoins
  <2>3. PICK w : w = inner
    OBVIOUS
  <2>4. flow' = Merge(w, ref)
    BY <1>1, <1>5, <2>3
  <2> QED
    BY <1>1, <1>2, <1>3, <1>4, <1>5, <2>2, <2>3, <2>4, BranchEnds DEF t
<1>6. CASE top.op # "if"
  <2>1. FlowSound(kind, top.merged) /\ Within(kind, reassigned, born, top, top.merged)
    BY <1>3, MergedWithin
  <2>2. PICK w : w = inner
    OBVIOUS
  <2>3. flow' = Merge(top.merged, w)
    BY <1>1, <1>6, <2>2
  <2> QED
    BY <1>1, <1>2, <1>3, <1>4, <1>6, <2>1, <2>2, <2>3, BranchEnds DEF t
<1> QED
  BY <1>5, <1>6

\* The last frame, for another branch.
LEMMA TurnsMade ==
    ASSUME top \in FrameSet(kind), NEW op \in {"else", "switch"}, NEW m \in FlowSet(kind),
           NEW x, x = [top EXCEPT !.op = op, !.merged = m, !.locals = {}]
    PROVE  x \in FrameSet(kind) /\ Turns(x, op, m)
<1>1. op \in {"body", "else"} \cup Openers
  BY DEF Openers
<1>2. x \in FrameSet(kind)
  BY <1>1 DEF FrameSet
<1>3. Turns(x, op, m)
  BY DEF Turns, FrameSet
<1> QED
  BY <1>2, <1>3

\* The frames with the last one for another branch.
Reopens(G, op, m) ==
    G = [frames EXCEPT ![Len(frames)] = [top EXCEPT !.op = op, !.merged = m, !.locals = {}]]

\* Token t ends a branch of the last statement with operator next.
Token(t, next) == t = [op |-> next, on |-> None, of |-> top.start, locals |-> top.locals]

\* The branch that token t begins may take for granted what holds in note n.
Follows(N, t, n) ==
    /\ t.op = "else" => Tests(kind, reassigned, N[top.start], n, program[top.start], FALSE, {})
    /\ t.op = "arm" => Plain(kind, reassigned, N[top.start], n)

\* A branch ends, and another one of the same statement begins.
LEMMA BranchTurns ==
    ASSUME Kinds, NEW N, Written(N), NEW k, NEW j, Innermost(k, j), MayLeave(flow, top.locals),
           NEW next, NEW op, NEW t \in Tokens(DOMAIN kind),
           Token(t, next), Turning(t, op),
           program' = Append(program, t), NEW m, FlowSound(kind, m), Within(kind, reassigned, born, top, m),
           Settles(kind, Note(top.merged, frames, k), Note(m, frames, k)),
           Settles(kind, Note(Leave(flow, top.locals), frames, k), Note(m, frames, k)),
           Reopens(frames', op, m), FlowSound(kind, flow'), Within(kind, reassigned, born, top, flow'), NEW l, l = k + 1,
           Follows(N, t, Note(flow', frames', l)), UNCHANGED <<kind, born, reassigned>>
    PROVE  \E M : Written(M)'
<1> DEFINE n == Note(flow', frames', l)
           i == top.start
           c == Note(flow, frames, l)
<1>1. t.op = next /\ t.on = None /\ t.of = i /\ t.locals = top.locals
  BY DEF Token
<1>2. /\ Begun(program, N, frames, k) /\ top = frames[k] /\ top \in FrameSet(kind)
      /\ k = Len(frames) /\ j = Len(frames) - 1
  BY InnermostIs DEF Innermost
<1>3. t.op \in Closes /\ t.op # "end" /\ top.op \notin Loops /\ op \in {"else", "switch"}
  BY DEF Turning, Closes, Loops
<1>4. Leaves(kind, reassigned, c, Note(Leave(flow, top.locals), frames, k), top.locals)
  <2>1. PICK g : g = Leave(flow, top.locals)
    OBVIOUS
  <2> QED
    BY <2>1, LeavesTop
<1>5. Leaves(kind, reassigned, c, Note(m, frames, k), top.locals)
  BY <1>4, SettledStays
<1>6. CloseSound(kind, reassigned, t, program[i], c, N[i])
  BY <1>1, <1>3, MayLeaveIs
<1>7. JoinSound(kind, reassigned, t, program[i], N[i], n, Elses(program, i) # {})
  <2>1. program[i].op = Opens(top.op)
    BY <1>2 DEF Begun
  <2>2. t.op = "else" => program[i].op = "if"
    BY <2>1 DEF Turning, Opens
  <2>3. t.op = "arm" => program[i].op = "switch"
    BY <2>1 DEF Turning, Opens
  <2> QED
    BY <1>3, <2>2, <2>3 DEF JoinSound, Follows
<1>8. Ending(N, k, reassigned, t, n)
  BY <1>1, <1>3, <1>6, <1>7 DEF Ending
<1>9. n \in NoteSet(kind)
  BY NoteIs DEF FlowSound
<1>10. PICK x : x = [top EXCEPT !.op = op, !.merged = m, !.locals = {}]
  OBVIOUS
<1>11. x \in FrameSet(kind) /\ Turns(x, op, m)
  BY <1>2, <1>3, <1>10, TurnsMade DEF FlowSound
<1>12. Replaced(frames', k, x)
  BY <1>2, <1>10 DEF Replaced, Reopens
<1>13. PICK q : q = Append(program, t)
  OBVIOUS
<1>14. PICK M : M = Append(N, n)
  OBVIOUS
<1>15. Certified(kind, reassigned, q, M)
  BY <1>8, <1>9, <1>13, <1>14, EndingIsCertified
<1>16. PICK G : G = SubSeq(frames, 1, j)
  OBVIOUS
<1>17. PICK f, H : f = flow' /\ H = frames'
  OBVIOUS
<1>18. Closing(N, j, t, Note(f, H, l), q, M, G)
  BY <1>1, <1>13, <1>14, <1>16, <1>17 DEF Closing
<1>19. Framed(kind, reassigned, q, M, H, f, born)
  <2>1. Replaced(H, k, x) /\ FlowSound(kind, f) /\ Within(kind, reassigned, born, top, f)
    BY <1>12, <1>17
  <2>2. t.locals = top.locals
    BY <1>1
  <2> HIDE DEF c
  <2>3. Leaves(kind, reassigned, Note(flow, frames, l), Note(m, frames, k), top.locals)
    BY <1>5 DEF c
  <2> QED
    BY <1>11, <1>18, <2>1, <2>2, <2>3, Turned
<1>20. Written(M)'
  BY <1>13, <1>15, <1>17, <1>19 DEF Written
<1> QED
  BY <1>20

\* What the loops around began with does not depend on the last frame.
LEMMA LastsTurned ==
    ASSUME Kinds, NEW N, Written(N), NEW k, NEW j, Innermost(k, j), NEW op, op \notin Loops, NEW m, NEW G, Reopens(G, op, m),
           NEW l, l = k + 1, NEW s, NEW v, Lasts(G, l, s, v)
    PROVE  Lasts(frames, k, s, v)
<1>1. frames \in Seq(FrameSet(kind)) /\ top \in FrameSet(kind)
  BY InnermostIs
<1>2. k \in Nat /\ j \in Nat /\ k = j + 1 /\ Len(frames) = k /\ j >= 1
  BY DEF Innermost
<1>3. PICK x : x = [top EXCEPT !.op = op, !.merged = m, !.locals = {}]
  OBVIOUS
<1>4. x.op = op
  BY <1>1, <1>3 DEF FrameSet
<1>5. G[k] = x /\ \A d \in 1..j : G[d] = frames[d]
  BY <1>1, <1>2, <1>3 DEF Reopens
<1>6. Alike(frames, G, j)
  BY <1>5 DEF Alike
<1>7. Lasts(G, k, s, v)
  <2>1. Lasts(G, k + 1, s, v) /\ k \in Nat \ {0}
    BY <1>2
  <2>2. Lasts(G, k + 1, s, v) <=> Lasts(G, k, s, v) \/ (G[k].op \in Loops /\ G[k].before.proof[s] = v)
    BY <2>1, LastsNext
  <2>3. G[k].op \notin Loops
    BY <1>4, <1>5
  <2> QED
    BY <2>1, <2>2, <2>3
<1>8. k \in 1..(j + 1)
  BY <1>2
<1> QED
  BY <1>2, <1>6, <1>7, <1>8, LastsAlike

\* The else of an if.
LEMMA ElseIsWritten ==
    ASSUME Kinds, NEW N, Written(N), Else
    PROVE  \E M : Written(M)'
<1> DEFINE t == [op |-> "else", on |-> None, of |-> top.start, locals |-> top.locals]
           inner == Leave(flow, top.locals)
           ref == Refined(top.before, top.cond, FALSE)
<1>1. /\ top.op = "if" /\ MayLeave(flow, top.locals)
      /\ program' = Append(program, t)
      /\ frames' = [frames EXCEPT ![Len(frames)] = [top EXCEPT !.op = "else", !.merged = inner, !.locals = {}]]
      /\ flow' = ref
      /\ UNCHANGED <<kind, born, reassigned>>
  BY DEF Else, LeaveBranch, Emit, Checks, Reopened
<1>2. top.op # "body" /\ top.op \notin Loops
  BY <1>1 DEF Loops
<1>3. PICK k, j : Innermost(k, j)
  BY <1>2, Inside
<1>4. t \in Tokens(DOMAIN kind)
  <2>1. top \in FrameSet(kind)
    BY <1>3, InnermostIs
  <2>2. top.start \in Nat /\ top.locals \in SUBSET DOMAIN kind
    BY <2>1 DEF FrameSet
  <2> QED
    BY <2>2 DEF Tokens, Closes
<1>14. Token(t, "else")
  BY DEF Token
<1>5. Turning(t, "else") /\ t.op # "arm"
  BY <1>1 DEF Turning
<1>6. Refines(kind, top.before, top.cond, FALSE, flow')
  <2>1. top \in FrameSet(kind) /\ None \notin DOMAIN kind
    BY <1>3, InnermostIs DEF Kinds, Symbols
  <2>2. top.before \in FlowSet(kind) /\ top.cond \in [on : DOMAIN kind \cup {None}, holds : BOOLEAN]
    BY <2>1 DEF FrameSet
  <2>3. Refines(kind, top.before, top.cond, FALSE, ref)
    BY <2>1, <2>2, RefinedIs
  <2> QED
    BY <1>1, <2>3
<1>7. PICK l : l = k + 1
  OBVIOUS
<1>8. PICK m : m = inner
  OBVIOUS
<1> HIDE DEF t, ref, inner
<1>9. Reopens(frames', "else", m)
  BY <1>1, <1>8 DEF Reopens, inner
<1>10. \A s, v : Lasts(frames', l, s, v) => Lasts(frames, k, s, v)
  <2>1. "else" \notin Loops
    BY DEF Loops
  <2> QED
    BY <1>3, <1>7, <1>9, <2>1, LastsTurned
<1>11. /\ FlowSound(kind, flow') /\ Within(kind, reassigned, born, top, flow')
       /\ Tests(kind, reassigned, N[top.start], Note(flow', frames', l), program[top.start], FALSE, {})
  BY <1>1, <1>3, <1>6, <1>10, TestedJoins
<1>12. FlowSound(kind, m) /\ Within(kind, reassigned, born, top, m)
  BY <1>3, <1>7, <1>8, LeavesTop DEF inner
<1>13. /\ Settles(kind, Note(top.merged, frames, k), Note(m, frames, k))
       /\ Settles(kind, Note(Leave(flow, top.locals), frames, k), Note(m, frames, k))
  <2>1. Settles(kind, Note(top.merged, frames, k), Note(m, frames, k))
    BY <1>1, <1>3, MergedWithin
  <2>2. Settles(kind, Note(m, frames, k), Note(m, frames, k))
    BY DEF Settles
  <2> QED
    BY <1>8, <2>1, <2>2 DEF inner
<1>15. Follows(N, t, Note(flow', frames', l))
  BY <1>5, <1>11 DEF Follows
<1>16. MayLeave(flow, top.locals) /\ program' = Append(program, t) /\ UNCHANGED <<kind, born, reassigned>>
  BY <1>1 DEF t
<1>17. FlowSound(kind, flow') /\ Within(kind, reassigned, born, top, flow')
  BY <1>11
<1> QED
  BY <1>3, <1>4, <1>5, <1>7, <1>9, <1>12, <1>13, <1>14, <1>15, <1>16, <1>17, BranchTurns

\* The next arm of a switch.
LEMMA ArmIsWritten ==
    ASSUME Kinds, NEW N, Written(N), Arm
    PROVE  \E M : Written(M)'
<1> DEFINE t == [op |-> "arm", on |-> None, of |-> top.start, locals |-> top.locals]
           inner == Leave(flow, top.locals)
<1>1. /\ top.op = "switch" /\ MayLeave(flow, top.locals)
      /\ program' = Append(program, t)
      /\ frames' = [frames EXCEPT ![Len(frames)] =
                      [top EXCEPT !.op = "switch", !.merged = Merge(top.merged, inner), !.locals = {}]]
      /\ flow' = top.before
      /\ UNCHANGED <<kind, born, reassigned>>
  BY DEF Arm, LeaveBranch, Emit, Checks, Reopened
<1>2. top.op # "body" /\ top.op \notin Loops
  BY <1>1 DEF Loops
<1>3. PICK k, j : Innermost(k, j)
  BY <1>2, Inside
<1>4. t \in Tokens(DOMAIN kind)
  <2>1. top \in FrameSet(kind)
    BY <1>3, InnermostIs
  <2>2. top.start \in Nat /\ top.locals \in SUBSET DOMAIN kind
    BY <2>1 DEF FrameSet
  <2> QED
    BY <2>2 DEF Tokens, Closes
<1>14. Token(t, "arm")
  BY DEF Token
<1>5. Turning(t, "switch") /\ t.op # "else"
  BY <1>1 DEF Turning
<1>7. PICK l : l = k + 1
  OBVIOUS
<1>8. PICK m : m = Merge(top.merged, inner)
  OBVIOUS
<1> HIDE DEF t
<1>9. Reopens(frames', "switch", m)
  BY <1>1, <1>8 DEF Reopens
<1>10. \A s, v : Lasts(frames', l, s, v) => Lasts(frames, k, s, v)
  <2>1. "switch" \notin Loops
    BY DEF Loops
  <2> QED
    BY <1>3, <1>7, <1>9, <2>1, LastsTurned
<1>11. /\ FlowSound(kind, flow') /\ Within(kind, reassigned, born, top, flow')
       /\ Plain(kind, reassigned, N[top.start], Note(flow', frames', l))
  BY <1>1, <1>3, <1>10, ArmJoins
<1>12. FlowSound(kind, inner) /\ Within(kind, reassigned, born, top, inner)
  BY <1>3, <1>7, LeavesTop
<1>13. /\ FlowSound(kind, m) /\ Within(kind, reassigned, born, top, m)
       /\ Settles(kind, Note(top.merged, frames, k), Note(m, frames, k))
       /\ Settles(kind, Note(Leave(flow, top.locals), frames, k), Note(m, frames, k))
  <2>1. FlowSound(kind, top.merged) /\ Within(kind, reassigned, born, top, top.merged)
    BY <1>3, MergedWithin
  <2>2. PICK w : w = inner
    OBVIOUS
  <2>3. FlowSound(kind, w) /\ Within(kind, reassigned, born, top, w) /\ m = Merge(top.merged, w)
    BY <1>8, <1>12, <2>2
  <2>4. /\ FlowSound(kind, m) /\ Within(kind, reassigned, born, top, m)
        /\ Settles(kind, Note(top.merged, frames, k), Note(m, frames, k))
        /\ Settles(kind, Note(w, frames, k), Note(m, frames, k))
    BY <2>1, <2>3, MergeSettles
  <2> QED
    BY <2>2, <2>4
<1>15. Follows(N, t, Note(flow', frames', l))
  BY <1>5, <1>11 DEF Follows
<1>16. MayLeave(flow, top.locals) /\ program' = Append(program, t) /\ UNCHANGED <<kind, born, reassigned>>
  BY <1>1 DEF t
<1>17. FlowSound(kind, flow') /\ Within(kind, reassigned, born, top, flow')
  BY <1>11
<1> QED
  BY <1>3, <1>4, <1>5, <1>7, <1>9, <1>13, <1>14, <1>15, <1>16, <1>17, BranchTurns

-----------------------------------------------------------------------------
(* The end of a loop.                                                      *)

\* The last statement is a loop: what was known before it, and how its scopes lie.
LEMMA LoopInside ==
    ASSUME Kinds, NEW N, Written(N), NEW k, NEW j, Innermost(k, j), top.op \in Loops, NEW i, i = top.start
    PROVE  /\ i \in 1..Len(program) /\ program[i].op \in Loops
           /\ top.cond.on = program[i].on /\ top.cond.holds = program[i].holds /\ top.header = program[i].header
           /\ top.op = "while" => top.header = {}
           /\ N[i].reaches /\ top.before.reaches /\ N[i].init = top.before.init
           /\ top.before.handled = N[i].handled \cup ({top.cond.on} \ {None})
           /\ top.cond.on # None => top.before.init[top.cond.on] = "set"
           /\ frames[j].depth < top.depth /\ frames[j].depth \in Nat /\ top.depth \in Nat
           /\ Later(kind, reassigned, born, frames[j].depth, frames[j].before, top.before)
           /\ LiveIn(kind, top.before) \subseteq LiveIn(kind, frames[j].before) \cup frames[j].locals \cup top.header
           /\ top.header \subseteq LiveIn(kind, top.before)
           /\ top.header \cap LiveIn(kind, frames[j].before) = {}
           /\ \A s \in LiveIn(kind, top.before) : born[s] \in Nat /\ born[s] <= frames[j].depth /\ born[s] < top.depth
           /\ \A s \in DOMAIN kind : \A v : v \in N[i].facts[s] <=>
                v \in Known /\ (top.before.proof[s] = v \/ Lasts(frames, k, s, v))
           /\ \A s \in DOMAIN kind : \A v : v \in N[i].facts[s] => s \in LiveIn(kind, top.before) /\ kind[s].result
           /\ \A s \in DOMAIN kind : s \in top.before.handled => s \in LiveIn(kind, top.before) /\ kind[s].result
<1>1. /\ Begun(program, N, frames, k) /\ Nested(kind, reassigned, frames, k, born) /\ top = frames[k] /\ k - 1 = j
      /\ top.depth \in Nat /\ frames[j].depth \in Nat /\ born \in [DOMAIN kind -> Nat]
      /\ FlowSound(kind, top.before) /\ LiveIn(kind, frames[j].before) \subseteq LiveIn(kind, top.before)
  BY InnermostIs DEF Innermost
<1>2. /\ i \in 1..Len(program) /\ program[i].op \in Loops
      /\ top.cond.on = program[i].on /\ top.cond.holds = program[i].holds /\ top.header = program[i].header
      /\ top.op = "while" => top.header = {}
      /\ N[i].reaches /\ top.before.reaches /\ N[i].init = top.before.init
      /\ N[i].facts = Note(top.before, frames, k).facts
      /\ top.before.handled = N[i].handled \cup ({top.cond.on} \ {None})
      /\ top.cond.on # None => top.before.init[top.cond.on] = "set"
  BY <1>1 DEF Begun, Opens, Loops
<1>3. /\ top.depth = frames[j].depth + 1
      /\ Later(kind, reassigned, born, frames[j].depth, frames[j].before, top.before)
      /\ LiveIn(kind, top.before) \subseteq LiveIn(kind, frames[j].before) \cup frames[j].locals \cup top.header
      /\ top.header \subseteq LiveIn(kind, top.before)
      /\ top.header \cap LiveIn(kind, frames[j].before) = {}
      /\ \A s \in LiveIn(kind, top.before) : born[s] <= frames[j].depth
  BY <1>1 DEF Nested
<1>4. frames[j].depth < top.depth
  BY <1>1, <1>3
<1>5. \A s \in LiveIn(kind, top.before) : born[s] \in Nat /\ born[s] <= frames[j].depth /\ born[s] < top.depth
  <2> SUFFICES ASSUME NEW s \in LiveIn(kind, top.before)
               PROVE  born[s] \in Nat /\ born[s] <= frames[j].depth /\ born[s] < top.depth
    OBVIOUS
  <2>1. born[s] \in Nat /\ born[s] <= frames[j].depth
    BY <1>1, <1>3 DEF LiveIn
  <2> QED
    BY <1>1, <1>4, <2>1
<1>6. \A s \in DOMAIN kind : \A v : v \in N[i].facts[s] <=>
         v \in Known /\ (top.before.proof[s] = v \/ Lasts(frames, k, s, v))
  <2>1. \A s \in DOMAIN kind : \A v : v \in Note(top.before, frames, k).facts[s] <=>
            v \in Known /\ (top.before.proof[s] = v \/ Lasts(frames, k, s, v))
    BY <1>1, NoteIs DEF FlowSound
  <2> QED
    BY <1>2, <2>1
<1>7. ASSUME NEW s \in DOMAIN kind, NEW v, v \in N[i].facts[s]
      PROVE  s \in LiveIn(kind, top.before) /\ kind[s].result
  <2>1. v \in Known /\ (top.before.proof[s] = v \/ Lasts(frames, k, s, v))
    BY <1>6, <1>7
  <2>2. CASE top.before.proof[s] = v
    BY <1>1, <2>1, <2>2 DEF FlowSound, LiveIn, Known
  <2>3. CASE Lasts(frames, k, s, v)
    <3>1. s \in LiveIn(kind, frames[j].before) /\ kind[s].result
      BY <2>1, <2>3, LastsOutside
    <3> QED
      BY <1>1, <3>1
  <2> QED
    BY <2>1, <2>2, <2>3
<1>8. \A s \in DOMAIN kind : s \in top.before.handled => s \in LiveIn(kind, top.before) /\ kind[s].result
  BY <1>1 DEF FlowSound, LiveIn
<1> QED
  BY <1>1, <1>2, <1>3, <1>4, <1>5, <1>6, <1>7, <1>8

\* How the body and the update u leave the symbol s.
Bodied(u, s) == IF s = u THEN "set" ELSE IF s \in top.locals THEN "out" ELSE flow.init[s]

\* The update u may assign.
Updates(u) ==
    u # None =>
        /\ IF flow.reaches THEN u \notin top.locals /\ flow.init[u] # "out" ELSE top.before.init[u] # "out"
        /\ kind[u].mutable \/ born[u] = top.depth

\* State g is behind the loop, after a body and the update u, or no round.
LoopsBack(u, g) ==
    /\ u \in Symbols \cup {None} /\ Updates(u)
    /\ g \in FlowSet(kind) /\ g.reaches
    /\ g.handled \subseteq top.before.handled \ top.header
    /\ \A s \in DOMAIN kind : g.proof[s] = "unknown"
    /\ \A s \in DOMAIN kind : s \in top.header => g.init[s] = "out"
    /\ \A s \in DOMAIN kind \ top.header : g.init[s] \in {top.before.init[s], "maybe"}
    /\ ~flow.reaches =>
         /\ top.before.handled \ top.header \subseteq g.handled
         /\ \A s \in DOMAIN kind \ top.header : g.init[s] = top.before.init[s]
    /\ flow.reaches =>
         \A s \in DOMAIN kind \ top.header :
           /\ top.before.init[s] = Bodied(u, s) => g.init[s] = top.before.init[s]
           /\ s \in top.before.handled /\ s \in flow.handled /\ s \notin top.locals /\ s # u => s \in g.handled

\* An update assigns a mutable symbol that was there before the loop.
LEMMA UpdateIs ==
    ASSUME Kinds, NEW N, Written(N), NEW k, NEW j, Innermost(k, j), top.op \in Loops,
           NEW u \in DOMAIN kind, Updates(u)
    PROVE  u \in LiveIn(kind, top.before) /\ kind[u].mutable /\ u \notin top.locals
<1>1. top.locals \cap LiveIn(kind, top.before) = {} /\ u # None
  BY InnermostIs DEF Kinds, Symbols
<1>2. /\ IF flow.reaches THEN u \notin top.locals /\ flow.init[u] # "out" ELSE top.before.init[u] # "out"
      /\ kind[u].mutable \/ born[u] = top.depth
  BY <1>1 DEF Updates
<1>3. u \in LiveIn(kind, top.before)
  <2>1. CASE flow.reaches
    <3>1. LiveIn(kind, flow) \subseteq LiveIn(kind, top.before) \cup top.locals
      BY <2>1, Standing
    <3> QED
      BY <1>2, <2>1, <3>1 DEF LiveIn
  <2>2. CASE ~flow.reaches
    BY <1>2, <2>2 DEF LiveIn
  <2> QED
    BY <2>1, <2>2
<1>4. born[u] \in Nat /\ born[u] < top.depth /\ top.depth \in Nat
  BY <1>3, LoopInside
<1>5. born[u] # top.depth
  BY <1>4
<1> QED
  BY <1>1, <1>2, <1>3, <1>5

\* The loop is left with what its condition says; its header goes out of scope.
LEMMA LoopTests ==
    ASSUME Kinds, NEW N, Written(N), NEW k, NEW j, Innermost(k, j), top.op \in Loops, NEW i, i = top.start,
           NEW u, NEW g, LoopsBack(u, g), NEW S
    PROVE  Tests(kind, S, N[i], Note(g, frames, k), program[i], FALSE, program[i].header)
<1> DEFINE n == N[i]
           o == Note(g, frames, k)
           x == top.before
<1>1. /\ top.cond.on = program[i].on /\ top.header = program[i].header
      /\ n.reaches /\ n.init = x.init
      /\ x.handled = n.handled \cup ({top.cond.on} \ {None})
      /\ top.cond.on # None => x.init[top.cond.on] = "set"
      /\ top.header \cap LiveIn(kind, frames[j].before) = {}
      /\ \A s \in DOMAIN kind : \A v : v \in n.facts[s] <=> v \in Known /\ (x.proof[s] = v \/ Lasts(frames, k, s, v))
  BY LoopInside
<1>2. /\ g \in FlowSet(kind) /\ g.handled \subseteq x.handled \ top.header
      /\ \A s \in DOMAIN kind : g.proof[s] = "unknown"
      /\ \A s \in DOMAIN kind : s \in top.header => g.init[s] = "out"
      /\ \A s \in DOMAIN kind \ top.header : g.init[s] \in {x.init[s], "maybe"}
  BY DEF LoopsBack
<1>3. o.init = g.init /\ o.handled = g.handled
      /\ \A s \in DOMAIN kind : \A v : v \in o.facts[s] <=> v \in Known /\ (g.proof[s] = v \/ Lasts(frames, k, s, v))
  BY <1>2, NoteIs
<1>4. o.reaches
  <2>1. (o.reaches <=> g.reaches)
    BY <1>2, NoteIs, Zenon
  <2> QED
    BY <2>1 DEF LoopsBack
<1>5. \A s \in DOMAIN kind, v \in Known : Lasts(frames, k, s, v) => s \in LiveIn(kind, frames[j].before)
  BY LastsOutside
<1>6. None \notin DOMAIN kind /\ top.header \subseteq DOMAIN kind
  <2>1. top \in FrameSet(kind)
    BY InnermostIs
  <2> QED
    BY <2>1 DEF Kinds, Symbols, FrameSet
<1> HIDE DEF n, o, x
<1>7. \A s \in DOMAIN kind : o.facts[s] \subseteq n.facts[s]
  BY <1>1, <1>2, <1>3 DEF Known
<1>8. ASSUME NEW s \in top.header PROVE Gone(o, s)
  <2>1. s \in DOMAIN kind /\ g.init[s] = "out" /\ g.proof[s] = "unknown" /\ s \notin g.handled
    BY <1>2, <1>6
  <2>2. \A v \in Known : ~Lasts(frames, k, s, v)
    BY <1>1, <1>5, <2>1
  <2>3. o.facts[s] = {}
    BY <1>3, <2>1, <2>2 DEF Known
  <2> QED
    BY <1>3, <2>1, <2>3 DEF Gone
<1>9. ASSUME NEW s \in DOMAIN kind \ (top.header \cup {top.cond.on}) PROVE AtLeast(kind, S, n, o, s)
  <2>1. g.init[s] \in {x.init[s], "maybe"} /\ (s \in g.handled => s \in n.handled)
    BY <1>1, <1>2
  <2>2. o.facts[s] \subseteq n.facts[s]
    BY <1>7
  <2> QED
    BY <1>1, <1>3, <2>1, <2>2 DEF AtLeast
<1>10. ASSUME top.cond.on \in DOMAIN kind \ top.header
       PROVE  o.init[top.cond.on] \notin {"out", "unset"} /\ o.facts[top.cond.on] \subseteq n.facts[top.cond.on]
  <2>1. g.init[top.cond.on] \in {"set", "maybe"}
    BY <1>1, <1>2, <1>6, <1>10
  <2> QED
    BY <1>3, <1>7, <1>10, <2>1
<1>11. Tests(kind, S, n, o, program[i], FALSE, program[i].header)
  BY <1>1, <1>4, <1>8, <1>9, <1>10 DEF Tests
<1> QED
  BY <1>11 DEF n, o

\* A round that ends goes back to what was known before the loop.
LEMMA LoopBacks ==
    ASSUME Kinds, NEW N, Written(N), NEW k, NEW j, Innermost(k, j), top.op \in Loops, NEW i, i = top.start,
           NEW u, u \in Symbols \cup {None}, Updates(u), NEW S, reassigned \subseteq S,
           u \in Symbols /\ kind[u].result => u \in S
    PROVE  /\ Back(kind, S, Note(flow, frames, k + 1), N[i], top.locals, u)
           /\ u # None => u \notin top.locals /\ kind[u].mutable
<1> DEFINE h == N[i]
           n == Note(flow, frames, k + 1)
           x == top.before
<1>1. /\ h.reaches /\ x.reaches /\ h.init = x.init /\ h.handled \subseteq x.handled
      /\ \A s \in LiveIn(kind, x) : born[s] < top.depth
      /\ \A s \in DOMAIN kind : \A v : v \in h.facts[s] <=> v \in Known /\ (x.proof[s] = v \/ Lasts(frames, k, s, v))
      /\ \A s \in DOMAIN kind : \A v : v \in h.facts[s] => s \in LiveIn(kind, x) /\ kind[s].result
      /\ \A s \in DOMAIN kind : s \in x.handled => s \in LiveIn(kind, x) /\ kind[s].result
  <2>1. top.before.handled = N[i].handled \cup ({top.cond.on} \ {None})
    BY LoopInside
  <2> QED
    BY <2>1, LoopInside
<1>2. flow \in FlowSet(kind) /\ top.locals \cap LiveIn(kind, x) = {} /\ k \in Nat \ {0} /\ top = frames[k]
      /\ top.locals \subseteq DOMAIN kind
  <2>1. top \in FrameSet(kind) /\ flow \in FlowSet(kind) /\ top.locals \cap LiveIn(kind, x) = {}
    BY InnermostIs DEF Written, Framed, FramedBut, Current, FlowSound
  <2> QED
    BY <2>1 DEF FrameSet, Innermost
<1>3. /\ n.init = flow.init /\ n.handled = flow.handled
      /\ \A s \in DOMAIN kind : \A v : v \in n.facts[s] <=> v \in Known /\ (flow.proof[s] = v \/ Lasts(frames, k + 1, s, v))
  BY <1>2, NoteIs
<1>4. n.reaches => flow.reaches
  <2>1. (n.reaches <=> flow.reaches)
    BY <1>2, NoteIs, Zenon
  <2> QED
    BY <2>1
<1>5. \A s, v : Lasts(frames, k, s, v) \/ x.proof[s] = v => Lasts(frames, k + 1, s, v)
  <2>1. \A s, v : Lasts(frames, k + 1, s, v) <=> Lasts(frames, k, s, v) \/ (frames[k].op \in Loops /\ frames[k].before.proof[s] = v)
    BY <1>2, LastsNext
  <2> QED
    BY <1>2, <2>1
<1>6. \A s \in DOMAIN kind : h.facts[s] \subseteq n.facts[s]
  BY <1>1, <1>3, <1>5
<1>7. u \in DOMAIN kind => u \in LiveIn(kind, x) /\ kind[u].mutable /\ u \notin top.locals
  BY UpdateIs
<1>8. u # None => u \in DOMAIN kind
  BY DEF Symbols
<1> HIDE DEF h, n, x
<1>9. ASSUME NEW s \in top.locals PROVE Gone(h, s)
  <2>1. s \in DOMAIN kind /\ s \notin LiveIn(kind, x)
    BY <1>2
  <2>2. h.facts[s] = {}
    BY <1>1, <2>1
  <2> QED
    BY <1>1, <2>1, <2>2 DEF Gone, LiveIn
<1>10. ASSUME flow.reaches, NEW s \in DOMAIN kind \ (top.locals \cup {u}) PROVE AtLeast(kind, S, n, h, s)
  <2>1. /\ Later(kind, reassigned, born, top.depth, x, flow)
        /\ LiveIn(kind, flow) \subseteq LiveIn(kind, x) \cup top.locals
    BY <1>10, Standing DEF x
  <2>2. h.init[s] = "out" => n.init[s] = "out"
    BY <1>1, <1>3, <2>1 DEF LiveIn
  <2>3. h.init[s] = "set" => n.init[s] = "set"
    BY <1>1, <1>3, <2>1 DEF Later
  <2>4. h.init[s] = "unset" /\ ~kind[s].mutable => n.init[s] = "unset"
    <3>1. h.init[s] = "unset" => s \in LiveIn(kind, x) /\ x.init[s] = "unset"
      BY <1>1 DEF LiveIn
    <3> QED
      BY <1>1, <1>3, <2>1, <3>1 DEF Later
  <2>5. s \notin S /\ s \in h.handled => s \in n.handled
    <3>1. s \in h.handled => s \in LiveIn(kind, x) /\ s \in x.handled
      BY <1>1
    <3> QED
      BY <1>1, <1>3, <2>1, <3>1 DEF Later
  <2> QED
    BY <1>6, <2>2, <2>3, <2>4, <2>5 DEF AtLeast
<1>11. ASSUME u \in DOMAIN kind
       PROVE  h.init[u] # "out" /\ kind[u].mutable /\ Untested(S, h, u)
  <2>1. h.init[u] # "out" /\ kind[u].mutable
    BY <1>1, <1>7, <1>11 DEF LiveIn
  <2>2. u \notin S => ~kind[u].result
    BY <1>11 DEF Symbols
  <2>3. u \notin S => u \notin h.handled /\ h.facts[u] = {}
    BY <1>1, <1>11, <2>2
  <2> QED
    BY <2>1, <2>3 DEF Untested
<1>12. Back(kind, S, n, h, top.locals, u)
  BY <1>1, <1>4, <1>9, <1>10, <1>11 DEF Back
<1> QED
  BY <1>7, <1>8, <1>12 DEF h, n

\* What is behind a loop follows what was before the statement around it.
LEMMA LoopGoes ==
    ASSUME Kinds, NEW N, Written(N), NEW k, NEW j, Innermost(k, j), top.op \in Loops,
           NEW u, NEW g, LoopsBack(u, g), NEW S, reassigned \subseteq S,
           u \in Symbols /\ kind[u].result => u \in S
    PROVE  /\ FlowSound(kind, g)
           /\ Goes(kind, S, born, frames[j].depth, frames[j].before, g, frames[j].locals)
<1> DEFINE x == top.before
           y == frames[j].before
           d == frames[j].depth
<1>1. /\ d < top.depth /\ d \in Nat /\ top.depth \in Nat
      /\ Later(kind, reassigned, born, d, y, x)
      /\ LiveIn(kind, x) \subseteq LiveIn(kind, y) \cup frames[j].locals \cup top.header
      /\ top.header \cap LiveIn(kind, y) = {}
      /\ \A s \in LiveIn(kind, x) : born[s] <= d /\ born[s] < top.depth
      /\ \A s \in DOMAIN kind : s \in x.handled => s \in LiveIn(kind, x) /\ kind[s].result
  BY LoopInside
<1>2. /\ g \in FlowSet(kind) /\ g.handled \subseteq x.handled \ top.header
      /\ \A s \in DOMAIN kind : g.proof[s] = "unknown"
      /\ \A s \in DOMAIN kind : s \in top.header => g.init[s] = "out"
      /\ \A s \in DOMAIN kind \ top.header : g.init[s] \in {x.init[s], "maybe"}
      /\ ~flow.reaches =>
           /\ x.handled \ top.header \subseteq g.handled
           /\ \A s \in DOMAIN kind \ top.header : g.init[s] = x.init[s]
      /\ flow.reaches =>
           \A s \in DOMAIN kind \ top.header :
             /\ x.init[s] = Bodied(u, s) => g.init[s] = x.init[s]
             /\ s \in x.handled /\ s \in flow.handled /\ s \notin top.locals /\ s # u => s \in g.handled
  BY DEF LoopsBack
<1>3. top.locals \cap LiveIn(kind, x) = {} /\ FlowSound(kind, y) /\ LiveIn(kind, y) \subseteq LiveIn(kind, x)
  BY InnermostIs
<1>4. u \in DOMAIN kind => u \in LiveIn(kind, x) /\ kind[u].mutable /\ u \notin top.locals
  BY UpdateIs DEF LoopsBack
<1>5. flow.reaches => /\ Later(kind, reassigned, born, top.depth, x, flow)
                      /\ LiveIn(kind, flow) \subseteq LiveIn(kind, x) \cup top.locals
  BY Standing
<1> HIDE DEF x, y, d
<1>6. \A s \in DOMAIN kind : s \notin LiveIn(kind, x) => g.init[s] = "out"
  <2> SUFFICES ASSUME NEW s \in DOMAIN kind, s \notin LiveIn(kind, x), s \notin top.header
               PROVE  g.init[s] = "out"
    BY <1>2
  <2>1. x.init[s] = "out" /\ s # u
    BY <1>4 DEF LiveIn
  <2>2. flow.reaches => Bodied(u, s) = "out"
    BY <1>5, <2>1 DEF Bodied, LiveIn
  <2> QED
    BY <1>2, <2>1, <2>2
<1>7. LiveIn(kind, g) \subseteq LiveIn(kind, x) \ top.header
  BY <1>2, <1>6 DEF LiveIn
<1>8. \A s \in LiveIn(kind, x) \ top.header : g.init[s] # "out"
  BY <1>2 DEF LiveIn
<1>9. FlowSound(kind, g)
  <2> SUFFICES ASSUME NEW s \in DOMAIN kind, s \in g.handled PROVE kind[s].result /\ g.init[s] # "out"
    BY <1>2 DEF FlowSound
  <2> QED
    BY <1>1, <1>2, <1>8
<1>10. ASSUME NEW s \in LiveIn(kind, y)
       PROVE  /\ s \in DOMAIN kind /\ s \in LiveIn(kind, x) /\ s \notin top.header /\ s \notin top.locals
              /\ born[s] < top.depth
  BY <1>1, <1>3, <1>10 DEF LiveIn
<1>11. LiveIn(kind, y) \subseteq LiveIn(kind, g)
  BY <1>8, <1>10 DEF LiveIn
<1>12. ASSUME NEW s \in DOMAIN kind, y.init[s] = "set" PROVE g.init[s] = "set"
  <2>1. s \in LiveIn(kind, y)
    BY <1>12 DEF LiveIn
  <2>2. x.init[s] = "set"
    BY <1>1, <1>12 DEF Later
  <2>3. flow.reaches => Bodied(u, s) = "set"
    BY <1>5, <1>10, <2>1, <2>2 DEF Bodied, Later
  <2> QED
    BY <1>2, <1>10, <2>1, <2>2, <2>3
<1>13. ASSUME NEW s \in LiveIn(kind, y), born[s] < d
       PROVE  /\ ~kind[s].mutable /\ y.init[s] = "unset" => g.init[s] = "unset"
              /\ s \notin S /\ s \in y.handled => s \in g.handled
  <2>1. /\ s \in DOMAIN kind /\ s \in LiveIn(kind, x) /\ s \notin top.header /\ s \notin top.locals
        /\ born[s] < top.depth
    BY <1>10
  <2>2. /\ ~kind[s].mutable /\ y.init[s] = "unset" => x.init[s] = "unset"
        /\ s \notin reassigned /\ s \in y.handled => s \in x.handled
    BY <1>1, <1>13 DEF Later
  <2>3. ~kind[s].mutable /\ y.init[s] = "unset" => g.init[s] = "unset"
    <3> SUFFICES ASSUME ~kind[s].mutable, x.init[s] = "unset" PROVE g.init[s] = "unset"
      BY <2>2
    <3>1. s # u
      BY <1>4, <2>1
    <3>2. flow.reaches => Bodied(u, s) = "unset"
      BY <1>5, <2>1, <3>1 DEF Bodied, Later
    <3> QED
      BY <1>2, <2>1, <3>2
  <2>4. s \notin S /\ s \in y.handled => s \in g.handled
    <3> SUFFICES ASSUME s \notin S, s \in y.handled PROVE s \in g.handled
      OBVIOUS
    <3>1. s \in x.handled /\ kind[s].result
      BY <1>1, <2>1, <2>2
    <3>2. s # u
      BY <2>1, <3>1 DEF Symbols
    <3>3. flow.reaches => s \in flow.handled
      BY <1>5, <2>1, <3>1 DEF Later
    <3> QED
      BY <1>2, <2>1, <3>1, <3>2, <3>3
  <2> QED
    BY <2>3, <2>4
<1>14. Later(kind, S, born, d, y, g)
  BY <1>11, <1>12, <1>13 DEF Later
<1>15. LiveIn(kind, g) \subseteq LiveIn(kind, y) \cup frames[j].locals
  BY <1>1, <1>7
<1>16. \A s \in LiveIn(kind, g) : born[s] <= d
  BY <1>1, <1>7
<1>17. Goes(kind, S, born, d, y, g, frames[j].locals)
  BY <1>14, <1>15, <1>16 DEF Goes
<1> QED
  BY <1>9, <1>17 DEF d, y

\* A round of a loop may end as the checker asks, with its condition checked again.
LEMMA LoopCloses ==
    ASSUME Kinds, NEW N, Written(N), NEW k, NEW j, Innermost(k, j), top.op \in Loops, NEW i, i = top.start,
           MayLeave(flow, top.locals), NEW u, u \in Symbols \cup {None}, Updates(u),
           NEW S, reassigned \subseteq S, u \in Symbols /\ kind[u].result => u \in S,
           NEW t, t.op = "end", t.on = u, t.locals = top.locals
    PROVE  CloseSound(kind, S, t, program[i], Note(flow, frames, k + 1), N[i])
<1>1. program[i].op \in Loops /\ program[i].op \in Openers
  BY LoopInside DEF Openers
<1>2. flow \in FlowSet(kind) /\ top.locals \subseteq DOMAIN kind
  <2>1. flow \in FlowSet(kind) /\ top \in FrameSet(kind)
    BY InnermostIs DEF Written, Framed, FramedBut, Current, FlowSound
  <2> QED
    BY <2>1 DEF FrameSet
<1>3. PICK c : c = Note(flow, frames, k + 1)
  OBVIOUS
<1>4. c.handled = flow.handled
  BY <1>2, <1>3, NoteIs
<1>5. c.reaches => flow.reaches
  <2>1. (c.reaches <=> flow.reaches)
    BY <1>2, <1>3, NoteIs, Zenon
  <2> QED
    BY <2>1
<1>6. c.reaches => Handles(kind, c, t.locals)
  BY <1>2, <1>4, <1>5 DEF MayLeave, Handles, Results, Symbols
<1>7. /\ Back(kind, S, c, N[i], top.locals, u)
      /\ u # None => u \notin top.locals /\ kind[u].mutable
  BY <1>3, LoopBacks
<1>8. CloseSound(kind, S, t, program[i], c, N[i])
  BY <1>1, <1>6, <1>7 DEF CloseSound
<1> QED
  BY <1>3, <1>8

\* The results of a header were looked at before the loop, but for the tested one.
LEMMA HeaderHandled ==
    ASSUME Kinds, NEW N, Written(N), NEW k, NEW j, Innermost(k, j), top.op \in Loops, NEW i, i = top.start,
           \A s \in top.header : kind[s].result => s \in top.before.handled
    PROVE  Handles(kind, N[i], program[i].header \ {program[i].on})
<1>1. /\ top.cond.on = program[i].on /\ top.header = program[i].header
      /\ top.before.handled = N[i].handled \cup ({top.cond.on} \ {None})
  BY LoopInside
<1> QED
  BY <1>1 DEF Handles

\* A loop ends, with the update u.
LEMMA LoopEnds ==
    ASSUME Kinds, NEW N, Written(N), NEW k, NEW j, Innermost(k, j), top.op \in Loops,
           MayLeave(flow, top.locals), NEW u, LoopsBack(u, flow'),
           \A s \in top.header : kind[s].result => s \in top.before.handled,
           reassigned' = reassigned \cup (IF u = None THEN {} ELSE Reassigns(u)),
           program' = Append(program, [op |-> "end", on |-> u, of |-> top.start, locals |-> top.locals]),
           frames' = SubSeq(frames, 1, Len(frames) - 1),
           UNCHANGED <<kind, born>>
    PROVE  \E M : Written(M)'
<1>1. PICK i : i = top.start
  OBVIOUS
<1>2. PICK g : g = flow'
  OBVIOUS
<1>3. PICK n : n = Note(g, frames, k)
  OBVIOUS
<1>4. PICK S : S = reassigned'
  OBVIOUS
<1>5. PICK t : t = [op |-> "end", on |-> u, of |-> top.start, locals |-> top.locals]
  OBVIOUS
<1>6. t.op = "end" /\ t.on = u /\ t.of = i /\ t.locals = top.locals
  BY <1>1, <1>5
<1>7. LoopsBack(u, g) /\ u \in Symbols \cup {None} /\ Updates(u)
  BY <1>2 DEF LoopsBack
<1>8. reassigned \subseteq S /\ (u \in Symbols /\ kind[u].result => u \in S)
  <2>1. u \in DOMAIN kind => u # None /\ u \in LiveIn(kind, top.before)
    BY <1>7, UpdateIs DEF Kinds, Symbols
  <2>2. \A s \in LiveIn(kind, top.before) : born[s] < top.depth
    BY LoopInside
  <2>3. u \in DOMAIN kind /\ kind[u].result => u \in Reassigns(u)
    BY <2>1, <2>2 DEF Reassigns, loop_depth
  <2> QED
    BY <1>4, <2>1, <2>3 DEF Symbols
<1>9. t \in Tokens(DOMAIN kind)
  <2>1. top \in FrameSet(kind)
    BY InnermostIs
  <2>2. top.start \in Nat /\ top.locals \in SUBSET DOMAIN kind
    BY <2>1 DEF FrameSet
  <2> QED
    BY <1>5, <1>7, <2>2 DEF Tokens, Closes, Symbols
<1>10. CloseSound(kind, S, t, program[i], Note(flow, frames, k + 1), N[i])
  BY <1>1, <1>6, <1>7, <1>8, LoopCloses
<1>11. Tests(kind, S, N[i], n, program[i], FALSE, program[i].header)
  <2>1. Tests(kind, S, N[i], Note(g, frames, k), program[i], FALSE, program[i].header)
    BY <1>1, <1>7, LoopTests
  <2> QED
    BY <1>3, <2>1
<1>12. JoinSound(kind, S, t, program[i], N[i], n, Elses(program, i) # {})
  <2>1. Handles(kind, N[i], program[i].header \ {program[i].on})
    BY <1>1, HeaderHandled
  <2>2. program[i].op \in Loops
    BY <1>1, LoopInside
  <2> QED
    BY <1>6, <1>11, <2>1, <2>2 DEF JoinSound, Loops
<1>13. Ending(N, k, S, t, n)
  <2>1. t.op \in Closes /\ t.of = top.start
    BY <1>1, <1>6 DEF Closes
  <2> QED
    BY <1>1, <1>10, <1>12, <2>1 DEF Ending
<1>14. /\ FlowSound(kind, g)
       /\ Goes(kind, S, born, frames[j].depth, frames[j].before, g, frames[j].locals)
  BY <1>7, <1>8, LoopGoes
<1>15. n \in NoteSet(kind)
  BY <1>3, <1>14, NoteIs DEF FlowSound
<1>16. PICK q : q = Append(program, t)
  OBVIOUS
<1>17. PICK M : M = Append(N, n)
  OBVIOUS
<1>18. Certified(kind, S, q, M)
  BY <1>8, <1>9, <1>13, <1>15, <1>16, <1>17, EndingIsCertified
<1>19. PICK G : G = SubSeq(frames, 1, j)
  OBVIOUS
<1>20. Closing(N, j, t, Note(g, frames, k), q, M, G)
  BY <1>1, <1>3, <1>6, <1>16, <1>17, <1>19 DEF Closing
<1>21. Framed(kind, S, q, M, G, g, born)
  BY <1>6, <1>8, <1>14, <1>20, Popped
<1>22. q = program' /\ G = frames'
  <2>1. Len(frames) - 1 = j
    BY DEF Innermost
  <2> QED
    BY <1>5, <1>16, <1>19, <2>1
<1>23. Written(M)'
  BY <1>2, <1>4, <1>18, <1>21, <1>22 DEF Written
<1> QED
  BY <1>23

\* The state g is h without the symbols of X.
Without(h, X, g) ==
    /\ g \in FlowSet(kind) /\ (g.reaches <=> h.reaches) /\ g.handled = h.handled \ X
    /\ \A s \in DOMAIN kind : /\ g.init[s] = IF s \in X THEN "out" ELSE h.init[s]
                              /\ g.proof[s] = IF s \in X THEN "unknown" ELSE h.proof[s]

\* A round comes to body, with the update u.
Comes(u, body) ==
    /\ body \in FlowSet(kind) /\ (body.reaches <=> flow.reaches)
    /\ flow.reaches =>
         \A s \in DOMAIN kind :
           /\ body.init[s] = Bodied(u, s)
           /\ s \in flow.handled /\ s \notin top.locals /\ s # u => s \in body.handled

\* What is behind a loop: nothing is sure but what held before it and after a round.
LEMMA RoundsCome ==
    ASSUME Kinds, NEW N, Written(N), NEW k, NEW j, Innermost(k, j), top.op \in Loops,
           NEW u, u \in Symbols \cup {None}, Updates(u), NEW body, Comes(u, body),
           NEW after, after = AfterLoop(top.before, body), NEW g, Without(after, top.header, g)
    PROVE  /\ LoopsBack(u, g) /\ after.reaches /\ after.handled \subseteq top.before.handled
<1>1. PICK x : x = top.before
  OBVIOUS
<1>2. x \in FlowSet(kind) /\ x.reaches
  BY <1>1, InnermostIs, LoopInside DEF FlowSound
<1>3. /\ body \in FlowSet(kind) /\ (body.reaches <=> flow.reaches)
      /\ flow.reaches =>
           \A s \in DOMAIN kind :
             /\ body.init[s] = Bodied(u, s)
             /\ s \in flow.handled /\ s \notin top.locals /\ s # u => s \in body.handled
  BY DEF Comes
<1>4. /\ after \in FlowSet(kind) /\ after.reaches /\ after.handled \subseteq x.handled
      /\ body.reaches => after.handled = x.handled \cap body.handled
      /\ ~body.reaches => after.handled = x.handled
      /\ \A s \in DOMAIN kind :
           /\ after.init[s] = (IF ~body.reaches \/ x.init[s] = body.init[s] THEN x.init[s] ELSE "maybe")
           /\ after.proof[s] = "unknown"
  <2>1. LET h == AfterLoop(x, body) IN
           /\ h \in FlowSet(kind) /\ h.reaches /\ h.handled \subseteq x.handled
           /\ body.reaches => h.handled = x.handled \cap body.handled
           /\ ~body.reaches => h.handled = x.handled
           /\ \A s \in DOMAIN kind :
                /\ h.init[s] = (IF ~body.reaches \/ x.init[s] = body.init[s] THEN x.init[s] ELSE "maybe")
                /\ h.proof[s] = "unknown"
    BY <1>2, <1>3, AfterLoopIs
  <2> QED
    BY <1>1, <2>1
<1>5. /\ g \in FlowSet(kind) /\ (g.reaches <=> after.reaches) /\ g.handled = after.handled \ top.header
      /\ \A s \in DOMAIN kind : /\ g.init[s] = IF s \in top.header THEN "out" ELSE after.init[s]
                                /\ g.proof[s] = IF s \in top.header THEN "unknown" ELSE after.proof[s]
  BY DEF Without
<1>6. g.reaches
  BY <1>4, <1>5
<1>7. g.handled \subseteq x.handled \ top.header /\ \A s \in DOMAIN kind : g.proof[s] = "unknown"
  BY <1>4, <1>5
<1>8. /\ \A s \in DOMAIN kind : s \in top.header => g.init[s] = "out"
      /\ \A s \in DOMAIN kind \ top.header : g.init[s] \in {x.init[s], "maybe"}
  BY <1>4, <1>5
<1>9. ~flow.reaches =>
         /\ x.handled \ top.header \subseteq g.handled
         /\ \A s \in DOMAIN kind \ top.header : g.init[s] = x.init[s]
  BY <1>3, <1>4, <1>5
<1>10. ASSUME flow.reaches, NEW s \in DOMAIN kind \ top.header
       PROVE  /\ x.init[s] = Bodied(u, s) => g.init[s] = x.init[s]
              /\ s \in x.handled /\ s \in flow.handled /\ s \notin top.locals /\ s # u => s \in g.handled
  BY <1>3, <1>4, <1>5, <1>10
<1>11. LoopsBack(u, g)
  BY <1>1, <1>5, <1>6, <1>7, <1>8, <1>9, <1>10 DEF LoopsBack
<1> QED
  BY <1>1, <1>4, <1>11

\* The end of a while.
LEMMA EndWhileIsWritten ==
    ASSUME Kinds, NEW N, Written(N), EndWhile
    PROVE  \E M : Written(M)'
<1>1. /\ top.op = "while" /\ MayLeave(flow, top.locals)
      /\ program' = Append(program, [op |-> "end", on |-> None, of |-> top.start, locals |-> top.locals])
      /\ frames' = SubSeq(frames, 1, Len(frames) - 1)
      /\ flow' = AfterLoop(top.before, Leave(flow, top.locals))
      /\ UNCHANGED <<kind, born, reassigned>>
  BY DEF EndWhile, LeaveBranch, Emit, Checks
<1>2. top.op # "body" /\ top.op \in Loops
  BY <1>1 DEF Loops
<1>3. PICK k, j : Innermost(k, j)
  BY <1>2, Inside
<1>4. PICK body : body = Leave(flow, top.locals)
  OBVIOUS
<1>5. flow \in FlowSet(kind) /\ None \notin DOMAIN kind
  BY DEF Written, Framed, FramedBut, Current, FlowSound, Kinds, Symbols
<1>6. LET g == Leave(flow, top.locals) IN
        /\ g \in FlowSet(kind) /\ (g.reaches <=> flow.reaches) /\ g.handled = flow.handled \ top.locals
        /\ \A s \in DOMAIN kind : /\ g.init[s] = IF s \in top.locals THEN "out" ELSE flow.init[s]
                                  /\ g.proof[s] = IF s \in top.locals THEN "unknown" ELSE flow.proof[s]
  BY <1>5, LeaveIs
<1>7. Comes(None, body)
  BY <1>4, <1>5, <1>6 DEF Comes, Bodied
<1>8. top.header = {}
  <2>1. top.op = "while" => top.header = {}
    <3>1. PICK i : i = top.start
      OBVIOUS
    <3> QED
      BY <1>2, <1>3, <3>1, LoopInside
  <2> QED
    BY <1>1, <2>1
<1>9. PICK g : g = AfterLoop(top.before, body)
  OBVIOUS
<1>10. g \in FlowSet(kind)
  <2>1. top.before \in FlowSet(kind) /\ body \in FlowSet(kind) /\ top.before.reaches
    <3>1. PICK i : i = top.start
      OBVIOUS
    <3>2. top.before.reaches
      BY <1>2, <1>3, <3>1, LoopInside
    <3>3. FlowSound(kind, top.before)
      BY <1>3, InnermostIs
    <3> QED
      BY <1>7, <3>2, <3>3 DEF FlowSound, Comes
  <2>2. AfterLoop(top.before, body) \in FlowSet(kind)
    BY <2>1, AfterLoopIs
  <2> QED
    BY <1>9, <2>2
<1>11. Without(g, top.header, g)
  BY <1>8, <1>10 DEF Without
<1>12. Updates(None) /\ None \in Symbols \cup {None}
  BY DEF Updates
<1>13. LoopsBack(None, g)
  BY <1>2, <1>3, <1>7, <1>9, <1>11, <1>12, RoundsCome
<1>14. flow' = g
  BY <1>1, <1>4, <1>9
<1>15. LoopsBack(None, flow')
  BY <1>13, <1>14
<1>16. \A s \in top.header : kind[s].result => s \in top.before.handled
  BY <1>8
<1>17. reassigned' = reassigned \cup (IF None = None THEN {} ELSE Reassigns(None))
  BY <1>1
<1> QED
  BY <1>1, <1>2, <1>3, <1>15, <1>16, <1>17, LoopEnds

\* The end of a for, with its update.
LEMMA EndForIsWritten ==
    ASSUME Kinds, NEW N, Written(N), EndFor
    PROVE  \E M : Written(M)'
<1> DEFINE left == Leave(flow, top.locals)
           round == IF left.reaches THEN left ELSE [left EXCEPT !.init = top.before.init]
           stored(u) == IF u = None THEN round ELSE Store(round, u)
<1>1. PICK u \in Symbols \cup {None} :
        /\ u # None => Writable(round, u)
        /\ MayLeave(AfterLoop(top.before, stored(u)), top.header)
        /\ flow' = Leave(AfterLoop(top.before, stored(u)), top.header)
        /\ reassigned' = reassigned \cup IF u = None THEN {} ELSE Reassigns(u)
        /\ program' = Append(program, [op |-> "end", on |-> u, of |-> top.start, locals |-> top.locals])
  BY DEF EndFor, Emit
<1>2. /\ top.op = "for" /\ MayLeave(flow, top.locals)
      /\ frames' = SubSeq(frames, 1, Len(frames) - 1)
      /\ UNCHANGED <<kind, born>>
  BY DEF EndFor, Checks
<1>3. top.op # "body" /\ top.op \in Loops
  BY <1>2 DEF Loops
<1>4. PICK k, j : Innermost(k, j)
  BY <1>3, Inside
<1>5. flow \in FlowSet(kind) /\ None \notin DOMAIN kind
  BY DEF Written, Framed, FramedBut, Current, FlowSound, Kinds, Symbols
<1>6. top.before \in FlowSet(kind) /\ top.before.reaches
  <2>1. PICK i : i = top.start
    OBVIOUS
  <2>2. top.before.reaches
    BY <1>3, <1>4, <2>1, LoopInside
  <2>3. FlowSound(kind, top.before)
    BY <1>4, InnermostIs
  <2> QED
    BY <2>2, <2>3 DEF FlowSound
<1>7. /\ left \in FlowSet(kind) /\ (left.reaches <=> flow.reaches) /\ left.handled = flow.handled \ top.locals
      /\ \A s \in DOMAIN kind : /\ left.init[s] = IF s \in top.locals THEN "out" ELSE flow.init[s]
                                /\ left.proof[s] = IF s \in top.locals THEN "unknown" ELSE flow.proof[s]
  BY <1>5, LeaveIs
<1> HIDE DEF left
<1>8. /\ round \in FlowSet(kind) /\ (round.reaches <=> flow.reaches)
      /\ flow.reaches => round = left
      /\ ~flow.reaches => round.init = top.before.init
  <2>1. CASE left.reaches
    BY <1>7, <2>1
  <2>2. CASE ~left.reaches
    <3>1. left = [init |-> left.init, proof |-> left.proof, handled |-> left.handled, reaches |-> left.reaches]
      BY <1>7, FlowIs
    <3>2. round = [init |-> top.before.init, proof |-> left.proof, handled |-> left.handled, reaches |-> left.reaches]
      BY <2>2, <3>1
    <3>3. [init |-> top.before.init, proof |-> left.proof, handled |-> left.handled, reaches |-> left.reaches] \in FlowSet(kind)
      BY <1>6, <1>7, FlowIs, FlowMade, ZenonT(60)
    <3> HIDE DEF round
    <3>4. round.init = top.before.init /\ (round.reaches <=> left.reaches)
      BY <3>2
    <3> QED
      BY <1>7, <2>2, <3>2, <3>3, <3>4
  <2> QED
    BY <2>1, <2>2
<1> HIDE DEF round
<1>9. Updates(u)
  <2> SUFFICES ASSUME u # None
               PROVE  /\ IF flow.reaches THEN u \notin top.locals /\ flow.init[u] # "out" ELSE top.before.init[u] # "out"
                      /\ kind[u].mutable \/ born[u] = top.depth
    BY DEF Updates
  <2>1. u \in DOMAIN kind
    BY DEF Symbols
  <2>2. round.init[u] # "out" /\ (kind[u].mutable \/ born[u] = top.depth)
    BY <1>1 DEF Writable, loop_depth
  <2> QED
    BY <1>7, <1>8, <2>1, <2>2
<1>10. PICK body : body = stored(u)
  OBVIOUS
<1>11. Comes(u, body)
  <2>1. CASE u = None
    <3>1. body = round
      BY <1>10, <2>1
    <3> QED
      BY <1>5, <1>7, <1>8, <2>1, <3>1 DEF Comes, Bodied
  <2>2. CASE u # None
    <3>1. u \in DOMAIN kind /\ body = Store(round, u)
      BY <1>10, <2>2 DEF Symbols
    <3>2. LET g == Store(round, u) IN
           /\ g \in FlowSet(kind) /\ (g.reaches <=> round.reaches) /\ ButFor(kind, round, g, u)
           /\ g.init[u] = "set" /\ g.proof[u] = "unknown" /\ u \notin g.handled
      BY <1>8, <3>1, StoreIs
    <3>3. /\ body \in FlowSet(kind) /\ (body.reaches <=> round.reaches) /\ body.init[u] = "set"
          /\ \A s \in DOMAIN kind \ {u} : body.init[s] = round.init[s] /\ (s \in body.handled <=> s \in round.handled)
      BY <3>1, <3>2 DEF ButFor
    <3>4. ASSUME flow.reaches, NEW s \in DOMAIN kind
          PROVE  /\ body.init[s] = Bodied(u, s)
                 /\ s \in flow.handled /\ s \notin top.locals /\ s # u => s \in body.handled
      BY <1>7, <1>8, <3>3, <3>4 DEF Bodied
    <3> QED
      BY <1>8, <3>3, <3>4 DEF Comes
  <2> QED
    BY <2>1, <2>2
<1>12. PICK after : after = AfterLoop(top.before, body)
  OBVIOUS
<1>13. after \in FlowSet(kind)
  <2>1. body \in FlowSet(kind)
    BY <1>11 DEF Comes
  <2>2. AfterLoop(top.before, body) \in FlowSet(kind)
    BY <1>6, <2>1, AfterLoopIs
  <2> QED
    BY <1>12, <2>2
<1>14. MayLeave(after, top.header) /\ flow' = Leave(after, top.header)
  BY <1>1, <1>10, <1>12
<1> HIDE DEF stored
<1>15. PICK g : g = flow'
  OBVIOUS
<1>16. Without(after, top.header, g)
  <2>1. LET h == Leave(after, top.header) IN
          /\ h \in FlowSet(kind) /\ (h.reaches <=> after.reaches) /\ h.handled = after.handled \ top.header
          /\ \A s \in DOMAIN kind : /\ h.init[s] = IF s \in top.header THEN "out" ELSE after.init[s]
                                    /\ h.proof[s] = IF s \in top.header THEN "unknown" ELSE after.proof[s]
    BY <1>13, LeaveIs
  <2> QED
    BY <1>14, <1>15, <2>1 DEF Without
<1>17. LoopsBack(u, g) /\ after.reaches /\ after.handled \subseteq top.before.handled
  BY <1>3, <1>4, <1>9, <1>11, <1>12, <1>16, RoundsCome
<1>18. \A s \in top.header : kind[s].result => s \in top.before.handled
  <2>1. top.header \subseteq DOMAIN kind
    <3>1. top \in FrameSet(kind)
      BY <1>4, InnermostIs
    <3> QED
      BY <3>1 DEF FrameSet
  <2> QED
    BY <1>14, <1>17, <2>1 DEF MayLeave, Results, Symbols
<1>19. LoopsBack(u, flow')
  BY <1>15, <1>17
<1>20. reassigned' = reassigned \cup (IF u = None THEN {} ELSE Reassigns(u))
  BY <1>1
<1>21. program' = Append(program, [op |-> "end", on |-> u, of |-> top.start, locals |-> top.locals])
  BY <1>1
<1> QED
  BY <1>2, <1>3, <1>4, <1>18, <1>19, <1>20, <1>21, LoopEnds

-----------------------------------------------------------------------------
(* The whole check.                                                        *)

\* A body that is accepted has a certificate for all of it, and the machine begins
\* where its first note says.
LEMMA AcceptFinishes ==
    ASSUME Kinds, NEW N, Written(N), Accept, pc = 1, memory = [s \in Symbols |-> "out"],
           dropped \subseteq reassigned
    PROVE  Accepted(N)' /\ MachineInv(N)'
<1>1. /\ Len(frames) = 1 /\ (flow.reaches => void) /\ MayLeave(flow, top.locals) /\ phase' = "run"
      /\ UNCHANGED <<kind, void, program, reassigned, pc, memory, inspected, dropped>>
  BY DEF Accept, running
<1>2. /\ Certified(kind, reassigned, program, N)
      /\ FramesSound(kind, reassigned, program, N, frames, born) /\ OpenOrEnded(program, frames)
      /\ Current(kind, reassigned, frames, flow, born, {})
      /\ N[Len(program) + 1] = Note(flow, frames, Len(frames) + 1)
  BY DEF Written, Framed, FramedBut
<1>3. /\ Len(program) \in Nat /\ N[1].reaches /\ \A s \in DOMAIN kind : Gone(N[1], s)
  BY <1>2 DEF Certified
<1>4. \A i \in 1..Len(program) : program[i].op \in Openers => Ended(program, i)
  BY <1>1, <1>2 DEF OpenOrEnded
<1>5. PICK n : n = Note(flow, frames, Len(frames) + 1)
  OBVIOUS
<1>6. flow \in FlowSet(kind) /\ top = frames[1] /\ LiveIn(kind, top.before) = {}
  BY <1>1, <1>2 DEF Current, FlowSound, FramesSound, top
<1>7. n.init = flow.init /\ n.handled = flow.handled
  BY <1>5, <1>6, NoteIs
<1>8. n.reaches => flow.reaches
  <2>1. (n.reaches <=> flow.reaches)
    BY <1>5, <1>6, NoteIs, Zenon
  <2> QED
    BY <2>1
<1>9. ASSUME flow.reaches, NEW s \in DOMAIN kind, kind[s].result
      PROVE  flow.init[s] = "out" \/ s \in flow.handled
  <2>1. LiveIn(kind, flow) \subseteq LiveIn(kind, top.before) \cup top.locals \cup {}
    BY <1>1, <1>2, <1>6, <1>9 DEF Current
  <2>2. flow.init[s] # "out" => s \in top.locals
    BY <1>6, <2>1 DEF LiveIn
  <2> QED
    BY <1>1, <1>9, <2>2 DEF MayLeave, Results, Symbols
<1>10. Finished(kind, void, program, N)
  <2>1. n.reaches => /\ void
                     /\ \A s \in DOMAIN kind : kind[s].result => n.init[s] = "out" \/ s \in n.handled
    BY <1>1, <1>7, <1>8, <1>9
  <2>2. N[Len(program) + 1] = n
    BY <1>2, <1>5
  <2> QED
    BY <1>4, <2>1, <2>2 DEF Finished
<1>11. Accepted(N)'
  BY <1>1, <1>2, <1>10 DEF Accepted, Kinds, Symbols
<1>12. \A s \in DOMAIN kind : CoversAt(kind, reassigned, N[1], memory, inspected, s)
  BY <1>3 DEF Gone, CoversAt, Symbols
<1>13. MachineInv(N)'
  <2>1. memory \in [Symbols -> Memory]
    BY DEF Memory
  <2>2. Covers(kind, reassigned, N[1], memory, inspected)
    BY <1>3, <1>12 DEF Covers
  <2>3. 1 \in 1..(Len(program) + 1)
    BY <1>3
  <2> QED
    BY <1>1, <2>1, <2>2, <2>3 DEF MachineInv, Symbols
<1> QED
  BY <1>11, <1>13

\* While a body is checked it has a certificate so far; once it was accepted its
\* execution is where the certificate says.
FlowInv ==
    /\ Kinds /\ dropped \subseteq reassigned
    /\ phase = "check" => /\ pc = 1 /\ memory = [s \in Symbols |-> "out"]
                          /\ \E N : Written(N)
    /\ phase # "check" => \E N : Accepted(N) /\ MachineInv(N)

\* At first nothing is in scope, and nothing is known.
LEMMA NothingIsWritten ==
    ASSUME Kinds, program = <<>>, flow = Nothing, frames = <<Frame("body", 0, Always, Nothing, Nothing, 0)>>,
           born = [s \in Symbols |-> 0]
    PROVE  \E N : Written(N)
<1> DEFINE n == Note(Nothing, frames, 2)
           x == Frame("body", 0, Always, Nothing, Nothing, 0)
<1>1. /\ Nothing \in FlowSet(kind) /\ Nothing.reaches /\ Nothing.handled = {}
      /\ \A s \in DOMAIN kind : Nothing.init[s] = "out" /\ Nothing.proof[s] = "unknown"
  BY DEF Nothing, FlowSet, Symbols, Known
<1>2. FlowSound(kind, Nothing) /\ LiveIn(kind, Nothing) = {}
  BY <1>1 DEF FlowSound, LiveIn
<1>3. x \in FrameSet(kind)
  BY <1>1 DEF Frame, FrameSet, Always, Symbols
<1>4. /\ x.op = "body" /\ x.start = 0 /\ x.depth = 0 /\ x.before = Nothing /\ x.merged = Nothing
      /\ x.locals = {} /\ x.header = {}
  BY DEF Frame
<1> HIDE DEF x
<1>5. frames = <<x>>
  BY DEF x
<1>6. frames \in Seq(FrameSet(kind)) /\ Len(frames) = 1 /\ frames[1] = x
  BY <1>3, <1>5
<1>7. ~Lasts(frames, 2, 0, 0) /\ \A s, v : ~Lasts(frames, 2, s, v)
  BY <1>4, <1>6 DEF Lasts, Loops
<1>8. /\ n \in NoteSet(kind) /\ n.init = Nothing.init /\ n.handled = Nothing.handled
      /\ \A s \in DOMAIN kind : \A v : v \in n.facts[s] <=>
           v \in Known /\ (Nothing.proof[s] = v \/ Lasts(frames, 2, s, v))
  BY <1>1, NoteIs
<1>9. n.reaches
  <2>1. (n.reaches <=> Nothing.reaches)
    BY <1>1, NoteIs, Zenon
  <2> QED
    BY <1>1, <2>1
<1> HIDE DEF n
<1>10. \A s \in DOMAIN kind : Gone(n, s)
  <2>1. \A s \in DOMAIN kind : n.facts[s] = {}
    BY <1>1, <1>7, <1>8 DEF Known
  <2> QED
    BY <1>1, <1>8, <2>1 DEF Gone
<1>11. Certified(kind, reassigned, program, <<n>>)
  <2>1. program \in Seq(Tokens(DOMAIN kind)) /\ Len(program) = 0
    OBVIOUS
  <2>2. <<n>> \in Seq(NoteSet(kind)) /\ Len(<<n>>) = 1 /\ <<n>>[1] = n
    BY <1>8
  <2>3. Closers(program) = {} /\ 1..Len(program) = {}
    BY <2>1 DEF Closers
  <2> QED
    BY <1>9, <1>10, <2>1, <2>2, <2>3 DEF Certified
<1>12. FramesSound(kind, reassigned, program, <<n>>, frames, born)
  <2>1. born \in [DOMAIN kind -> Nat]
    BY DEF Symbols
  <2>2. 2..Len(frames) = {} /\ 1..Len(frames) = {1}
    BY <1>6
  <2> QED
    BY <1>2, <1>4, <1>6, <2>1, <2>2 DEF FramesSound
<1>13. Current(kind, reassigned, frames, flow, born, {})
  <2>1. frames[Len(frames)] = x
    BY <1>6
  <2>2. Later(kind, reassigned, born, x.depth, x.before, flow)
    BY <1>1, <1>2, <1>4 DEF Later
  <2> QED
    BY <1>2, <1>4, <2>1, <2>2 DEF Current
<1>14. OpenOrEnded(program, frames)
  BY DEF OpenOrEnded
<1>15. <<n>>[Len(program) + 1] = Note(flow, frames, Len(frames) + 1)
  BY <1>6 DEF n
<1> QED
  BY <1>11, <1>12, <1>13, <1>14, <1>15 DEF Written, Framed, FramedBut

\* The kinds of a body name no symbol None.
LEMMA InitFlow == Init => FlowInv
<1> SUFFICES ASSUME Init PROVE FlowInv
  OBVIOUS
<1>1. Kinds
  BY SemaFlowAssumption DEF Init, Kinds, Symbols
<1>2. \E N : Written(N)
  BY <1>1, NothingIsWritten DEF Init
<1>3. dropped \subseteq reassigned /\ phase = "check" /\ pc = 1 /\ memory = [s \in Symbols |-> "out"]
  BY DEF Init
<1> QED
  BY <1>1, <1>2, <1>3 DEF FlowInv

\* Every statement that the checker accepts leaves a certificate.
LEMMA StatementIsWritten ==
    ASSUME Kinds, NEW N, Written(N), Check, ~Accept
    PROVE  /\ \E M : Written(M)'
           /\ phase = "check" /\ reassigned \subseteq reassigned'
           /\ UNCHANGED <<kind, phase, pc, memory, dropped>>
<1>1. \E M : Written(M)'
  BY DeclareIsWritten, AssignIsWritten, ReadIsWritten, MatchIsWritten, DeferIsWritten, ReturnIsWritten,
     BlockIsWritten, IfIsWritten, WhileIsWritten, ForIsWritten, SwitchIsWritten, ElseIsWritten, ArmIsWritten,
     EndBranchIsWritten, EndWhileIsWritten, EndForIsWritten DEF Check
<1>2. phase = "check"
  BY DEF Check, Declare, Assign, Read, Match, Defer, Return, Block, If, While, For, Switch, Else, Arm,
         EndBranch, EndWhile, EndFor, Reachable
<1>3. UNCHANGED <<kind, phase, running>>
  BY DEF Check, Declare, Assign, Read, Match, Defer, Return, Block, If, While, For, Switch, Else, Arm,
         EndBranch, EndWhile, EndFor, Checks, Loop
<1>4. reassigned \subseteq reassigned'
  BY DEF Check, Declare, Assign, Read, Match, Defer, Return, Block, If, While, For, Switch, Else, Arm,
         EndBranch, EndWhile, EndFor, Loop
<1> QED
  BY <1>1, <1>2, <1>3, <1>4 DEF running

\* Every step keeps the certificate, or follows it.
LEMMA NextFlow == FlowInv /\ [Next]_vars => FlowInv'
<1> SUFFICES ASSUME FlowInv, [Next]_vars PROVE FlowInv'
  OBVIOUS
<1>1. Kinds /\ dropped \subseteq reassigned
  BY DEF FlowInv
<1>2. CASE Check /\ ~Accept
  <2>1. PICK N : Written(N)
    <3>1. phase = "check"
      BY <1>2 DEF Check, Declare, Assign, Read, Match, Defer, Return, Block, If, While, For, Switch, Else, Arm,
         EndBranch, EndWhile, EndFor, Reachable
    <3> QED
      BY <3>1 DEF FlowInv
  <2>2. /\ \E M : Written(M)'
        /\ phase = "check" /\ reassigned \subseteq reassigned'
        /\ UNCHANGED <<kind, phase, pc, memory, dropped>>
    BY <1>1, <1>2, <2>1, StatementIsWritten
  <2> QED
    BY <1>1, <2>2 DEF FlowInv, Kinds, Symbols
<1>3. CASE Accept
  <2>1. phase = "check" /\ phase' # "check" /\ UNCHANGED <<kind, reassigned, dropped>>
    BY <1>3 DEF Accept, running
  <2>2. PICK N : Written(N)
    BY <2>1 DEF FlowInv
  <2>3. pc = 1 /\ memory = [s \in Symbols |-> "out"]
    BY <2>1 DEF FlowInv
  <2>4. Accepted(N)' /\ MachineInv(N)'
    BY <1>1, <1>3, <2>2, <2>3, AcceptFinishes
  <2> QED
    BY <1>1, <2>1, <2>4 DEF FlowInv, Kinds, Symbols
<1>4. CASE Run
  <2>1. phase # "check"
    BY <1>4 DEF Run, RunDefine, RunAssign, RunRead, RunMatch, RunBlock, RunIf, RunLoop, RunSwitch, RunClose,
         RunDefer, RunReturn, Drain, Drained, Executes
  <2>2. PICK N : Accepted(N) /\ MachineInv(N)
    BY <2>1 DEF FlowInv
  <2>3. MachineInv(N)' /\ phase' # "check" /\ UNCHANGED <<kind, void, program, reassigned>>
    BY <1>4, <2>2, RunFollows
  <2>4. Accepted(N)'
    BY <2>2, <2>3 DEF Accepted, Kinds, Symbols
  <2>5. (dropped \subseteq reassigned)'
    BY <2>3 DEF MachineInv
  <2> QED
    BY <1>1, <2>3, <2>4, <2>5 DEF FlowInv, Kinds, Symbols
<1>5. CASE UNCHANGED vars
  <2>1. UNCHANGED <<kind, void, program, flow, frames, born, reassigned, phase, pc, memory, inspected, dropped>>
    BY <1>5 DEF vars, checking, running
  <2>2. \A N : Written(N) => Written(N)'
    BY <2>1 DEF Written
  <2>3. \A N : Accepted(N) /\ MachineInv(N) => Accepted(N)' /\ MachineInv(N)'
    BY <2>1 DEF Accepted, MachineInv, Kinds, Symbols
  <2> QED
    BY <1>1, <2>1, <2>2, <2>3 DEF FlowInv, Kinds, Symbols
<1> QED
  BY <1>2, <1>3, <1>4, <1>5 DEF Next

\* What was accepted so far is certified, and executed as certified, at every step.
THEOREM FlowInvariant == Spec => []FlowInv
  BY InitFlow, NextFlow, PTL DEF Spec

\* What the certificate says is what the properties ask.
LEMMA FlowIsSound == FlowInv => BindingsSound /\ AlwaysReturns /\ ResultsSound
<1> SUFFICES ASSUME FlowInv PROVE BindingsSound /\ AlwaysReturns /\ ResultsSound
  OBVIOUS
<1>1. CASE phase = "check"
  BY <1>1 DEF FlowInv, BindingsSound, ReadsInitialized, AssignedOnce, AlwaysReturns, ResultsSound, ProofsHold,
              ResultsHandled, Executes
<1>2. CASE phase # "check"
  BY <1>2, MachineIsSound DEF FlowInv
<1> QED
  BY <1>1, <1>2

\* No execution of an accepted body reads a binding that has no value on the path
\* taken, and none gives an immutable binding a second value: merge_initialization
\* covers every path, loops included (sema_control_flow.cpp).
THEOREM BindingsAreSound == Spec => []BindingsSound
  BY FlowInvariant, FlowIsSound, PTL

\* A function that has a result to return never runs off its end: falls_through is
\* right on every path (check_function).
THEOREM FunctionsAlwaysReturn == Spec => []AlwaysReturns
  BY FlowInvariant, FlowIsSound, PTL

\* No access meets the wrong variant of a result and no result goes out of scope
\* unseen, other than results assigned again in a loop around them
\* (merge_result_flow, leave_scope, check_live_results_handled).
THEOREM ResultsAreSound == Spec => []ResultsSound
  BY FlowInvariant, FlowIsSound, PTL

-----------------------------------------------------------------------------
(* The log of deferred calls.                                              *)

\* What a registration promises, and a call made: a site and the value captured.
Calls == Nat \X (Memory \cup {None})

\* The records c of the log, from the first registered to the head, hold the calls
\* that were promised and not made yet.
Chained(c) ==
    /\ c \in Seq(Records) /\ Len(promised) = Len(c) + Len(called)
    /\ \A i, j \in 1..Len(c) : c[i] = c[j] => i = j
    /\ head = IF Len(c) = 0 THEN None ELSE c[Len(c)]
    /\ \A j \in 1..Len(c) : /\ promised[j] = <<heap[c[j]].site, heap[c[j]].captured>>
                            /\ heap[c[j]].previous = IF j = 1 THEN None ELSE c[j - 1]
    /\ \A a \in Records : heap[a] = Unused <=> \A j \in 1..Len(c) : c[j] # a

\* The calls made are those promised last; a return finds an empty log.
LogInv ==
    /\ DOMAIN heap = Records /\ promised \in Seq(Calls) /\ called \in Seq(Calls)
    /\ \E c : Chained(c)
    /\ \A i \in 1..Len(called) : called[i] = promised[Len(promised) + 1 - i]
    /\ phase \in {"check", "run", "trapped"} => called = <<>>
    /\ phase = "check" => promised = <<>>
    /\ promised # <<>> => Sites # {}
    /\ phase = "returned" => head = None

\* The log is empty before anything runs.
LEMMA InitLog == Init => LogInv
<1> SUFFICES ASSUME Init PROVE LogInv
  OBVIOUS
<1>1. /\ heap = [a \in Records |-> Unused] /\ promised = <<>> /\ called = <<>> /\ head = None /\ phase = "check"
  BY DEF Init
<1>2. Chained(<<>>)
  BY <1>1 DEF Chained
<1> QED
  BY <1>1, <1>2 DEF LogInv

\* register_defer: the record becomes the head, linked to the one before it.
LEMMA DeferLogs == FlowInv /\ LogInv /\ RunDefer => LogInv'
<1> SUFFICES ASSUME FlowInv, LogInv, RunDefer PROVE LogInv'
  OBVIOUS
<1>1. /\ phase = "run" /\ pc <= Len(program) /\ program[pc].op = "defer"
      /\ UNCHANGED <<program, called>>
  BY DEF RunDefer, Executes, token, checking
<1>2. PICK N : Accepted(N) /\ MachineInv(N)
  BY <1>1 DEF FlowInv
<1>3. Len(program) \in Nat /\ pc \in 1..Len(program) /\ memory \in [Symbols -> Memory]
  BY <1>1, <1>2 DEF Accepted, Certified, MachineInv
<1>4. program[pc].on \in Symbols \cup {None}
  BY <1>2, <1>3, TokenAt, TokenShape
<1>5. pc \in Sites /\ pc \in Nat /\ pc # 0
  BY <1>1, <1>3 DEF Sites
<1>6. PICK v : v = IF program[pc].on = None THEN None ELSE memory[program[pc].on]
  OBVIOUS
<1>7. <<pc, v>> \in Calls
  BY <1>3, <1>4, <1>5, <1>6 DEF Calls
<1>8. CASE phase' = "aborted" /\ UNCHANGED <<heap, head, promised>>
  <2>1. \A c : Chained(c) => Chained(c)'
    BY <1>1, <1>8 DEF Chained, Unused
  <2> QED
    BY <1>1, <1>8, <2>1 DEF LogInv, Sites
<1>9. ASSUME NEW a \in Records, heap[a] = Unused, heap' = [heap EXCEPT ![a] = Linked(pc, v)],
             head' = a, promised' = Append(promised, <<pc, v>>), phase' = "run"
      PROVE  LogInv'
  <2>1. /\ DOMAIN heap = Records /\ promised \in Seq(Calls) /\ called = <<>>
    BY <1>1 DEF LogInv
  <2>2. PICK c : Chained(c)
    BY DEF LogInv
  <2>3. /\ c \in Seq(Records) /\ Len(promised) = Len(c) + Len(called)
        /\ \A i, j \in 1..Len(c) : c[i] = c[j] => i = j
        /\ head = IF Len(c) = 0 THEN None ELSE c[Len(c)]
        /\ \A j \in 1..Len(c) : /\ promised[j] = <<heap[c[j]].site, heap[c[j]].captured>>
                                /\ heap[c[j]].previous = IF j = 1 THEN None ELSE c[j - 1]
        /\ \A b \in Records : heap[b] = Unused <=> \A j \in 1..Len(c) : c[j] # b
    BY <2>2 DEF Chained
  <2>4. PICK l \in Nat : l = Len(c)
    BY <2>3
  <2>5. PICK x : x = Linked(pc, v)
    OBVIOUS
  <2>6. x.site = pc /\ x.captured = v /\ x.previous = head /\ x # Unused
    BY <1>5, <2>5 DEF Linked, Unused
  <2>7. /\ DOMAIN heap' = Records /\ heap'[a] = x /\ \A b \in Records \ {a} : heap'[b] = heap[b]
    BY <1>9, <2>1, <2>5
  <2>8. PICK d : d = Append(c, a)
    OBVIOUS
  <2>9. d \in Seq(Records) /\ Len(d) = l + 1 /\ d[l + 1] = a /\ \A j \in 1..l : d[j] = c[j] /\ c[j] \in Records /\ c[j] # a
    BY <1>9, <2>3, <2>4, <2>8
  <2>10. /\ promised' \in Seq(Calls) /\ Len(promised') = l + 1 /\ promised'[l + 1] = <<pc, v>>
         /\ \A j \in 1..l : promised'[j] = promised[j]
    BY <1>7, <1>9, <2>1, <2>3, <2>4
  <2>11. \A j \in 1..(l + 1) : j = l + 1 \/ j \in 1..l
    BY <2>4
  <2>12. ASSUME NEW j \in 1..(l + 1)
         PROVE  /\ promised'[j] = <<heap'[d[j]].site, heap'[d[j]].captured>>
                /\ heap'[d[j]].previous = IF j = 1 THEN None ELSE d[j - 1]
    <3>1. CASE j = l + 1
      <4>1. heap'[d[j]] = x
        BY <2>7, <2>9, <3>1
      <4>2. head = IF j = 1 THEN None ELSE d[j - 1]
        <5>1. CASE l = 0
          BY <2>3, <2>4, <3>1, <5>1
        <5>2. CASE l # 0
          <6>1. l \in 1..l /\ j - 1 = l /\ j # 1
            BY <2>4, <3>1, <5>2
          <6> QED
            BY <2>3, <2>4, <2>9, <5>2, <6>1
        <5> QED
          BY <5>1, <5>2
      <4> QED
        BY <2>6, <2>10, <3>1, <4>1, <4>2
    <3>2. CASE j \in 1..l
      <4>1. d[j] = c[j] /\ heap'[d[j]] = heap[c[j]]
        BY <2>7, <2>9, <3>2
      <4>2. j # 1 => d[j - 1] = c[j - 1]
        BY <2>4, <2>9, <3>2
      <4> QED
        BY <2>3, <2>4, <2>10, <3>2, <4>1, <4>2
    <3> QED
      BY <2>11, <3>1, <3>2
  <2>13. ASSUME NEW b \in Records
         PROVE  heap'[b] = Unused <=> \A j \in 1..(l + 1) : d[j] # b
    <3>1. CASE b = a
      <4>1. heap'[b] # Unused
        BY <2>6, <2>7, <3>1
      <4>2. l + 1 \in 1..(l + 1) /\ d[l + 1] = b
        BY <2>4, <2>9, <3>1
      <4> QED
        BY <4>1, <4>2
    <3>2. CASE b # a
      <4>1. heap'[b] = heap[b]
        BY <2>7, <3>2
      <4>2. heap[b] = Unused <=> \A j \in 1..l : c[j] # b
        BY <2>3, <2>4
      <4>3. (\A j \in 1..l : c[j] # b) <=> \A j \in 1..(l + 1) : d[j] # b
        <5>1. \A j \in 1..l : j \in 1..(l + 1)
          BY <2>4
        <5> QED
          BY <2>9, <2>11, <3>2, <5>1
      <4> QED
        BY <4>1, <4>2, <4>3
    <3> QED
      BY <3>1, <3>2
  <2>14. \A i, j \in 1..(l + 1) : d[i] = d[j] => i = j
    <3> SUFFICES ASSUME NEW i \in 1..(l + 1), NEW j \in 1..(l + 1), d[i] = d[j] PROVE i = j
      OBVIOUS
    <3>1. (i = l + 1 \/ i \in 1..l) /\ (j = l + 1 \/ j \in 1..l)
      BY <2>11
    <3> QED
      BY <2>3, <2>4, <2>9, <3>1
  <2>15. Chained(d)'
    <3>1. called' = <<>> /\ Len(called') = 0 /\ Len(d) # 0 /\ Unused' = Unused
      BY <1>1, <2>1, <2>4, <2>9 DEF Unused
    <3>2. head' = IF Len(d) = 0 THEN None ELSE d[Len(d)]
      BY <1>9, <2>9, <3>1
    <3>3. Len(promised') = Len(d) + Len(called')
      BY <2>4, <2>9, <2>10, <3>1
    <3> QED
      BY <2>9, <2>12, <2>13, <2>14, <3>1, <3>2, <3>3 DEF Chained
  <2>16. Sites' # {}
    BY <1>1, <1>5 DEF Sites
  <2>17. called' = <<>>
    BY <1>1, <2>1
  <2> QED
    BY <1>9, <2>7, <2>10, <2>15, <2>16, <2>17 DEF LogInv
<1> QED
  BY <1>1, <1>6, <1>8, <1>9 DEF RunDefer, token

\* emit_deferred: the record at the head leaves the log, and its call is the one
\* promised last among those not made.
LEMMA DrainMakes == None \notin Records /\ LogInv /\ Drain => LogInv'
<1> SUFFICES ASSUME None \notin Records, LogInv, Drain PROVE LogInv'
  OBVIOUS
<1>1. /\ phase = "drain" /\ head # None /\ phase' \in {"drain", "aborted"}
      /\ head' = heap[head].previous
      /\ called' = Append(called, <<heap[head].site, heap[head].captured>>)
      /\ heap' = [heap EXCEPT ![head] = Unused]
      /\ UNCHANGED <<program, promised>>
  BY DEF Drain, checking
<1>2. /\ DOMAIN heap = Records /\ promised \in Seq(Calls) /\ called \in Seq(Calls)
      /\ \A i \in 1..Len(called) : called[i] = promised[Len(promised) + 1 - i]
      /\ promised # <<>> => Sites # {}
  BY DEF LogInv
<1>3. PICK c : Chained(c)
  BY DEF LogInv
<1>4. /\ c \in Seq(Records) /\ Len(promised) = Len(c) + Len(called)
      /\ \A i, j \in 1..Len(c) : c[i] = c[j] => i = j
      /\ head = IF Len(c) = 0 THEN None ELSE c[Len(c)]
      /\ \A j \in 1..Len(c) : /\ promised[j] = <<heap[c[j]].site, heap[c[j]].captured>>
                              /\ heap[c[j]].previous = IF j = 1 THEN None ELSE c[j - 1]
      /\ \A b \in Records : heap[b] = Unused <=> \A j \in 1..Len(c) : c[j] # b
  BY <1>3 DEF Chained
<1>5. PICK m \in Nat : Len(c) = m + 1
  <2>1. Len(c) \in Nat /\ Len(c) # 0
    BY <1>1, <1>4
  <2>2. Len(c) - 1 \in Nat /\ Len(c) = (Len(c) - 1) + 1
    BY <2>1
  <2> QED
    BY <2>2
<1>6. PICK w \in Nat : w = Len(called)
  BY <1>2
<1>7. m + 1 \in 1..(m + 1) /\ \A j \in 1..m : j \in 1..(m + 1) /\ j # m + 1
  BY <1>5
<1>8. head = c[m + 1] /\ head \in Records
  BY <1>4, <1>5, <1>7
<1>9. /\ DOMAIN heap' = Records /\ heap'[head] = Unused /\ \A b \in Records \ {head} : heap'[b] = heap[b]
  BY <1>1, <1>2, <1>8
<1>10. PICK d : d = SubSeq(c, 1, m)
  OBVIOUS
<1>11. d \in Seq(Records) /\ Len(d) = m /\ \A j \in 1..m : d[j] = c[j] /\ c[j] \in Records /\ c[j] # head
  <2>1. d \in Seq(Records) /\ Len(d) = m /\ \A j \in 1..m : d[j] = c[j]
    BY <1>4, <1>5, <1>10
  <2>2. \A j \in 1..m : c[j] \in Records /\ c[j] # head
    BY <1>4, <1>5, <1>7, <1>8
  <2> QED
    BY <2>1, <2>2
<1>12. /\ <<heap[head].site, heap[head].captured>> = promised[m + 1]
       /\ heap[head].previous = IF m + 1 = 1 THEN None ELSE c[m + 1 - 1]
  BY <1>4, <1>5, <1>7, <1>8
<1>13. Len(promised) = m + 1 + w /\ promised[m + 1] \in Calls
  BY <1>2, <1>4, <1>5, <1>6
<1>14. /\ called' \in Seq(Calls) /\ Len(called') = w + 1 /\ called'[w + 1] = promised[m + 1]
       /\ \A i \in 1..w : called'[i] = called[i]
  <2>1. PICK z : z = promised[m + 1]
    OBVIOUS
  <2>2. called' = Append(called, z) /\ z \in Calls
    BY <1>1, <1>12, <1>13, <2>1
  <2> QED
    BY <1>2, <1>6, <2>1, <2>2
<1>15. \A i \in 1..Len(called') : called'[i] = promised'[Len(promised') + 1 - i]
  <2> SUFFICES ASSUME NEW i \in 1..(w + 1) PROVE called'[i] = promised[Len(promised) + 1 - i]
    BY <1>1, <1>14
  <2>1. CASE i = w + 1
    <3>1. Len(promised) + 1 - i = m + 1
      BY <1>13, <2>1
    <3> QED
      BY <1>14, <2>1, <3>1
  <2>2. CASE i # w + 1
    <3>1. i \in 1..w
      BY <1>6, <2>2
    <3> QED
      BY <1>2, <1>6, <1>14, <3>1
  <2> QED
    BY <2>1, <2>2
<1>16. Chained(d)'
  <2>1. head' = IF Len(d) = 0 THEN None ELSE d[Len(d)]
    <3>1. CASE m = 0
      BY <1>1, <1>11, <1>12, <3>1
    <3>2. CASE m # 0
      <4>1. m + 1 # 1 /\ m + 1 - 1 = m /\ m \in 1..m
        BY <1>5, <3>2
      <4> QED
        BY <1>1, <1>11, <1>12, <3>2, <4>1
    <3> QED
      BY <3>1, <3>2
  <2>2. Len(promised') = Len(d) + Len(called')
    <3>1. promised' = promised
      BY <1>1
    <3>2. Len(d) = m /\ Len(called') = w + 1 /\ Len(promised) = m + 1 + w
      BY <1>11, <1>13, <1>14
    <3> QED
      BY <3>1, <3>2
  <2>3. \A i, j \in 1..m : d[i] = d[j] => i = j
    BY <1>4, <1>5, <1>7, <1>11
  <2>4. ASSUME NEW j \in 1..m
        PROVE  /\ promised'[j] = <<heap'[d[j]].site, heap'[d[j]].captured>>
               /\ heap'[d[j]].previous = IF j = 1 THEN None ELSE d[j - 1]
    <3>1. heap'[d[j]] = heap[c[j]] /\ j \in 1..(m + 1)
      BY <1>7, <1>9, <1>11
    <3>2. j # 1 => d[j - 1] = c[j - 1]
      BY <1>5, <1>11
    <3> QED
      BY <1>1, <1>4, <1>5, <3>1, <3>2
  <2>5. ASSUME NEW b \in Records
        PROVE  heap'[b] = Unused <=> \A j \in 1..m : d[j] # b
    <3>1. CASE b = head
      BY <1>9, <1>11, <3>1
    <3>2. CASE b # head
      <4>1. heap[b] = Unused <=> \A j \in 1..(m + 1) : c[j] # b
        BY <1>4, <1>5
      <4>2. (\A j \in 1..(m + 1) : c[j] # b) <=> \A j \in 1..m : d[j] # b
        <5>1. \A j \in 1..(m + 1) : j = m + 1 \/ j \in 1..m
          BY <1>5
        <5> QED
          BY <1>7, <1>8, <1>11, <3>2, <5>1
      <4> QED
        BY <1>9, <3>2, <4>1, <4>2
    <3> QED
      BY <3>1, <3>2
  <2>6. Unused' = Unused
    BY DEF Unused
  <2> QED
    BY <1>11, <2>1, <2>2, <2>3, <2>4, <2>5, <2>6 DEF Chained
<1>17. promised' \in Seq(Calls) /\ (promised' # <<>> => Sites' # {})
  BY <1>1, <1>2 DEF Sites
<1>18. phase' \notin {"check", "run", "trapped", "returned"}
  BY <1>1
<1> QED
  BY <1>9, <1>14, <1>15, <1>16, <1>17, <1>18 DEF LogInv

\* Every other step leaves the log alone; a function without sites returns at once.
LEMMA NextLog == FlowInv /\ LogInv /\ [Next]_vars => LogInv'
<1> SUFFICES ASSUME FlowInv, LogInv, [Next]_vars PROVE LogInv'
  OBVIOUS
<1>1. None \notin Records
  BY SemaFlowAssumption
<1>2. ASSUME UNCHANGED log PROVE \A c : Chained(c) => Chained(c)'
  BY <1>2 DEF Chained, Unused, log
<1>3. CASE Check
  <2>1. phase = "check" /\ phase' \in {"check", "run"}
    BY <1>3 DEF Check, Declare, Assign, Read, Match, Defer, Return, Block, If, While, For, Switch, Else, Arm,
         EndBranch, EndWhile, EndFor, Accept, Reachable, Checks, Loop
  <2>2. UNCHANGED running
    BY <1>3 DEF Check, Declare, Assign, Read, Match, Defer, Return, Block, If, While, For, Switch, Else, Arm,
         EndBranch, EndWhile, EndFor, Accept, Checks, Loop
  <2>3. UNCHANGED log /\ UNCHANGED <<head, heap, called, promised>>
    BY <2>2 DEF running, log
  <2> QED
    BY <1>2, <2>1, <2>3 DEF LogInv
<1>4. CASE RunDefine \/ RunAssign \/ RunRead \/ RunMatch \/ RunBlock \/ RunIf \/ RunLoop \/ RunSwitch \/ RunClose
  <2>1. phase = "run" /\ phase' \in {"run", "trapped"} /\ UNCHANGED program
    BY <1>4 DEF RunDefine, RunAssign, RunRead, RunMatch, RunBlock, RunIf, RunLoop, RunSwitch, RunClose,
                Executes, checking
  <2>2. UNCHANGED log /\ UNCHANGED <<head, heap, called, promised>>
    BY <1>4 DEF RunDefine, RunAssign, RunRead, RunMatch, RunBlock, RunIf, RunLoop, RunSwitch, RunClose, log
  <2> QED
    BY <1>2, <2>1, <2>2 DEF LogInv, Sites
<1>5. CASE RunReturn
  <2>1. /\ phase = "run" /\ phase' = IF Sites = {} THEN "returned" ELSE "drain"
        /\ UNCHANGED log /\ UNCHANGED <<program, head, heap, called, promised>>
    BY <1>5 DEF RunReturn, checking, log
  <2>2. PICK c : Chained(c)
    BY DEF LogInv
  <2>3. Sites = {} => head = None
    <3> SUFFICES ASSUME Sites = {} PROVE head = None
      OBVIOUS
    <3>1. promised = <<>> /\ called = <<>>
      BY <2>1 DEF LogInv
    <3>2. Len(c) = 0
      BY <2>2, <3>1 DEF Chained
    <3> QED
      BY <2>2, <3>2 DEF Chained
  <2> QED
    BY <1>2, <2>1, <2>3 DEF LogInv, Sites
<1>6. CASE Drained
  <2>1. /\ phase = "drain" /\ head = None /\ phase' = "returned"
        /\ UNCHANGED log /\ UNCHANGED <<program, head, heap, called, promised>>
    BY <1>6 DEF Drained, checking, log
  <2> QED
    BY <1>2, <2>1 DEF LogInv, Sites
<1>7. CASE UNCHANGED vars
  <2>1. UNCHANGED log /\ UNCHANGED <<program, head, heap, called, promised, phase>>
    BY <1>7 DEF vars, checking, running, log
  <2> QED
    BY <1>2, <2>1 DEF LogInv, Sites
<1> QED
  BY <1>1, <1>3, <1>4, <1>5, <1>6, <1>7, DeferLogs, DrainMakes DEF Next, Run

\* The log holds the calls that are still to be made, at every step.
THEOREM LogInvariant == Spec => []LogInv
  BY FlowInvariant, InitLog, NextLog, PTL DEF Spec

\* What the log holds is what the property asks.
LEMMA LogIsExact == LogInv => DeferredExact
<1> SUFFICES ASSUME LogInv PROVE DeferredExact
  OBVIOUS
<1>1. None \notin Records
  BY SemaFlowAssumption
<1>2. promised \in Seq(Calls) /\ called \in Seq(Calls)
  BY DEF LogInv
<1>3. PICK c : Chained(c)
  BY DEF LogInv
<1>4. c \in Seq(Records) /\ Len(promised) = Len(c) + Len(called)
  BY <1>3 DEF Chained
<1>5. called = [i \in 1..Len(called) |-> promised[Len(promised) + 1 - i]]
  <2> DEFINE made == [i \in 1..Len(called) |-> promised[Len(promised) + 1 - i]]
  <2>1. \A i \in 1..Len(called) : Len(promised) + 1 - i \in 1..Len(promised)
    BY <1>2, <1>4
  <2>2. made \in Seq(Calls) /\ Len(made) = Len(called)
    BY <1>2, <2>1
  <2>3. \A i \in 1..Len(called) : made[i] = called[i]
    BY DEF LogInv
  <2> HIDE DEF made
  <2>4. called = made
    BY <1>2, <2>2, <2>3, SeqEqual
  <2> QED
    BY <2>4 DEF made
<1>6. phase = "returned" => Len(c) = 0
  BY <1>1, <1>3, <1>4 DEF LogInv, Chained
<1>7. phase = "returned" => Len(called) = Len(promised) /\ \A a \in Records : heap[a] = Unused
  BY <1>2, <1>3, <1>4, <1>6 DEF Chained
<1> QED
  BY <1>5, <1>7 DEF DeferredExact, LogInv

\* Every deferred call that was registered is made once, the last one first, with the
\* values of its registration (register_defer and emit_deferred, codegen_defer.cpp).
THEOREM DeferredCallsAreExact == Spec => []DeferredExact
  BY LogInvariant, LogIsExact, PTL

=============================================================================
