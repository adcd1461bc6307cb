------------------------------ MODULE SemaFlow ------------------------------
(***************************************************************************)
(* The flow analysis of one function body (src/src/sema.cpp and            *)
(* src/src/sema_control_flow.cpp) and the execution of the bodies it       *)
(* accepts (src/src/codegen.cpp and src/src/codegen_control_flow.cpp).     *)
(*                                                                         *)
(* In the phase "check" a body is written token by token, every token one  *)
(* that the checker accepts in its present state: a body with an error is  *)
(* never finished.  In the phase "run" the body is executed, with every    *)
(* outcome of its conditions and of the calls it makes; a return drains    *)
(* the log of deferred calls (src/src/codegen_defer.cpp).                  *)
(*                                                                         *)
(* A symbol is a binding.  Shadowing is a matter of resolution and not of  *)
(* flow: a symbol is declared only while it is out of scope.  A parameter  *)
(* is an initialized immutable definition at the head of the body.         *)
(***************************************************************************)
EXTENDS Naturals, Sequences, FiniteSets

CONSTANTS
    Bodies,        \* bounds on the bodies: what they bind, which compound
                   \* statements they use and how many tokens they may have
    Records,       \* addresses of the records of deferred calls that malloc has
    None           \* no symbol, no record

ASSUME SemaFlowAssumption ==
    /\ None \notin Records
    /\ \A b \in Bodies :
         /\ None \notin DOMAIN b.kind
         /\ b.kind \in [DOMAIN b.kind -> [result : BOOLEAN, mutable : BOOLEAN]]
         /\ b.constructs \subseteq {"block", "if", "while", "for", "switch", "defer"}
         /\ b.tokens \in Nat

VARIABLES
    kind,          \* the declared type and mutability of each symbol
    bound,         \* the statements and the number of tokens of this body
    void,          \* whether the function returns nothing
    program,       \* the tokens accepted so far
    flow,          \* the checker's state at the end of the program: see Flow
    frames,        \* the statements still open, the body of the function first
    born,          \* Symbol.loop_depth of each symbol
    reassigned,    \* ghost: the results assigned in a loop that does not declare them
    phase,         \* "check", "run", "drain", "returned", "trapped", or
                   \* "aborted" where malloc or a deferred call traps
    pc,            \* the next token to execute
    memory,        \* "out" of scope, "unset", or the outcome "good" or "bad" it holds
    inspected,     \* ghost: the results whose present outcome has been looked at
    dropped,       \* ghost: the results that went out of scope without that
    head,          \* the log of this invocation: its last record, or None
    heap,          \* what each record holds, or Unused
    called,        \* the deferred calls made so far
    promised       \* ghost: the registrations, with the values at their time

checking == <<kind, bound, void, program, flow, frames, born, reassigned>>
log == <<head, heap, called, promised>>
running == <<memory, inspected, dropped, pc, log>>
vars == <<checking, phase, running>>

-----------------------------------------------------------------------------
(* The checker's state. *)

Symbols == DOMAIN kind

\* initialization, result_proof, result_handled and falls_through.
Flow == [init : [Symbols -> {"out", "unset", "maybe", "set"}],
         proof : [Symbols -> {"unknown", "success", "error"}],
         handled : SUBSET Symbols,
         reaches : BOOLEAN]

Results == {s \in Symbols : kind[s].result}
Live(f) == {s \in Symbols : f.init[s] # "out"}

\* define_symbol, and the initialization of a declared variable.
Define(f, s, initialized) ==
    [f EXCEPT !.init[s] = IF initialized THEN "set" ELSE "unset",
              !.proof[s] = "unknown",
              !.handled = @ \ {s}]

\* Mutant: the proof of the old outcome is kept.
Store_Proof(f, s) == [f EXCEPT !.init[s] = "set", !.handled = @ \ {s}]

\* An assignment to a name, after its checks.
Store(f, s) ==
    [f EXCEPT !.init[s] = "set", !.proof[s] = "unknown", !.handled = @ \ {s}]

\* A condition: on a symbol it is `r.erroneous`, and `holds` is the value with
\* which the first branch is taken (FALSE for `!r.erroneous` and for `unless`).
Conditions == [on : {None}, holds : {TRUE}] \cup [on : Symbols, holds : BOOLEAN]

\* check_expression of a name: only initialized symbols can be read.
Readable(f, s) == s # None => f.init[s] = "set"
Condition(f, c) == Readable(f, c.on) /\ (c.on # None => kind[c.on].result)

\* A condition handles its result on both branches.
Tested(f, c) == IF c.on = None THEN f ELSE [f EXCEPT !.handled = @ \cup {c.on}]

\* result_condition: what the branch taken when the condition is `value` proves.
Refined(f, c, value) ==
    IF c.on = None THEN f
    ELSE [Tested(f, c) EXCEPT !.proof[c.on] = IF c.holds = value THEN "error" ELSE "success"]

\* leave_scope: refuses a reaching path with an unhandled result, then forgets.
MayLeave(f, locals) == f.reaches => (Results \cap locals) \subseteq f.handled

Leave(f, locals) ==
    [f EXCEPT !.init = [s \in Symbols |-> IF s \in locals THEN "out" ELSE @[s]],
              !.proof = [s \in Symbols |-> IF s \in locals THEN "unknown" ELSE @[s]],
              !.handled = @ \ locals]

\* merge_initialization, for one symbol on which two reaching paths may differ.
Joined(left, right) == IF left = right THEN left ELSE "maybe"

\* merge_initialization and merge_result_flow of two paths.
Merge(left, right) ==
    IF ~left.reaches THEN right
    ELSE IF ~right.reaches THEN left
    ELSE [init |-> [s \in Symbols |-> Joined(left.init[s], right.init[s])],
          proof |-> [s \in Symbols |-> IF left.proof[s] = right.proof[s] THEN left.proof[s]
                                       ELSE "unknown"],
          handled |-> left.handled \cap right.handled,
          reaches |-> TRUE]

\* Mutant: the body is taken to have run.
AfterLoop_Ran(before, body) == [body EXCEPT !.proof = [s \in Symbols |-> "unknown"]]

\* After a loop every proof is forgotten; its body may not have run at all.
AfterLoop(before, body) ==
    [Merge(before, body) EXCEPT !.proof = [s \in Symbols |-> "unknown"]]

Nothing == [init |-> [s \in Symbols |-> "out"],
            proof |-> [s \in Symbols |-> "unknown"],
            handled |-> {},
            reaches |-> TRUE]

-----------------------------------------------------------------------------
(* Statements: one action for each, enabled when the checker accepts it. *)

top == frames[Len(frames)]
loop_depth == top.depth

\* A statement after a return is refused; every open statement needs a token to end it.
Reachable(tokens) ==
    /\ phase = "check"
    /\ flow.reaches
    /\ Len(program) + tokens + Len(frames) - 1 <= bound.tokens

Emit(token) == program' = Append(program, token)

\* The checker's own part of the state; nothing runs yet.
Checks == UNCHANGED <<kind, bound, void, phase, running>>

Declare ==
    \E s \in Symbols, initialized \in BOOLEAN :
        /\ Reachable(1)
        /\ flow.init[s] = "out"
        /\ flow' = Define(flow, s, initialized)
        /\ born' = [born EXCEPT ![s] = loop_depth]
        /\ frames' = [frames EXCEPT ![Len(frames)].locals = @ \cup {s}]
        /\ Emit([op |-> "def", on |-> s, initialized |-> initialized])
        /\ UNCHANGED reassigned
        /\ Checks

\* Mutant: the loop the assignment is in does not matter.
Writable_Anywhere(f, s) ==
    /\ f.init[s] # "out"
    /\ kind[s].mutable \/ f.init[s] = "unset"

\* An immutable symbol takes one delayed assignment, in the loop that declares it.
Writable(f, s) ==
    /\ f.init[s] # "out"
    /\ kind[s].mutable \/ (f.init[s] = "unset" /\ born[s] = loop_depth)

Reassigns(s) == IF kind[s].result /\ born[s] < loop_depth THEN {s} ELSE {}

Assign ==
    \E s \in Symbols :
        /\ Reachable(1)
        /\ Writable(flow, s)
        /\ flow' = Store(flow, s)
        /\ reassigned' = reassigned \cup Reassigns(s)
        /\ Emit([op |-> "set", on |-> s])
        /\ UNCHANGED <<born, frames>>
        /\ Checks

\* `.value` needs a proof of success and `.error` a proof of failure.
Access(f, op, s) ==
    /\ f.init[s] = "set"
    /\ op = "read" => ~kind[s].result
    /\ op = "value" => kind[s].result /\ f.proof[s] = "success"
    /\ op = "error" => kind[s].result /\ f.proof[s] = "error"

Read ==
    \E s \in Symbols, op \in {"read", "value", "error"} :
        /\ Reachable(1)
        /\ Access(flow, op, s)
        /\ Emit([op |-> op, on |-> s])
        /\ UNCHANGED <<flow, born, frames, reassigned>>
        /\ Checks

\* check_match on a named result: handled in every arm, and proved only inside
\* them; a default arm keeps what was known, and the arms are merged.
Match ==
    \E s \in Results, arm \in {"both", "success", "error"} :
        /\ Reachable(1)
        /\ flow.init[s] = "set"
        /\ flow' = [flow EXCEPT !.handled = @ \cup {s},
                                !.proof[s] = IF arm = @ THEN @ ELSE "unknown"]
        /\ Emit([op |-> "match", on |-> s])
        /\ UNCHANGED <<born, frames, reassigned>>
        /\ Checks

\* A deferred call, with one binding among its arguments: read here.
Defer ==
    \E s \in (Symbols \ Results) \cup {None} :
        /\ "defer" \in bound.constructs
        /\ Reachable(1)
        /\ Readable(flow, s)
        /\ Emit([op |-> "defer", on |-> s])
        /\ UNCHANGED <<flow, born, frames, reassigned>>
        /\ Checks

\* A return: check_live_results_handled, in every scope.
Return ==
    /\ Reachable(1)
    /\ (Results \cap Live(flow)) \subseteq flow.handled
    /\ flow' = [flow EXCEPT !.reaches = FALSE]
    /\ Emit([op |-> "return", on |-> None])
    /\ UNCHANGED <<born, frames, reassigned>>
    /\ Checks

-----------------------------------------------------------------------------
(* Compound statements.  A frame keeps the state before the statement, what *)
(* its closed branches merged to, the symbols of its own scopes, and how    *)
(* many loops its statements are in.                                        *)

Always == [on |-> None, holds |-> TRUE]

Frame(op, start, cond, before, merged, depth) ==
    [op |-> op, start |-> start, cond |-> cond, before |-> before, merged |-> merged,
     depth |-> depth, locals |-> {}, header |-> {}]

Closed(f) == [f EXCEPT !.reaches = FALSE]

\* A block that is a statement of its own: nothing but a scope.
Block ==
    /\ "block" \in bound.constructs
    /\ Reachable(2)
    /\ frames' = Append(frames,
           Frame("block", Len(program) + 1, Always, flow, Closed(flow), loop_depth))
    /\ Emit([op |-> "block", on |-> None])
    /\ UNCHANGED <<flow, born, reassigned>>
    /\ Checks

If ==
    \E c \in Conditions :
        /\ "if" \in bound.constructs
        /\ Reachable(2)
        /\ Condition(flow, c)
        /\ flow' = Refined(flow, c, TRUE)
        /\ frames' = Append(frames,
               Frame("if", Len(program) + 1, c, Tested(flow, c), Closed(flow), loop_depth))
        /\ Emit([op |-> "if", on |-> c.on, holds |-> c.holds])
        /\ UNCHANGED <<born, reassigned>>
        /\ Checks

\* Either kind of loop, entered with state f; a `for` has its initializer in `header`.
Loop(op, f, c, header, tokens) ==
    /\ op \in bound.constructs
    /\ Condition(f, c)
    /\ flow' = Refined(f, c, TRUE)
    /\ frames' = Append(frames,
           [Frame(op, Len(program) + Len(tokens) + 1, c, Tested(f, c), Closed(f), loop_depth + 1)
               EXCEPT !.header = header])
    /\ program' = program \o tokens \o <<[op |-> op, on |-> c.on, holds |-> c.holds,
                                          header |-> header]>>
    /\ UNCHANGED reassigned
    /\ Checks

While ==
    \E c \in Conditions :
        /\ Reachable(2)
        /\ Loop("while", flow, c, {}, <<>>)
        /\ UNCHANGED born

\* check_for: the initializer is one binding, or left out.
For ==
    \/ \E c \in Conditions :
        /\ Reachable(2)
        /\ Loop("for", flow, c, {}, <<>>)
        /\ UNCHANGED born
    \/ \E c \in Conditions, s \in Symbols :
        /\ Reachable(3)
        /\ flow.init[s] = "out"
        /\ born' = [born EXCEPT ![s] = loop_depth]
        /\ Loop("for", Define(flow, s, TRUE), c, {s},
                <<[op |-> "def", on |-> s, initialized |-> TRUE]>>)

\* check_switch opens its first arm; one that is not exhaustive may be skipped.
Switch ==
    \E exhaustive \in BOOLEAN :
        /\ "switch" \in bound.constructs
        /\ Reachable(2)
        /\ frames' = Append(frames,
               Frame("switch", Len(program) + 1, Always, flow,
                     [flow EXCEPT !.reaches = ~exhaustive], loop_depth))
        /\ Emit([op |-> "switch", on |-> None, exhaustive |-> exhaustive])
        /\ UNCHANGED <<flow, born, reassigned>>
        /\ Checks

\* The end of a branch: its scope is left; `next` names the token that ends it.
LeaveBranch(next) ==
    /\ MayLeave(flow, top.locals)
    /\ Emit([op |-> next, on |-> None, of |-> top.start, locals |-> top.locals])

Reopened(op, f, merged) ==
    frames' = [frames EXCEPT ![Len(frames)] = [top EXCEPT !.op = op, !.merged = merged, !.locals = {}]]

Else ==
    /\ phase = "check" /\ top.op = "if"
    /\ Len(program) + Len(frames) <= bound.tokens
    /\ LeaveBranch("else")
    /\ flow' = Refined(top.before, top.cond, FALSE)
    /\ Reopened("else", flow', Leave(flow, top.locals))
    /\ UNCHANGED <<born, reassigned>>
    /\ Checks

Arm ==
    /\ phase = "check" /\ top.op = "switch"
    /\ Len(program) + Len(frames) <= bound.tokens
    /\ LeaveBranch("arm")
    /\ flow' = top.before
    /\ Reopened("switch", flow', Merge(top.merged, Leave(flow, top.locals)))
    /\ UNCHANGED <<born, reassigned>>
    /\ Checks

EndBranch ==
    /\ phase = "check" /\ top.op \in {"if", "else", "switch", "block"}
    /\ LeaveBranch("end")
    /\ LET inner == Leave(flow, top.locals) IN
           flow' = IF top.op = "if" THEN Merge(inner, Refined(top.before, top.cond, FALSE))
                   ELSE Merge(top.merged, inner)
    /\ frames' = SubSeq(frames, 1, Len(frames) - 1)
    /\ UNCHANGED <<born, reassigned>>
    /\ Checks

EndWhile ==
    /\ phase = "check" /\ top.op = "while"
    /\ LeaveBranch("end")
    /\ flow' = AfterLoop(top.before, Leave(flow, top.locals))
    /\ frames' = SubSeq(frames, 1, Len(frames) - 1)
    /\ UNCHANGED <<born, reassigned>>
    /\ Checks

\* The update is checked even after a body that returns, without its stores, and
\* may assign; then the header's scope is left.
EndFor ==
    /\ phase = "check" /\ top.op = "for"
    /\ MayLeave(flow, top.locals)
    /\ \E update \in Symbols \cup {None} :
        LET left == Leave(flow, top.locals)
            body == IF left.reaches THEN left ELSE [left EXCEPT !.init = top.before.init]
            after == AfterLoop(top.before, IF update = None THEN body ELSE Store(body, update))
        IN  /\ update # None => Writable(body, update)
            /\ MayLeave(after, top.header)
            /\ flow' = Leave(after, top.header)
            /\ reassigned' = reassigned \cup IF update = None THEN {} ELSE Reassigns(update)
            /\ Emit([op |-> "end", on |-> update, of |-> top.start, locals |-> top.locals])
    /\ frames' = SubSeq(frames, 1, Len(frames) - 1)
    /\ UNCHANGED born
    /\ Checks

\* The end of the function: only a void one may be reached, with its results
\* handled.  What the checker kept is no longer needed.
Accept ==
    /\ phase = "check" /\ Len(frames) = 1
    /\ flow.reaches => void
    /\ MayLeave(flow, top.locals)
    /\ phase' = "run"
    /\ flow' = Nothing
    /\ frames' = <<>>
    /\ born' = [s \in Symbols |-> 0]
    /\ UNCHANGED <<kind, bound, void, program, reassigned, running>>

Check ==
    \/ Declare \/ Assign \/ Read \/ Match \/ Defer \/ Return
    \/ Block \/ If \/ While \/ For \/ Switch
    \/ Else \/ Arm \/ EndBranch \/ EndWhile \/ EndFor
    \/ Accept

-----------------------------------------------------------------------------
(* Execution, token by token. *)

token == program[pc]
Executes(ops) == phase = "run" /\ pc <= Len(program) /\ token.op \in ops

Parts(op, start) == {i \in 1..Len(program) : program[i].op = op /\ program[i].of = start}
EndOf(start) == CHOOSE i \in 1..Len(program) : program[i].op = "end" /\ program[i].of = start
Closes == {"else", "arm", "end"}

\* A plain binding only has values to tell apart where one can be captured.
Outcomes(s) ==
    IF kind[s].result \/ "defer" \in bound.constructs THEN {"good", "bad"} ELSE {"good"}

\* Going out of scope with an outcome that nothing has looked at.
Unseen(locals) == {s \in locals \cap Results : memory[s] \in {"good", "bad"} /\ s \notin inspected}
Forget(m, locals) == [s \in Symbols |-> IF s \in locals THEN "out" ELSE m[s]]

RunDefine ==
    /\ Executes({"def"})
    /\ \E outcome \in IF token.initialized THEN Outcomes(token.on) ELSE {"unset"} :
           memory' = [memory EXCEPT ![token.on] = outcome]
    /\ inspected' = inspected \ {token.on}
    /\ pc' = pc + 1
    /\ UNCHANGED <<checking, phase, dropped, log>>

RunAssign ==
    /\ Executes({"set"})
    /\ \E outcome \in Outcomes(token.on) : memory' = [memory EXCEPT ![token.on] = outcome]
    /\ inspected' = inspected \ {token.on}
    /\ pc' = pc + 1
    /\ UNCHANGED <<checking, phase, dropped, log>>

\* LowerResultValue and LowerResultError assert the tag.
WrongTag == \/ token.op = "value" /\ memory[token.on] # "good"
            \/ token.op = "error" /\ memory[token.on] # "bad"

RunRead ==
    /\ Executes({"read", "value", "error"})
    /\ phase' = IF WrongTag THEN "trapped" ELSE phase
    /\ pc' = IF WrongTag THEN pc ELSE pc + 1
    /\ UNCHANGED <<checking, memory, inspected, dropped, log>>

RunMatch ==
    /\ Executes({"match"})
    /\ inspected' = inspected \cup {token.on}
    /\ pc' = pc + 1
    /\ UNCHANGED <<checking, phase, memory, dropped, log>>

\* gen_condition: the values the condition of this token may have now.
Values == IF token.on = None THEN BOOLEAN ELSE {(memory[token.on] = "bad") = token.holds}
Inspects == inspected' = IF token.on = None THEN inspected ELSE inspected \cup {token.on}

RunBlock ==
    /\ Executes({"block"})
    /\ pc' = pc + 1
    /\ UNCHANGED <<checking, phase, memory, inspected, dropped, log>>

\* gen_branch: an `if` whose condition fails goes on in its else, or after it.
RunIf ==
    /\ Executes({"if"})
    /\ \E value \in Values :
           pc' = IF value THEN pc + 1
                 ELSE IF Parts("else", pc) # {} THEN (CHOOSE i \in Parts("else", pc) : TRUE) + 1
                 ELSE EndOf(pc) + 1
    /\ Inspects
    /\ UNCHANGED <<checking, phase, memory, dropped, log>>

\* gen_while and gen_for: a loop is left with the symbols of its header.
RunLoop ==
    /\ Executes({"while", "for"})
    /\ Inspects
    /\ \E value \in Values :
        \/ value /\ pc' = pc + 1 /\ UNCHANGED <<memory, dropped>>
        \/ /\ ~value
           /\ pc' = EndOf(pc) + 1
           /\ memory' = Forget(memory, token.header)
           /\ dropped' = dropped \cup (Unseen(token.header) \ {token.on})
    /\ UNCHANGED <<checking, phase, log>>

RunSwitch ==
    /\ Executes({"switch"})
    /\ pc' \in {pc + 1} \cup {i + 1 : i \in Parts("arm", pc)}
                 \cup (IF token.exhaustive THEN {} ELSE {EndOf(pc) + 1})
    /\ UNCHANGED <<checking, phase, memory, inspected, dropped, log>>

\* The end of a branch.  A loop goes back to its condition, a `for` after its
\* update; anything else goes on behind the statement.
RunClose ==
    /\ Executes(Closes)
    /\ LET loops == program[token.of].op \in {"while", "for"}
           left == Forget(memory, token.locals)
       IN  /\ pc' = IF loops THEN token.of ELSE EndOf(token.of) + 1
           /\ dropped' = dropped \cup Unseen(token.locals)
           /\ IF token.on = None THEN memory' = left /\ UNCHANGED inspected
              ELSE /\ \E outcome \in Outcomes(token.on) :
                          memory' = [left EXCEPT ![token.on] = outcome]
                   /\ inspected' = inspected \ {token.on}
    /\ UNCHANGED <<checking, phase, log>>

\* prepare_defers: the sites of the function, by which records tell their calls.
Sites == {i \in 1..Len(program) : program[i].op = "defer"}
Unused == [site |-> 0, captured |-> None, previous |-> None]

\* Mutant: the record keeps no link to the one before it.
Linked_First(site, captured) == [site |-> site, captured |-> captured, previous |-> None]

\* The record that register_defer writes before it becomes the head.
Linked(site, captured) == [site |-> site, captured |-> captured, previous |-> head]

\* register_defer: the captures are evaluated, then a record is allocated and
\* linked; a trap for want of memory leaves the call unregistered.
RunDefer ==
    /\ Executes({"defer"})
    /\ LET captured == IF token.on = None THEN None ELSE memory[token.on] IN
        \/ \E a \in {b \in Records : heap[b] = Unused} :
            /\ heap' = [heap EXCEPT ![a] = Linked(pc, captured)]
            /\ head' = a
            /\ promised' = Append(promised, <<pc, captured>>)
            /\ pc' = pc + 1
            /\ UNCHANGED phase
        \/ /\ phase' = "aborted"
           /\ UNCHANGED <<heap, head, promised, pc>>
    /\ UNCHANGED <<checking, memory, inspected, dropped, called>>

\* A return statement, or the end of a void function: emit_deferred.
RunReturn ==
    /\ phase = "run"
    /\ pc <= Len(program) => token.op = "return"
    /\ phase' = IF Sites = {} THEN "returned" ELSE "drain"
    /\ dropped' = dropped \cup Unseen(Symbols)
    /\ UNCHANGED <<checking, memory, inspected, pc, log>>

\* emit_deferred: the record leaves the log and the heap before its call is made,
\* which may trap or use that memory.
Drain ==
    /\ phase = "drain" /\ head # None
    /\ head' = heap[head].previous
    /\ called' = Append(called, <<heap[head].site, heap[head].captured>>)
    /\ heap' = [heap EXCEPT ![head] = Unused]
    /\ phase' \in {"drain", "aborted"}
    /\ UNCHANGED <<checking, memory, inspected, dropped, pc, promised>>

Drained ==
    /\ phase = "drain" /\ head = None
    /\ phase' = "returned"
    /\ UNCHANGED <<checking, memory, inspected, dropped, pc, log>>

Run ==
    \/ RunDefine \/ RunAssign \/ RunRead \/ RunMatch
    \/ RunBlock \/ RunIf \/ RunLoop \/ RunSwitch \/ RunClose
    \/ RunDefer \/ RunReturn \/ Drain \/ Drained

Init ==
    /\ \E b \in Bodies : kind = b.kind /\ bound = [constructs |-> b.constructs, tokens |-> b.tokens]
    /\ void \in BOOLEAN
    /\ program = <<>>
    /\ flow = Nothing
    /\ frames = <<Frame("body", 0, Always, Nothing, Nothing, 0)>>
    /\ born = [s \in Symbols |-> 0]
    /\ reassigned = {}
    /\ phase = "check"
    /\ pc = 1
    /\ memory = [s \in Symbols |-> "out"]
    /\ inspected = {}
    /\ dropped = {}
    /\ head = None
    /\ heap = [a \in Records |-> Unused]
    /\ called = <<>>
    /\ promised = <<>>

Next == Check \/ Run

Spec == Init /\ [][Next]_vars

-----------------------------------------------------------------------------
(* Properties. *)

\* The checker's state and the machine's have the types their comments give, and
\* the checker knows something only of results in scope (leave_scope erases the
\* entries of a scope from all three of its tables).
TypeOK ==
    /\ \E b \in Bodies : kind = b.kind /\ bound = [constructs |-> b.constructs, tokens |-> b.tokens]
    /\ void \in BOOLEAN
    /\ flow \in Flow
    /\ flow.handled \subseteq Results \cap Live(flow)
    /\ \A s \in Symbols : flow.proof[s] # "unknown" => s \in Results /\ flow.init[s] = "set"
    /\ phase \in {"check", "run", "drain", "returned", "trapped", "aborted"}
    /\ pc \in 1..bound.tokens + 1
    /\ memory \in [Symbols -> {"out", "unset", "good", "bad"}]
    /\ reassigned \subseteq Symbols /\ inspected \subseteq Symbols /\ dropped \subseteq Symbols
    /\ head \in Records \cup {None}

\* Every read of an accepted body, conditions and matches included, finds a
\* binding in scope that has been given a value on the path taken: what
\* merge_initialization keeps covers every path the generated code can take.
ReadsInitialized ==
    Executes({"read", "value", "error", "match", "if", "while", "for", "defer"}) /\ token.on # None =>
        memory[token.on] \in {"good", "bad"}

\* An immutable binding is given a value once: its one delayed assignment never
\* comes round again in a loop and never follows another one.
AssignedOnce ==
    Executes({"set", "end"}) /\ token.on # None /\ ~kind[token.on].mutable =>
        memory[token.on] = "unset"

\* The initialization that the checker computes covers every path: no read of
\* an unset binding and no second value for an immutable one.
BindingsSound == ReadsInitialized /\ AssignedOnce

\* A function with a result never runs off its end, whatever its conditions do.
AlwaysReturns ==
    phase = "run" /\ pc > Len(program) => void

\* A proof holds where it is used: an access meets the wrong variant only of a
\* result that is assigned again inside a loop around the access.
ProofsHold ==
    phase = "trapped" => token.on \in reassigned

\* A result goes out of scope, at a return or at the end of its scope, only after
\* its outcome was inspected, the same ones excepted.
ResultsHandled ==
    dropped \subseteq reassigned

\* Results are looked into rightly and not forgotten.
ResultsSound == ProofsHold /\ ResultsHandled

\* docs/checked-program.md, "Function-exit defer": every call that was registered
\* is made once, the last one first, with the values of its registration, however
\* often a site was passed and whichever return was taken; a trap stops that and
\* makes no other call, and a return leaves no record behind.
DeferredExact ==
    /\ called = [i \in 1..Len(called) |-> promised[Len(promised) + 1 - i]]
    /\ phase \in {"check", "run", "trapped"} => called = <<>>
    /\ phase = "returned" =>
         Len(called) = Len(promised) /\ \A a \in Records : heap[a] = Unused

\* docs/results.md: ".value is available only on a path where the compiler has
\* proved the result is not erroneous", and "Reassigning a mutable result
\* invalidates its earlier proof and requires another check": an accepted body
\* never meets the wrong variant.
AccessProved ==
    phase # "trapped"

=============================================================================
