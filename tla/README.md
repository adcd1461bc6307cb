# A verification project for Gloin

Gloin is a compiled language: a C++ compiler (`src/src/*.cpp`, with MLIR/LLVM
behind it), a standard library written in the language itself
(`src/stdlib/*.gloin`), a C++ runtime under that library
(`src/src/*_runtime.cpp`) and a few tools. This directory models two halves of
it. One is what owns something and can lose it: child processes, descriptors,
memory, files, a network exchange. The other is the compiler's promise: that a
text is read as the grammar says, that modules are found and ordered, that what
the flow analysis accepts runs well, and that the passes and the lowering keep
what the checked representation means. TLC checks the models on small
instances; TLAPS proves theorems about eight of them for all instances.
`PROJECT.json` maps each definition to the lines it stands for, lists the runs
with their mutants, and the hazards the properties are for.
Paths below start at the repository's root, `src/`.

    cd tla
    tlc -workers 2 -config ChildReturns.cfg MCChildProcess.tla
    tlapm ChildProcessProofs.tla

## 1. Inventory

| Component | Source | State it keeps | Operations | What is hard | Correct when |
|---|---|---|---|---|---|
| Owned child processes | `stdlib/process.gloin`, `process_runtime.cpp` | `ChildState`: pid, three pipe ends, cached status, `group`, `closed` | start, poll, wait, wait_timeout, terminate, kill, close, close of a pipe | the kernel moves between any two system calls; pids and descriptors are recycled; `close` fails half-way and is called again | the pid and the descriptors recorded are exactly its own; no signal leaves the scope; a group is swept before its number is given back |
| Launching a child | `process_runtime.cpp`, `process_limits_runtime.cpp` | descriptors of a launch in progress | pipes, moves above 2, `posix_spawn` or fork, limits, exec, report | every call may fail; the host may have closed 0, 1 or 2 | nothing is left of a failure; the child finds its streams |
| Captured communication | `stdlib/process.gloin` (`pump`) | bytes sent and received, open ends | communicate | both sides block on full pipes; descendants hold pipes open | everything is captured, limits are exact, no deadlock |
| File replacement | `fs_replace_runtime.cpp` | `sequence` of temporary names | `gloin_fs_replace_file` | concurrent callers and editors, crashes, times too coarse to show an edit | the file is whole at all times; only the expected contents are replaced |
| General arena | `arena_runtime.cpp`, `stdlib/arena.gloin` | blocks, current block, next capacity, allocator of the arena | create, alloc, reset, destroy, allocator scopes | wrap-around of sizes, odd native addresses, search after a reset | objects are apart and in held memory; all of it goes back where it came from |
| Hash map | `stdlib/hashmap.gloin`, `hashmap_runtime.cpp` | buckets, length | insert, get, remove, clear, reserve | backward-shift removal across the end of the table; failed growth | it is a finite map |
| HTTP client exchange | `stdlib/http_client.gloin` | `ExchangeState`: phase, buffers, waits, deadline | step, supply, consume, cancel, finish_input; request | response and upload interleave with the wants of a TLS session; early answers; limits | body exact, upload in order, same write retried, everything released, returns |
| HTTP decoder | `stdlib/http.gloin` | `ResponseDecoder` | create, feed | pieces of any length | (checked through the exchange) |
| Flow analysis | `sema.cpp`, `sema_control_flow.cpp` | initialization, `result_proof`, `result_handled`, `falls_through`, scopes | check of a body | merging paths; loops are checked once and run many times | an accepted body reads, assigns, returns and handles results as it must |
| Control flow of generated code | `codegen.cpp`, `codegen_control_flow.cpp` | basic blocks | `gen_branch`, `gen_while`, `gen_for`, `gen_switch`, `gen_match` | must agree with the analysis | (checked with it) |
| Deferred calls | `codegen_defer.cpp` | a log per invocation | register, drain | loops, early returns | each registration runs once, last first |
| Sockets and TLS | `stdlib/net.gloin`, `net_runtime.cpp`, `tls_runtime.cpp` | descriptor, session | connect, read, write, wait, close | a session shares its socket; reads that need writes | one owner, no use after close |
| Lexer and parser | `lexer.cpp`, `parser.cpp`, `AST.h`, `ast_clone.cpp` | place in the text, a half-consumed `>>`, grammar flags | tokens, trees, printing, cloning | longest words, precedence, generics against comparisons, spans | every node stands for exactly its text and nothing is lost |
| Module loader | `module_loader.cpp`, `sema_modules.cpp` | cache, active stack, owners | visit, load_directory, order | cycles, repeated and aliased paths, a file alone and in its directory | every file is in one module, behind those it imports, or the program is refused for a reason |
| Representation and verifiers | `dialect/*.td`, `dialect/GloinDialect.cpp` | none | one verifier per operation | a type too many is let through | what is accepted has a meaning that can be lowered |
| Passes | `gir_*.cpp` | values proved, loops versioned | promotion, range proofs, loop versions, float bounds and batches | what a branch or a round may do to a range; when a failure shows | a removed check never would have failed, or fails elsewhere before it shows |
| Lowering | `lowering.cpp`, `selection_lowering.cpp`, `target_layout.cpp` | types of names | legality, preparation, signatures, one pattern per operation | layouts, order of evaluation, minimum / -1, padding | same bytes, calls and traps |
| Vector, JSON, text, numbers, time | `stdlib/*.gloin` | buffers | algorithms | growth from own storage, boundaries | as a reference definition says |
| Ambient context | `context_runtime.cpp` | thread-local stacks | enter and leave scopes | nesting across callbacks | last in, first out |
| Types, native output, JIT, tools | the rest of `src/src`, `src/tools` | data transformed once | | | |

How they interact: a Gloin program is one thread; the library's handles call the
runtime, which makes system calls. The host that embeds the runtime (the JIT, a
C++ program) has other threads, so descriptors and process numbers are taken
and returned by others. `GeneralArena` takes native memory from the allocator
scope of the thread (`context_runtime.cpp`). The HTTP exchange owns a socket,
perhaps a TLS session over it, and a decoder; `request` drives it. The compiler's
passes run one after another: the loader parses each file it finds, the code
generator relies on what the analysis accepted, the lowering on what the
verifiers accepted, and the patterns on the proofs of the passes before them.

The complete list, with what is left out and why, is `components` in
`PROJECT.json`; the lines where things can go wrong are under `hazards`.

## 2. Modules

| Module | Models | State and actions |
|---|---|---|
| `ChildProcess` | a handle between any two of its system calls | `ChildState` as functions over handles; `op`, `who`, `at` are the call in progress and its next system call (`observe` is `waitid`/`waitpid` without blocking, `check`/`group`/`leader` are the three kills of `group_signal`, `await`/`reap` the two waits of `close`); the kernel's processes and descriptors are functions over recyclable numbers |
| `OwnedChild` | what a handle promises: acquired, finished, told once, given back, released | the abstract specification; `ChildProcess!KeepsPromise` is the refinement |
| `ChildProcessProofs` | theorems about it | |
| `ChildLaunch` | one launch, system call by system call, with the host's and the forked child's descriptor tables | one slot per pipe end; `Pipe`, `Move`, `Launch`, the child's `SetupStep`, the parent's waits and its cleanup |
| `ChildLaunchProofs` | theorems about it | |
| `ChildCommunicate` | the loop of `pump` and a child that does anything | counters of bytes per pipe, `at` the next step of the loop |
| `ChildCommunicateProofs` | theorems about it | |
| `FsReplace` | threads in `gloin_fs_replace_file`, an editor, crashes | inodes, the path, the staged siblings, a program counter per caller |
| `FsReplaceProofs` | theorems about it | |
| `GeneralArena` | the arena and the allocator scopes | addresses are numbers, native memory is a set of ranges |
| `GeneralArenaProofs` | theorems about it | |
| `HashMap` | the table, one probe loop iteration at a time where a call can be left in between | buckets of key, value and flag; growth, removal and their failures |
| `FiniteMap` | the map it must be | abstract specification; `HashMap!IsFiniteMap` is the refinement |
| `HashMapProofs` | theorems about both | |
| `HttpDecoder` | `ResponseDecoder.consume` byte by byte | a record; `feed` is a recursive function over the bytes |
| `HttpExchange` | `Exchange` with an application, a server, a clock | one call of `step` is one action, because it never waits |
| `HttpRequest` | `request`, which drives an exchange and waits | extends `HttpExchange` |
| `HttpRequestProofs` | theorems about both | |
| `Lexer` | tokens and errors of a text | functions over the bytes; `LexesExactly` is the longest-word definition they are compared with |
| `Parser` | recursive descent, the printed form and the clone of a tree | a parser is a record with the fields of `GloinParser`; every `parse_...` returns the next one and a node |
| `SourceProgram` | one text on its way through both | the text, its tokens, its tree |
| `ModuleLoader` | imports over a file system, `visit` and `load_directory` call by call, the order of the modules | `stack` holds the calls that have not returned; extends `SourceProgram`, whose parser reads each file |
| `SemaFlow` | the flow analysis and the execution of what it accepts, with the log of deferred calls | see 3.8 |
| `SemaFlowProofs` | theorems about it | |
| `Gir` | the checked representation: types, layouts, memory, and what every operation does | `Meaning`, one operation on a state, is the specification of the compiler's back end |
| `GloinDialect` | the verifier of every operation | predicates over an operation and the types of its operands |
| `Lowering` | legality, pruning, preparation, signatures, and what every operation becomes, as LLVM instructions on the same memory | one operator per pattern |
| `RangeProofs` | the facts of branches and the range of a value | dominance, `affine`, `range`, `less` |
| `GirPasses` | promotion of storage, versions of counted and of strided loops, combined float checks | a function before and after, with what was proved and what each block and value was copied from |
| `FloatPasses` | sums of products, bounds of floats and arrays | a fixed point over the function |
| `FloatBatches` | loops over float arrays whose checks only lower a flag | |
| `GirProgram` | a module through the verifier and all passes in their order, then its meaning and its lowered form side by side | `stage` is the next pass; `ref` and `low` are the two executions |
| `MC*` | instances for TLC | |

`ChildProcess` takes a launch as one step (`ChildLaunch` refines that step) and
leaves out the bytes in the pipes (`ChildCommunicate` has them).

The front end and the modules from `Gir` on use RECURSIVE operators (trees,
layouts, dominance) and are for TLC only.

Operators named `X_Something` are mutants: `X` with a plausible mistake. For
every property of a run there is one with which that run fails.

## 3. What each run shows

Bounds are in the configurations; here is why they are enough.

### 3.1 `ChildProcesses` (MCChildProcess)
Two handles, three process numbers, no descriptors, and a host that leaves the
program's children alone (`HostReaps = FALSE`: a host that reaps them makes any
recorded number stale, which the library can only report). Three numbers let a
leader have a member and a stranger; numbers are reused at once. `ProcessExact`:
a recorded pid is an unreaped child of this handle, and the reverse.
`OwnedUntilKnown`: a handle has its child until its end is known, a leader until
the last step of `close`. `SignalsInScope`, `GroupSwept`: who may be signalled,
and that everybody left in a group was killed before its number is free.
`KeepsPromise`: the refinement of `OwnedChild`. Handles and numbers are
symmetric and no liveness is checked here, so symmetry is used.

### 3.2 `ChildReturns` (MCChildProcess)
One handle with its pipes, three descriptor numbers, one process number, and a
host that opens and closes descriptors and reaps the child (`HostReaps = TRUE`).
`DescriptorsExact`: the numbers recorded are exactly the descriptors owned, also
after a failing close and a lost child. `CloseReturns`, `TimeoutReturns`: under
fairness of the thread's next step, of time (`Expire`) and of the death of a
process that was sent SIGKILL, both end. Nothing else is assumed: the child need
never end by itself. No symmetry, as these are liveness properties.

### 3.3 `ChildLaunches` (MCChildLaunch)
All sets of closed standard streams, all limits on descriptor numbers from 3 to
13 and a failure at every system call, with and without pipes and resource
limits. Eight pipe ends, three streams and a moved descriptor need 13 numbers, so
every allocation succeeds in one initial state and fails in another.
`NothingLeft`: a failure leaves no descriptor and no child, a success is a
program that started and exactly the three parent ends. `ChildStreams`: 0, 1 and
2 of the child are its pipes and nothing else is inherited. `HostKept`: the host's descriptors are
not disturbed. `Returns`: the status pipe is never waited for in vain; fairness
of both processes and of a SIGKILL.

### 3.4 `ChildCapture` (MCChildCommunicate)
Pipes of one byte, two bytes of input, room for two bytes and for none, a child
that reads, writes and closes in any order and may leave a descendant with its
outputs: both sides block on each other's pipes, a buffer is exactly full, and
exceeded. `CaptureExact`: a capture is complete or refused because it could not
be. `InputComplete`: the child sees the end only after all of its input. `Returns`
assumes the caller's thread and the clock (`Fair`) and nothing of the child.
`NoStall` has no deadline and assumes that the child works (`Working`: it goes on
when it is not blocked, and descendants end).

### 3.5 `FileReplacements` (MCFsReplace)
Two callers, two names to try each (the code: 256), one edit of the editor (in
place, by rename, or of the mode), one crash of the process or loss of power,
after which a process with the same number runs. Sizes are equal and one tick of
the file system's clock holds many changes, the worst case for
`stat`-comparison. `OnlyExpectedLost`: what a successful rename replaced is what
was expected, unless the file was changed after the last look at its bytes
(`late`; the code cannot exclude that window, and says so). `NeverTorn`: the path
names a whole file, also after power loss. `NothingStaged`, `OthersKept`: names
are cleaned up, and only one's own. The editor's writes are taken to be durable
and `unlink` to succeed. Callers are symmetric.

### 3.6 `Arenas` (MCGeneralArena)
Three objects of size 0, small and more than a block, alignments 1, 4, 8 and
the invalid 3, a limit (PTRDIFF_MAX) of 9 so that sums wrap, blocks at aligned
and odd addresses, two passes and one allocator scope. `ObjectsSound`: objects are
apart, aligned and inside held memory, and native requests in range.
`NothingLeft`: memory returns to the allocator it came from. `SameAgain`: the same
requests after a reset get the same addresses.

### 3.7 `Maps` (MCHashMap)
Four keys with every assignment of the hashes 0, 3 and 7, in tables of four and
eight buckets (the code starts at eight; four keeps the chains that cross the end
of the table in reach), growth and its failure. `TableInv`: every entry is found
by a probe and an empty bucket remains. `IsFiniteMap`: the calls return and leave
what they would on a finite map. A call of a loop over an unchanged table (find)
is one step; the loops that move entries (rehash, closing the gap) are not.
Everything is symmetric in keys and values because all hashes are tried.

### 3.8 `FlowChecks` and `FlowLoops` (MCSemaFlow)
`SemaFlow` first writes a function body token by token, each token one that the
checker accepts in its current state, with a frame per open statement, plain
blocks included, as the checker's recursion has; a frame also knows how many
loops it is in (`loop_depth`). An accepted body is then executed, following the blocks
that the code generator emits, with every outcome of conditions and calls. So
TLC compares the analysis with the executions of *every* body up to a length:
six tokens with one binding of each kind and every construct, five with two
bindings, eight with a mutable result in branches and while loops, and six with
deferred calls in branches, for loops and switches, over two records of the log.
Six tokens hold a branch in a loop, or an `else`, with an assignment and a use;
eight are needed for a proof before a loop, a use, a replacement and a check
inside. `BindingsSound`: no read of an unset binding on any path, and no second
value for an immutable one. `AlwaysReturns`: no function runs off its end.
`ResultsSound`: `.value` and `.error` meet the right variant, and no outcome
leaves its scope unseen, except for results that are assigned inside a loop
around their use. `DeferredExact`: each registration is called once, the last
one first, with the captures it had, at whichever return; a trap makes no call,
and no record stays behind.

That exception is a finding. `FlowLoops` checks `AccessProved`, the statement of
`docs/results.md` without the exception, and TLC finds it violated. The shortest
body found is of this form:

    def mut r: result<i32> = f();
    if !r.erroneous {
        while c { use(r.value); r = f(); match r { ... }; }
    }

A loop body is checked once, with the proofs that hold before the first round
(`sema.cpp:821`, `sema_control_flow.cpp:116`), and proofs are dropped only after
the loop. On the second round `r` holds a new outcome that nothing has tested;
the lowered access traps on its tag. In the same way a `return` at the start of
the second round drops an outcome that was not inspected, which is what the
exception in `ResultsSound` is about.

### 3.9 `HttpExchanges` (MCHttpRequest)
Two kinds of application in one run. In most initial states an arbitrary
application makes any call at any time on an exchange, with seven responses
(fixed, chunked with all its syntax, until the end of the stream, none,
informational first, over the limit, forbidden), cut at any byte, received in
pieces of up to two bytes and handed out one at a time, two bytes of content
behind a one-byte head, over both transports, with a failure at every native call
and the deadline anywhere. `BodyExact`, `UploadInOrder`, `Released` speak for
themselves; `RetriesSameWrite` is the rule of OpenSSL that a write that wanted to
wait comes again with the same bytes (taken from the code's own comment), and
before anything else when it wanted to read.
In the others `request` is the application, for an early refusal and for a body
until the end of the stream, through sockets and buffers of one byte. `Returns`
assumes only that its thread runs and time passes: a server may trickle or be
silent, and a TLS session may want to wait for ever. `NoStall` is for plain
sockets and a server that reads until it begins to answer, early or late, and
then reads no more; `Wait` needs strong fairness because readiness may come and
go and signals may cut a wait short.

### 3.10 `Sources` (MCModuleLoader)
Texts: all of up to four bytes that numbers are made of, up to four of quoted
literals, up to four of UTF-8 (with every way a scalar value can be malformed),
up to three of operators, blanks and comments; all expressions of up to three
words of 18, all chains of three binary operators with and without parentheses
or prefixes; a list of every statement and definition, right and wrong, in the
core and the formatter's grammar. Three bytes hold every operator with the
character that ends it; a chain of three operators shows both neighbours of a
precedence. `TokensExact` compares with the longest-word definition and asks that
errors are reported exactly at the fault. `TreesExact` asks for each operator
node that its operands bind tightly enough or stand in parentheses, and for each
expression and statement that the words of its span alone are parsed to it.
`ProgramsKept`: the printed form has the same words, groups and commas aside, and
parses to the same tree (nodes that are printed in another form than they are
written in, `Printable`, excepted), and a clone is equal to the function it copies.
Modules: the source of a program beside files, links, directories and a package,
with two imports in every one of 26 spellings, and from four roots all choices of
imports in four modules, so that modules import each other, themselves, or a
file both alone and in its directory, five deep at most (the code: 128).
`ModulesExact`: a loaded program has every file once, with its owner and behind
its imports; a refused one has files that contradict each other or lead too deep.

### 3.11 `GirPrograms` (MCGirProgram)
A program is a function of a few blocks with one construct at a time. The
families: integer arithmetic, comparisons and their foldings; float operations;
selections, enums, results, errors; structs, arrays and their fills, stack and
arena storage, slices; calls of every signature; guarded arithmetic and indices;
loops with counters in storage, signed and not, from 0 and from -1, by 1 and by
2, with several bounds over slices of up to seven elements; strided loops with
secondary counters, with a bound that reaches the last value of a word; chains
of float operations; sums of products over arrays and slices; floats from an
array under two conditions; values that grow every round; batches over local
float arrays, entered with and without a condition, with bounds by value,
length and number, and with everything that must keep a loop from being one (a
division, a call, an array that another function sees). To these come all with
one operand or one type changed: 3,430 programs, of which the verifiers accept 810.
Integers have two bits or, for lengths, four, so every overflow is reached;
floats are -2 to 2 with infinity and NaN.

`MeaningKept` is the one property. A program that the verifiers accept goes
through every pass in the code's order; none may fail. Then `ref` runs by
`Gir!Meaning` what the compiler was given and `low` runs what came out, one
operation at a time, and after every step both are at the same operation (of
the block that theirs was copied from) with the same values, or both have
trapped; memory has the same bytes, except for padding; calls had the same
arguments. Where the meaning traps and some float checks were dropped or deferred, the
lowered code may go on, but not to the end: it must trap without a call or a
visible write before.
A run of the meaning that ends undefined (a read of storage that was never set,
which the flow analysis excludes) asks nothing.

The range proofs here prove at least as much as the code: depth limits of 8 and
16, the cached ranges of values in progress and the widening of bounds are left
out. So are limits on the sizes of blocks, loops and chains, the fast-math flags
and the select, negation and freeze of mixed LLVM input (the model has no
poison), and the interleaving hint. The flag of a batch is a name instead of a
block argument. A function with a match keeps its storage. Agreement of the
declared structs with the layouts of loads and allocations is not claimed, nor
the weakening of a field's address for writes.

## 4. Fairness

Fairness is only assumed of: the thread that makes the call (it is scheduled),
time (a deadline passes), a process that was sent SIGKILL (it dies), and, for
`NoStall` alone, the partner, as the property says. System calls that may fail
are separate disjuncts without fairness: no failure is ever bound to happen.
Where a run has both safety and liveness, the fairness stands as an antecedent
inside the liveness properties (`Fair`, `Working`).

## 5. Proofs

All proofs are checked by TLAPS with SMT, Zenon and LS4. Nothing is assumed but
the `ASSUME`s of the modules, which TLC evaluates in every run: sentinels differ
from real values (`SentinelsApart`, and `SemaFlowAssumption`, which also says what
bodies are made of), sizes and limits are natural numbers in the order the code's
constants have (`Layout`, `Sizes`, `Bounds`, `Limits`, `EnoughNumbers`, `Tables`),
the bytes of a response are labelled with what they are (`Answers`: the data are
numbered in order, behind a head that frames them), and the editor is not a caller
(`EditorApart`). Every theorem holds for any value of the
constants that satisfies these, so for the code's own: 256 names for a staged
file, tables from eight buckets on, any number of handles or callers, function
bodies of any length.

Each module has one inductive invariant (`SemaFlowProofs` one for the body and
one for the log, `HttpRequestProofs` one for the exchange and one for what was
received). TLC checked them on the run's instance, or a smaller one of the
same kind, before they were proved; that of the body with its notes as a variable.
Below is why what a run checks is not inductive by itself, and what has to be known with it.

`ChildProcessProofs`, for any number of handles, processes and descriptors:
- `HandleInvariant`: `HandleInv == TypeOK /\ OwnedUntilKnown /\ CallInv` is
  inductive. `OwnedUntilKnown` alone is not: that `close` may clear the pid needs
  what the steps before established (the status is known before `reap`, a group
  step is only reached with a group, the pipes are closed first), which `CallInv`
  says step by step. From it, `TypeCorrect` and `ChildKeptUntilKnown`, also when
  the host reaps children.
- `DescriptorsAreExact`: from `HandleInv`, for any interference with descriptors.
- `OwnerInvariant` (when the host leaves the children alone): adds `ProcessExact`,
  that a free number has no signal or group left on it, and what a sweep of the
  group has done so far at each step. From it `ProcessesAreExact`,
  `SignalsStayInScope` and `GroupsAreSwept`.
- `PromiseIsKept` (under the same condition): every step of `ChildProcess` is a
  step of `OwnedChild` for one handle, or a stutter. It needs `EndsKnown` beside
  the above: a handle that has finished knows an end, and the process of a handle
  has ended exactly when it is a zombie, so what the handle learns in the step in
  which the kernel answers is how its own child ended.

`ChildLaunchProofs`, for any limit on descriptor numbers and any streams closed:
- `LaunchInvariant`: `LaunchInv`. That a failure leaves nothing (`NothingLeft`) is
  a statement about the last step; what makes it true is that at every earlier one
  the slots in use are known from the place in the code (`HeldInTurn`), each holds
  its own end of its own pipe, and no end is open that no slot holds
  (`HeldExact`). That the child finds its streams although `dup2` writes over 0, 1
  and 2 in turn holds because every end was moved out of the way first (`Moved`)
  and because the ends it still needs are untouched at each of its steps
  (`ChildReady`). From it `LaunchesLeaveNothing`, `StreamsInPlace`, and
  `HostDescriptorsKept` as an action property.

`ChildCommunicateProofs`, for any sizes of pipes, buffers and input:
- `BytesAccounted`: `CommunicateInv`. A capture is judged at the end by looking at
  which streams are closed (`Outcome`); that this says something of the bytes needs
  a ledger at every step: what was written is in the buffer or in the pipe
  (`Accounted`), what was sent is consumed or in the pipe (`InputAccounted`), and a
  stream is only closed at its end (`Drained`). From it `CapturesAreExact` and
  `InputsAreComplete`.

`FsReplaceProofs`, for any number of callers, names, edits and crashes:
- `FsInvariant`: `FsInv`. `NeverTorn` is not inductive: a rename puts at the path
  what a caller staged, so the staged file must be whole and synced at that step
  (`TemporaryReady`), which it is only because no other caller or name shares its
  inode (`StagedApart`, `OwnStaged`) and nobody's original is one (`OriginalKept`).
  `OnlyExpectedLost` needs what the second comparison established until the
  rename, unless the file was changed meanwhile (`StillExpected`). From it
  `PathIsNeverTorn`, `OnlyTheExpectedIsLost`, `NothingStaysStaged` and
  `OtherStagedFilesKept`.

`GeneralArenaProofs`, for any sizes, alignments, addresses and limits:
- `ArenaInvariant`: the native memory that is out is exactly the blocks and the
  home of the arena (`Books`), the blocks are apart, and every object lies in the
  used part of its block (`Placed`). Disjointness of objects is not inductive
  without the last: an allocation is only known to be clear of the others because
  it starts behind what is used. From it `TypeCorrect`, `ObjectsNeverOverlap`,
  `ObjectsLieInHeldMemory`, `RequestsStayInRange` (no request exceeds PTRDIFF_MAX
  although differences are computed modulo 2^w), together `ObjectsAreSound`, and
  `MemoryGoesBack`.
- `SameAddressesAgain`: needs to know, of every object given before and after the
  reset, that the search of `gloin_arena_alloc` finds its block and offset from the
  objects before it alone (`AgainInv`): blocks added since then come last, where the
  search for an earlier request does not get to.

`HashMapProofs`, for any keys, values, hashes and sizes of tables:
- `MapInvariant`: `MapInv`. `TableInv` of a table at rest is not enough: in the
  middle of a removal the hole breaks the chains through it, and only entries
  from `next` on may have been reached that way (`GapInv`); in the middle of growth
  there are two tables (`CopyInv`); and both calls still hold a key that is not in
  the table (`PendingInv`). Arguments about remainders are replaced by the
  distance of a probe (`Dist`), for which the order of three buckets around the
  table is a lemma. From it `TableIsSound`.
- `TableIsFiniteMap`: every step of `HashMap` is a step of `FiniteMap` on the
  entries in the kept buckets, or a stutter. Growth and each move of the removal
  are stutters: as sets of entries the tables before and after are equal, which
  for growth needs that the copies are counted.

`HttpRequestProofs`, for any responses, any sizes of buffers and sockets, and any
application, `request` among them:
- `ExchangeInvariant`, `RequestInvariant`: `ExchangeInv`. That the server gets the
  upload in order is said of what the transport took; the bytes that follow are
  staged in a buffer that is filled, shifted and refilled (`UploadInv`). That a write
  comes again with the same bytes needs that it is still staged whole whatever was
  called in between, and that no received byte is there that would keep the next
  step from it (`PendingInv`). From it `UploadsAreInOrder`, `WritesComeAgain` and
  `OverIsReleased`.
- `BodiesAreExact`: `BodyInv`. What the application holds says nothing of what is
  still between the socket and it, so the invariant follows each byte: what is in
  the receive buffer is the piece of the response before `taken` (`ReceiveInv`); the
  decoder has taken the bytes up to `Position`, its count is that of the data among
  them, and its state fits the framing announced by the final head (`InStep`: so
  many left of a fixed body, so many bytes of data ahead in a chunk); what it put
  out and was not consumed is the end of that (`DecodeInv`). One byte keeps the
  decoder in step or fails it (`HeadKeepsStep`, `SyntaxKeepsStep`, `BodyKeepsStep`);
  a piece of any length does (`DecodingKeepsStep`), by induction over the recursive
  function `Decoding`. No induction rule with an operator as its parameter is used
  for that: a set of numbers for which a statement fails, if it is not empty, has
  a least element (`LeastNatural`, from the well-foundedness of `<` in the library).
  The assumptions are `Limits` and `Sizes`, and of the responses `Answers`: they may
  be cut, broken or over the limits, but a byte is called what it is (data are
  numbered, and stand only behind a head whose framing covers them; the size of a
  chunk is followed by so many data). TLC checks `Answers` for those of the run.

`SemaFlowProofs`, for any symbols, any length of bodies and any number of records:
- `FlowInvariant`: `FlowInv`. The four properties speak of an execution, which goes
  anywhere in the body, by what the checker did long before, so nothing in the
  state of the machine makes them inductive. What does is a certificate of the body:
  a note before every token of what the checker knew there, closed under every
  jump the generated code makes (`Certified`: from a condition into a branch or
  past it, from the end of a branch behind its statement, from the end of a round
  back to the condition). That an accepted body has one is an induction over the
  checker's steps: the end of a statement closes jumps from tokens of long ago,
  for which each open frame must remember the note where its statement began
  (`Begun`), that what its closed branches merged to claims no more than each of
  them did (`Merges`), and that within a loop only what the loop assigns has been
  lost since (`Later`, by `loop_depth`), or the note at the condition would not hold
  on the second round. The finding of 3.8 shows here: a proof does not survive
  the round, so a note keeps every fact that held when a loop around it began,
  and is not believed for the results in `reassigned`. That an execution
  keeps to the notes (`Covers`: what the note at `pc` claims is true of the memory
  and of what was inspected) is an induction over its steps. From it
  `BindingsAreSound`, `FunctionsAlwaysReturn` and `ResultsAreSound`.
- `LogInvariant`: `LogInv`. The records from the head of the log on, one after the
  other, hold the promised calls that are not yet made, in their order, and no
  other record is in use; a function without deferred calls drains nothing.
  It uses `FlowInvariant` for the values a capture may have. From it
  `DeferredCallsAreExact`.

Only model-checked, and why:
- all that is to happen eventually (`Returns`, `NoStall`, `CloseReturns`,
  `TimeoutReturns`): liveness under fairness is out of the prover's reach.
- everything about the front end and the representation (`TokensExact`,
  `TreesExact`, `ProgramsKept`, `ModulesExact`, `MeaningKept`): `RECURSIVE` operators
  over texts, trees, types and blocks, which the provers cannot expand.

## 6. Modelling decisions

- A Gloin program is one thread; the host's other threads and unrelated processes
  are the environment, which acts between any two system calls.
- A process that left the group does not come back; EPERM is the refusal of a
  signal as a whole; identifiers are reused as soon as they are free.
- The hash of a key and what servers send are chosen by the initial state.
- In the HTTP models a byte is what it means to the decoder. The syntax within a
  line is data. Time is one bit, passed or not; the arithmetic of deadlines is not
  modelled. A plain `recv` does not fail to deliver bytes that have arrived.
- In `SemaFlow` types, expressions and resolution are data; shadowing is renaming;
  a rejected body is simply never completed; `unless` is an `if` whose branch is
  taken for the other value, and a parameter a leading definition.

- The front end works on bytes that matter: an ASCII byte is itself, and one byte
  of each class of UTF-8 stands for its class. The nesting limit of 512 is left
  out, and so is the wording of messages; their places are not.
- In `ModuleLoader` a path is a sequence of names and a link is followed when a
  path is made canonical. Files that cannot be read at all are left out.
- In the representation a name is a value, memory is bytes, and what MLIR does
  between the compiler's own passes (greedy rewriting, dominance, loop info,
  promotion over a dominance frontier) is modelled from how it is used and marked
  external. The test before a versioned loop belongs to the branch that takes it.

## 7. Not modelled

The components with status `not_modelled` in `PROJECT.json`. Out of reach or of
little use: the conversions of MLIR to LLVM and what LLVM makes of them, the JIT
and object files, formatting, pure data transformations without a protocol. Of
the analysis, types, generics and constants are missing. Planned are the rest, in
this order:

1. `TlsSocket`: ownership of a descriptor shared by copies of a socket and its
   session (`net.gloin`, `net_runtime.cpp`, `tls_runtime.cpp`).
2. `ContextScopes`: argument and allocator scopes, last in, first out.
3. Pure algorithms against reference definitions: the head and chunk lines of
   `http.gloin`, the tokenizer of JSON, Vector.
4. The types of expressions (`sema*.cpp`): conversions, generics, constants.

Runs share configurations where the questions can share a state space (section
3); new components will come with theorems and with runs of that kind.
