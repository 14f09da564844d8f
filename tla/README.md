# Verification of Tyra

Tyra is a language with a compiler to LLVM, an interpreter, a runtime that
compiled programs link against, a package manager, a formatter, a test runner
and a language server. This directory holds TLA+ models of the parts that are
concurrent, that survive crashes, or whose passes must agree with one another;
the configurations that check the models with TLC; and proofs about seven of
them, checked by TLAPS.

    tlc -workers 2 -config TaskPool.cfg TaskSelectOrder     # one run
    tlapm TaskRuntimeProofs.tla                             # the proofs of one module

`PROJECT.json` lists the runs, the theorems, the source lines each definition
stands for, a plausible bug for every property, and the hazards of the code.

## 1. Inventory

Paths are relative to the repository, `src/` here. Crates of the compiler are
named without `compiler/crates/`.

| Component | State it keeps | Operations | Hard behaviour | Correct when | Status |
|---|---|---|---|---|---|
| **Task runtime**, `runtime/src/lib.rs`; the calls `tyra-codegen-llvm/src/inkwell_concurrency.rs` emits | a channel of jobs, a fixed pool of workers; per task a mutex, a condition variable, a state and subscribers; raw `Arc` handles | spawn, await, join_all, select, init, shutdown | every thread interleaving; awaits that block workers; handles without a borrow checker; exit in the middle | no use after free and no leak, no lost wakeup, right results, everything awaited is answered | modelled |
| **Language server: documents**, `tools/lsp/tyra-lsp/src/main.rs` | a locked map from documents to text, version, diagnostics | didOpen, didChange, didClose, didChangeWatchedFiles, pull diagnostics | handlers at the same time; a compilation between reading and writing; panics of the compiler | the store and the screen follow the editor | modelled |
| **Package manager: git cache**, `tools/tyra-pkg/src/lib.rs` | directories shared by all processes of a user | sync of one git dependency, clean | processes at the same time, kills, git failing half way | a slot is absent or the whole tree of its rev | modelled |
| **Package manager: resolver, lock file**, same file, `tools/tyra-manifest` | manifests, `Tyra.lock`, the walk | sync, sync --locked, sync --check | conflicts in every order, cycles, edits and branches that move | the lock is what the manifests ask for, and is known to be so later | partly: init, add, update, remove, tree edit or print one manifest as text |
| **Persistent collections**, `runtime/src/stdlib_{map,set,linked_map,linked_set,sorted_map,sorted_set}.rs`, the interpreter's vectors | tries, arrays of entries and probed indexes, sorted arrays | insert, remove, get, contains, len, for_each | long sequences of calls, collisions, wrap-around, collapse of nodes | a finite or an ordered map, the same in both engines | modelled |
| **Test runner**, `tyra-cli/src/main.rs`, `run_binary` of `tyra-driver` | chunks of threads, a shared scratch directory, child processes and pipes | `tyra test` | deadlines against exits, pipes that fill or stay open, try_wait failing | results tell the truth, nothing is left behind, the command exits | modelled; other commands: not |
| **Affine checker**, `tyra-types/src/task_affine.rs` | per scope, the state of each handle | consume, escape, joins of branches, loops, exits | paths through loops with break, continue, return | it rejects what awaits twice and accepts what does not | modelled |
| **Frontend pipeline, import resolution**, `tyra-frontend`, `tyra-driver`, `tyra-resolve` | one compilation: queue of imports, merged declarations, index | check_unit, compile_unit | rewriting passes that know no scopes, names merged into one space | names reach what is meant; errors are true | frontend modelled; driver and resolver partly |
| **Type checker, MIR, code generation, interpreter** | trees, tables of names, instructions | passes | two engines, a lowering without types | what is accepted runs as written | partly: matches, calls of methods and modules, operators, control flow, defer |
| **Lexer, parser, formatter**, `tyra-lexer`, `tyra-parser`, `tools/tyra-fmt` | a stream, a writer | `fmt`, `fmt --check` | comments, parentheses, long headers; rewriting in place | a source means the same afterwards, and is stable | formatter modelled; errors of the parser are one flag |
| **Garbage collector glue**, `runtime/src/lib.rs`, `gc_string.rs` | which threads are registered, what is a root | init, register, allocate | boxes in flight between threads | a box lives as long as its reader | not modelled |
| **HTTP server**, `runtime/src/stdlib_http_server.rs` | a locked table of routes | route, listen | slow clients, no timeouts | every client is served in turn | not modelled |
| **The rest of the runtime's library; diagnostics; coverage counters; templates; requests of the language server answered from one entry; editors and documentation** | none, or the last error per thread | functions | conversions | each its own | not modelled |

How they meet. Compiled code calls the task runtime and the collections through
a C ABI; handles cross it as raw pointers. The runtime relies on the affine
checker for one assumption: a handle is awaited at most once. The driver, the
command line and the language server call the frontend; the language server
does so on a blocking thread, between reading and writing its store. The
frontend rewrites names so that later passes, which know one variable of a name
in a function, tell them apart. The checker knows types and the lowering does
not: which function a call becomes is decided twice. The package manager fills
the cache that the driver's import resolution reads; the lock file and the
manifests are what they share.

The hazards, each at its line, are in `PROJECT.json` with the properties that
would catch them, or the reason why none does.

## 2. Modules

| Modules | Of | Role |
|---|---|---|
| `TaskFutures` | what spawn, await, join_all and select promise | abstract specification |
| `TaskRuntime`, `TaskSelectOrder` | scheduler, threads, Arcs, the program's calls; the second adds the order select's documentation speaks of | detailed; implements `TaskFutures` |
| `LspDocuments` | the store of the language server and its handlers | detailed |
| `PkgCache` | one slot of the git cache and its scratch directory | detailed |
| `PkgResolve` | the walk over the manifests, the lock, --locked and --check | detailed, against a reference definition |
| `TestRunner` | `tyra test`: threads, binaries, pipes, deadlines | detailed |
| `FiniteMap`, `OrderedMap` | what a map promises | abstract specifications |
| `Hamt`, `LinkedMap`, `Collections` | the representations; the six collections beside the interpreter's vectors | detailed; implement the two above |
| `MatchArms`, `Comparisons` | a match on every value; declared types and their operators | detailed, against the language's meaning |
| `Bodies`, `TaskAffine`, `Lowering`, `Compiler` | a body of a function through renaming, the affine pass, lowering and both engines | pure algorithms, composed; against `Bodies` |
| `Lexer`, `Parser`, `Printer`, `Formatter` | `tyra fmt` on texts and directories | pure algorithms, composed |
| `MethodCheck`, `MethodLower`, `MethodCalls` | calls of methods and modules' functions: what the checker accepts, which function the lowering picks | detailed, against the methods' meaning |
| `Imports`, `Names`, `Frontend` | one compilation, from the disk to the functions calls run | detailed, against lexical scoping |
| `...Proofs` | | theorems about the module of that name |
| `MC...` | | constants for TLC |

In all of them an operator named `X_Something` is `X` with a plausible bug. The
specifications do not use them; each is there to show that a property can fail.

### 2.1 TaskRuntime

*State.* A task is the number of its creation. `queue` is the crossbeam channel,
`worker[w]` the job a worker has, `state`, `waiters` the fields of `TaskInner`.
The thread that will publish a task's result is named after the task: the worker
under it for a spawned task, the dispatcher thread for the task that a select
returns. `pc` is where each of these threads, and main, is. `refs` and `clones`
are the Arcs that exist, split by who holds them. `owner` is the thread whose
Tyra code may still use a handle. `todo` is what a blocked await or join_all has
left to do.

*Steps.* A critical section of a task's mutex is one step. The exception is
publishing, where the worker sends to the subscribers one by one and notifies
while it holds the mutex: `PublishSend` goes subscriber by subscriber,
`PublishNotify` notifies and unlocks, and `Locked(t)` holds in between and
excludes the others. `WorkerRecv` takes a job, `ThunkReturn` ends the function
and stores the result, `WorkerDrop` drops the job. `Block` is the entry into
await or join_all, `AwaitReturn` and `AwaitPark` the two outcomes of its look at
the state, `SpuriousWake` the condition variable waking for nothing. `Select`
clones the Arcs and starts the dispatcher, which scans its sources in order
(`ScanDone`, `ScanSubscribe`), listens on its channel (`DispatcherRecv`),
publishes with the same steps as a worker, and gives back its clones
(`DispatcherDrop`). `Exit` is main returning: nothing is drained.

*The program.* Main and spawned functions spawn with any set of their handles as
arguments, and await, join and select in any order. A handle is awaited once and
selected only before that: the safety contract of `tyra_task_await`. A handle is
a bare pointer: when the function it is in returns (`ThunkReturn`), or a block or
a called function ends (`Forget`), its Arc stays, and the handle is `Lost`.
`Nesting` says whether spawned functions may spawn.

*Left out.* A handle that a function returns: its caller would own it. A panic
aborts the process, which is `Exit` at any point for all that the properties say.
The collector is a component of its own.

### 2.2 LspDocuments

The editor numbers its texts; a number is also the version. tower-lsp starts
handlers in the order of the messages, up to four at a time, and they go on in
any order. A handler compiles (`Compile`), takes the lock and writes (`Store`),
and publishes (`Publish`), with others in between; `did_close` is `Remove` and
`Publish`; `did_change_watched_files` copies the store (`Snapshot`) and then does
the three for each document. `crashing` are the texts the compiler panics on. The
verdict of the compiler is kept as the text it is about and the version of the
files it saw. Requests that only read an entry are left out, and so is a join of
the blocking thread that fails because the server shuts down.

### 2.3 PkgCache

The slot `cache` and the scratch directory `tmp` as any process finds them: the
commit of the files, whether `Tyra.toml` is there, whether a removal has taken
files away, and the processes whose git or removal is at work there (`by`). The
steps are the system calls and git commands of `sync_git_dep` in order, with every
failure, and of `run_clean`. A clone, a checkout and a recursive removal each
begin, have a middle and end; each goes on in the directory it opened wherever
that has been moved meanwhile, and may fail for it. A kill takes the process and
its git. One dependency at one rev is enough, since others have paths of their
own. A removal that fails in `clean` for no reason that is in the model is a clean
that was killed.

### 2.4 PkgResolve

`stack` is the recursion of `resolve_transitive_impl` made explicit: a frame has
the dependencies left of one manifest, in the order of names. The steps are the
branches of the loop's body. While the walk runs, the outside world edits
manifests and moves branches, and `git ls-remote` answers with the head of that
moment. Between two syncs a clean may be stopped in a slot, which then lacks its
root module (`hollow`) or its `Tyra.toml` (`wrecks`): a sync that needs it fails.
`Entries` and `Locks` are what a walk can hold and a lock can say.
`AcceptsLocked` and `PassesCheck` are `run_sync_locked` and `run_sync_check`,
which read and change nothing; the closure they walk over is `Closure`, the
least set that holds the direct dependencies and, of each tree, its own. The
reference, `Reached` and `Consistent`, is defined on the manifests without a walk.
init, add, update, remove and tree edit or print one manifest and are left out.
The depth limit of 32 is never reached with fewer trees than that, since no tree
is entered twice: an assumption on the constants says so.

### 2.5 Collections

Every operation makes a new map from an old one that stays as it is, so a state
is one collection and a step one operation. `Hamt` is the trie of Map and Set,
the function from the places of its nodes to the nodes: a place is the path of
slots from the root, a hash the sequence of its 5-bit slices, so that the descent
by a hash goes along its prefixes, and the recursion of the code over nodes is a
statement about those. A removal takes the leaf's place away and those of the
branches above that it leaves empty. `LinkedMap` has the array of entries and the
probed index, both with tombstones; a probe is the set of its offsets, and the
first that satisfies what stops it. A set is a map to one value, as two of the
three are in the code. `Collections` has the sorted array with its binary search,
chooses one family at the start and runs it beside the vector the interpreter
keeps for the same program. Keys are distinct and their hashes any of a set,
chosen at the start.

### 2.6 TestRunner

Each thread of a chunk has a file: it compiles the runner, starts the binary once
for each test, drains its two pipes (one here), polls it with `try_wait` until the
deadline, kills it, and writes its lines; the main thread joins a chunk before it
starts the next and then prints. What a test does is its script: how it ends, if it
ends, how much it writes, whether that contains the sentinel of a panic or begins
with `not ok `, and whether it leaves a process that holds the pipes. A test may
also fail to start.
The process, its pipe and the drain are state of their own, between which the
deadline and a failing `try_wait` may come anywhere.

### 2.7 MatchArms, Comparisons

A type is a tree, a value is one of its values, and a match up to three arms with
patterns nested two deep. The checker's verdict (missing constructors, arms never
reached) and the lowering's tests are applied to every value and compared with the
first arm whose pattern fits. `Comparisons` adds declarations: the abilities a
type derives in whatever order the types are declared, the operators `infer_binop`
accepts, what the lowering makes of them, and what the native program and the
interpreter answer, on all values. A behaviour is one match or one operator.

### 2.8 Compiler

A body is a sequence of statements with blocks; `Bodies` is the set of its runs,
every outcome of its conditions, as the language describes them, and below them the
two rewriting passes rule by rule, which look into no tuple literal and rename no
tuple pattern. `TaskAffine` is the pass over handles, `Lowering`
the instructions with the functions inside functions, deferred blocks under flags
and environments of closures, and `Compiler` executes them natively and
interpreted. The lowering context is one record that is handed on, so that what a
nested function does not put back is seen by what comes after it, as in the code.

### 2.9 Formatter

A text is a sequence of pieces, `Lexer` makes tokens, `Parser` a tree with lines,
`Printer` a text from the tree and the comments of the old text, which it finds by
a scanner of its own. `Formatter` is the command on a directory: files in order,
written in place one after the other, a file that does not parse ending it. A
write that fails ends it too: `std::fs::write` empties the file before it writes, so
any part of the new text may be what is left, or none. The variable `torn` names
those files: their text is lost, which the properties except.

### 2.10 MethodCalls

A program is a header (what its function takes, returns, implements, imports and
annotates) and up to `MaxCalls` calls, each on the result of one before it, bound,
passed on or displayed. `MethodCheck` is the checker's typing of it, `MethodLower`
the lowering's tables of what it believes each name to hold, with the chain of
rules that takes a call: the order of the rules decides, as in `call.rs`.

### 2.11 Frontend

`Imports` is where an import finds its file. Whether a package is a program the
code reads off the lines that are not indented, so an item says how its lines look
(`lines`): plain, all indented, or misleading, as a statement `endpoint(x)` that
begins like the word `end` or a variant on a line of its own that begins with `|`.
`Names` is what the names of a file mean, under lexical scoping, and every pass
that decides it: the automatic imports, the two renaming passes by the names they
give, the resolver, the type checker's and the lowering's treatment of calls by
name and through modules. A body is the sequence of the blocks it opens and
closes, the names it binds and those it uses. Of the expressions it has the ones
that a pass does not look into while another does: tuple literals, tuple patterns,
and the `part`s of a statement in which a `?` or `.await` is not looked for.
`Frontend` is one compilation, one action for each pass, the imports loaded one
by one; what reports an error ends it there. `FrontendProofs` is about the
imports.

## 3. Runs

| Run | Question | Bounds | States |
|---|---|---|---|
| `task_pool` | memory, wakeups, results, order of select, refinement of `TaskFutures` | 2 workers, 3 tasks, lists of 2, nested spawns, any handle lost at any time | 1,203,020 |
| `task_progress` | does everything awaited, spawned and selected end? | 1 worker, 3 tasks, lists of 2, one handle lost at any time, no nested spawns | 284,929 |
| `lsp_documents` | do entries hold together, do documents converge, is every edit answered? | 2 documents, 2 handlers at a time, 2 edits, 1 change on disk | 68,092 |
| `pkg_cache` | what can be in the slot, and why does a sync fail? | 2 processes, 3 syncs, 1 clean, 2 kills | 231,956 |
| `pkg_resolve` | is the lock right, and do the three modes agree? | 864 projects of six trees, 2 syncs, 1 event outside | 488,960 |
| `collections` | are the six collections maps and sets, in both engines? | keys -1 to 2, 2 values; hashes of 3 slices, or of two slots of a table of 4 | 70,390 |
| `match_arms` | which arm runs; what derives and what compares? | up to 3 arms, 10 kinds of subject, patterns 2 deep, 3 bits; 6,000 worlds of declarations | 290,889 |
| `test_runner` | are results true, is anything left, does it exit? | up to 3 files, 2 threads, a pipe of 1, 1 failure of spawn or try_wait | 177,320 |
| `compiler` | does a body run as written, and what do the reports mean? | over 7,000 bodies, 4 rounds of loops | 713,031 |
| `formatter` | does a source keep its meaning and its comments? | 1,572 projects, lines of 24, 2 commands, a failed write of any length | 512,474 |
| `method_calls` | does a call become the method that is meant? | 3 calls, 16 types, lists of up to 2 | 499,840 |
| `frontend` | does a name reach what is meant? | 11,687 programs on their disks | 69,182 |

Why the bounds are enough. Three tasks allow a select over two tasks, a task
that awaits one handed to it, a select over a select, and, with one worker, a
task that blocks the one behind it. Two workers are needed for two publishers at
once; a third would do what main does. Two documents and two handlers give every
race of two messages and a watched-files loop over more than one document. Three
syncs let one follow a race of two, and two kills strike both. The six trees of
`pkg_resolve` have both orders of two names, a wrong name, pins and branches of
one repository, and cycles through a library, the project and a checkout. The
hashes of the tables are 3 and 7: equal in a table of four, and both its last
slot so that probes wrap around; different in one of eight; four keys make the
table grow, and removals make it shrink at the next insert. The hashes of the
tries agree on no, one, two or all levels, which gives a collision node at each
depth. Three bits have a least number whose negative overflows. A chunk of two
threads and three files give a second chunk. A pipe of one overflows with the
second write. A match of three arms has an arm between two others, which an arm
before or behind may hide. Bodies nest up to three
blocks, a loop in a loop among them, and all the loops of a run together take up
to four rounds, so that both of two nested loops can come round again. A line of 24 breaks the headers of the
sources and leaves the others. A third call is the first whose receiver is the
result of a result. The state spaces of the passing runs are exhausted.

### What the properties say

*Tasks.* `NoUseAfterFree` and `NoLeak`: a task is allocated as long as, and no
longer than, a handle, a publisher, an await or a dispatcher can reach it; the one
exception is the leak that select's documentation accepts
(`runtime/src/lib.rs:556`), where all that is left is the Arc of a handle that
went out of scope un-awaited.
`NoLostWakeup`: nobody is parked on a task that has published and will not
notify again. `RecvNeverDisconnected`: the `expect` in a dispatcher cannot fire.
`ResultsAreGenuine`, `FuturesSpec`: the runtime is a store of write-once futures.
`WinnerNotListedAfterDone`: how far select keeps its documented order.
`AwaitedHasStarted`, `WorkEnds`: when spawned functions spawn nothing, even one
worker finishes every await, every task and every select.

*Language server.* `EntriesHoldTogether`: text, version and diagnostics of an
entry belong together whatever handlers wrote them. `SerialHandlingConverges`: a
document whose handlers never overlapped ends as the editor has it.
`EditsAreAnswered`: also those that crash the compiler.

*Cache.* `SlotIsTheRev`, `OutcomesAreRight`: without overlap the slot is absent
or right, and a failure has its cause outside, not in what a killed sync left.
`SlotAtRestIsKept`, `SyncEnds`: with overlap too. A sync that overlaps another can
put into the slot what the other's git or removal is still at work in; once they
have ended, no sync touches it.

*Resolver.* `SyncOutcomeIsRight`: a sync succeeds exactly on consistent projects
and locks exactly what they reach, defined without a walk. `LockHonoursAll`: also
when the world changes during the walk. `LockIsJudgedRightly`: --locked and
--check accept a fresh lock, --locked notices every edit of a direct dependency,
and accepts what --check refuses in one case exactly: a clean was stopped in the
slot of a direct dependency and left its `Tyra.toml`, the file --locked looks for.

*Collections.* `StructureIsSound`: the representation, its traversal and its count
agree. `OperationsAreRight`: each operation is that of a finite or ordered map.
`InterpreterAgrees`: the vector of the interpreter holds the same pairs.

*Matches and operators.* `FirstMatchRuns`: the arm that runs is the first that
fits and binds what it names. `VerdictIsRight`: a match is reported as incomplete
only if some value falls through it, and always if its patterns are no deeper
than the checker looks; an arm reported as never reached is not.
`ComparisonsAreRight`: derived abilities do not depend on the order of the
declarations, and accepted operators answer as the language says in both engines,
on the types each engine can see through.

*Tests.* `TapIsRight`: `ok` exactly when a test ended as its name asks for, unless
it writes the runner's own marks, in the order of the files, and the exit code
follows. `NothingIsLeft`: threads run their
own binaries, the shared directory is empty at the end, and no process outlives
its test unless try_wait failed. `CommandExits`.

*Bodies.* `RunsAsWritten`: in both engines a run is one the language describes; what
it leaves out is listed below, name by name in `Odd`: among others names in tuples
whose binder was renamed, and tuple patterns of a name bound twice (`OddTuple`).
`AcceptedAwaitsOnce`: what the affine pass accepts without letting a handle go
awaits none twice. `ReportsAreTrue`: a handle it says is never awaited is not, and
where nothing leaves a block early a rejected body has a run that awaits twice.

*Formatting.* `SourcesKeepTheirMeaning`: the text in a file parses to the tree of
the author's, unless a failed write left a part of it; a refused or a half-written
file harms no other. `CommentsKeepTheirPlace`: a comment stays with the statement
or item it was written for, and none is added, lines excepted whose strings the
formatter's own scanner misreads (`Misread`, section 3 below). `CheckIsRight`:
`--check` passes only if `fmt` would rewrite nothing, and passes after a `fmt` on
files without such lines: formatting twice is formatting once.

*Calls.* `CallsAreRight`: what the checker accepts has a meaning, except what it does
not compare or look at (`Lenient`: keys, labels, the elements of a list after the
first), and the lowering makes that operation of it wherever it can tell what the
operands are.
`BeliefsAreTrue`: the lowering may know nothing of an expression, but is never
wrong about it.

*Names.* `ImportsAreAnswered`: an import is the one file it may be, of a package
that has the right name and is no program, or is reported with its reason. What
the lines of a package do not show is the exception: a program they hide (`Hides`)
is imported, a library they make look like one (`Misleads`) is refused.
`NamesReachWhatIsMeant`: uses and calls are what lexical scoping says, in both
engines, and an editor is offered the name, or the one the renaming passes have
given it. `NameErrorsAreTrue`: an error about a name is true, and an accepted
program has none, save that a return, `?` or `.await` may stand in a block, a
tuple or another part of a statement. The two except, case by case, what `Known`
and `Misread` list: among others names the renaming passes leave under the binder
of another (`Covered`), leave alone in a tuple (`Unchanged`), or let a tuple
overwrite (`Overwritten`).

Where the code does something else, the model names the case in an operator of
its own (`Odd`, `Overrides`, `Forgotten`, `LosesParens`, ...) and the property
excludes just that; the list follows.

### Where code and documents, or two parts of the code, disagree

Found while modelling; each is in the model as the code has it.

*Tasks.* Spawned functions that spawn and await can hold the whole pool, and
tasks behind them never run: the specification's section on tasks (lines
1326-1334) promises progress, the workers block (`runtime/src/lib.rs:505`); hence
`Nesting` FALSE in `task_progress`. A select can report a source that finished
after the call though another was done before it (`lib.rs:547`, a comment, against
613): `WinnerNotListedAfterDone` is what does hold.

*Language server.* Of two overlapping edits the older can stay in the store, not
only briefly (`main.rs:56-58` against 116). For a document whose first text
crashes the compiler, pull diagnostics are empty while E9999 was pushed
(`main.rs:144-146`).

*Package manager.* Two syncs of one dependency share a scratch directory, and one
can move into the cache what the other is cloning, checking out or removing
(`design/0010`, lines 157-159, "a partial write never occurs", against
`tyra-pkg/src/lib.rs:1283`). A git dependency with a path dependency is locked by
sync and then refused by --locked (458-461 against 569). A clean that stops half way can leave a slot that is not empty and has no
`Tyra.toml`; every later sync of it fails (768). One that leaves a `Tyra.toml`
without the root module is accepted by --locked (583) and refused by --check (802,
819) and by sync.

*Bodies.* `and` and `or` do not short-circuit (specification 788-789,
`tyra-mir/src/lower/expr.rs:181-239`), while the affine pass takes the right side
for a branch (`task_affine.rs:716-725`): a handle awaited there is awaited twice.
A loop whose inner loop may break before a return lets one handle be awaited in
every round (`task_affine.rs:392`); after an if whose branches both return, E0321
is reported of code that cannot be reached (513). A return in the callback of a
`for` over a map leaves only the callback. One flag says that a defer in a loop
was reached, however often it was (specification 12.3). The compiler stops on a
defer at top level or in a lambda, on break and continue in a `for` over a map,
on a defer after the first instance of a generic function in its caller, and on a
lambda that captures a `mut` or a pattern's variable. The renaming passes replace
a name below an inner binder of the same name too
(`tyra-frontend/src/lib.rs:764`, 1080), and replace none inside a tuple literal
(886, 1015, 1273), whose elements then have no such name or another's; they rename
no tuple pattern (806), which a second binding of the name then overwrites.

*Matches and operators.* A bare name in an arm is read from a slot nothing stored
to (`match_lower.rs:617-626` against `checker.rs:4113`). Patterns of a tuple are
never tested (`match_lower.rs:60`, specification 11.5), nor is a string literal in
a payload, nor the inner constructor of an `Option` in an `Option`; fields are
bound by position whatever their names (specification 8.5). `==` on types with
variants compares their tags alone in native code if a payload is a struct, and
stops the interpreter; `===` is accepted on what neither engine can compare
(specification 8.6); a single field of type String or Bool makes `<` stop the
compiler or answer the wrong way round; `String < String` is refused although
String has Ord; a value that contains itself is accepted (specification 445).

*Formatter.* It drops parentheses that are needed (`printer.rs:876`), puts blocks
into new brackets or strings where their line breaks end nothing, joins what must
stay apart (238-249), prints a raw string as one in which `#{` begins an
interpolation, and loses the prefix of a qualified type. A comment after the last
statement of a body, among the fields of a type, before a method or on the line
of `when`, `else` or `end` is lost or moved (specification 18.4,
`tyra-fmt/src/lib.rs:11`). Its search for comments leaves a string at the first
quote, also at one inside an interpolation: of `"#{f("#")}"` it takes `#")}"` for a
comment and adds it after the statement, again at every run, where `printer.rs:19`
says that strings are handled. It takes the backslash
at the end of a raw string to escape the quote, and loses the comment that follows.
A write that fails loses the file (`tyra-cli/src/main.rs:555`).

*Calls.* Keys of `Map.get` and indexes of `List.get` have any type; `list.push`
takes what is not a list; `list.contains` on strings and Bools is compiled as on
Ints; extra and labelled arguments of methods are not checked; a method of an impl
that is called like one of a collection takes the other's calls; the result of
`remove` has lost its type when a method is called on it; a `LinkedMap.from`
without annotation is one from String to Int. Of the elements of a list only the
first is looked at (`checker.rs:1565`; its own note is at 3466), and of the pairs of
`LinkedMap.from`: `[1, "a"]`, `[1, 2.trim()]` and `LinkedMap.from([(1, "a"), ("b", 2)])`
are accepted and mean nothing. A list of strings in an interpolated
`list.get` is displayed as numbers. String methods the code describes
(`lower/call.rs:2435`) are refused by the checker.

*Names.* A private function of a module that its exported ones call by its bare
name is not merged, and the modules a module imports are not loaded. `fn main` and
statements of a module are dropped (specification 6.1). Automatic imports are not
harmless to a program that has the name for something else
(`tyra-frontend/src/lib.rs:418-423`). `sys.env` is documented (`CHANGELOG.md:38`)
and refused. An alias of `core.sys`, a local called like an import, and a module
without exported functions are accepted by the checker and given up by the
lowering with E0204. A function the user calls `sys__exit` is called when main
fails. Whether a package is a program is read off the beginnings of its lines
(`detect.rs:21-63`), wrongly both ways. A library with `test`, `bench`, `async fn`,
`| Variant` or `)` at the start of a line is refused. A program whose statements
are indented, or begin as `endpoint(x)` does, is imported without an error, its
statements dropped, though `detect.rs:9` and 19 say that compiling the import
catches it: that check asks the same function (`tyra-driver/src/lib.rs:538`). A
name in a tuple literal asks for no automatic import and is not renamed
(`tyra-frontend/src/lib.rs:544`, 886, 1015, 1273), so `match o when Some(v) (v, 1)
end` is refused for an unknown name; a `let` inside a tuple overwrites the variable
of that name outside. The renaming passes put the name of an outer binder under
the parameter of a lambda or a tuple pattern that has the same name. An editor is
offered `f__p1` and `f__l1` for a name that was renamed (`completion.rs:162`). A
`?` or `.await` at top level is accepted in the subject of a match, a list, a
tuple, an interpolation or the head of a loop (`resolver.rs:376-425`; rules 3 and 4
of ADR 0006). A function bound by a pattern cannot be called. A program that stands
in the standard library it uses, or depends on it, has each of its modules found
twice and is refused with E0217 (`CountedTwice`).

*Tests.* A test that ends the process with 0 passes, whatever it was to assert; one
that returns `Ok` fails if its output begins with `not ok ` (`main.rs:2161`); one
that writes the sentinel to standard error and exits with 101 passes for a panic
(2129). A process that a test leaves behind and that keeps the pipes open holds the runner
for ever, since the drains are joined without a deadline.

*Engines.* The interpreter changes a collection in place that another variable
holds too; the runtime never does. Dividing the least number by -1 stops the one
and is undefined in the other. The length of a string counts characters in one
and bytes in the other.

## 4. Fairness

*Tasks.* Weak fairness of every thread of the runtime (`ThreadStep`, `PoolStep`)
and of main inside an await: they are operating system threads, and std's mutex
and condition variable let a thread that can go on do so. Weak is enough: every
critical section but publishing is one step, so a mutex is only ever held by a
thread that is itself fair, and std's mutex does not starve the thread that
waits for it. `ThreadStep` includes the return of a spawned function: one that
never returns is its program's own doing. Nothing is assumed of what the program
does next: main may stop calling. Spurious wakeups are not fair and need not
stop.

*Language server.* The executor polls handlers that are ready, the compiler
terminates on each text or panics. The editor owes nothing.

*Cache.* A process that is not killed goes on, and git commands end.

*Test runner.* The threads go on, so do the drains of pipes, the processes of
tests, and the clock: a deadline comes. Spawn and `try_wait` need not fail. `CommandExits`
excepts what the code cannot help: a test that hangs without a deadline, a process
that a test left behind, and a failure of `try_wait`.

The other runs ask only what is never true, and need no fairness.

## 5. Proofs

For every value of the constants that satisfies the named assumptions of its
module, and nothing else:

| Module | Theorem | Statement |
|---|---|---|
| `TaskRuntimeProofs` | `Invariance` | `Spec => []IInv` |
| | `TypeCorrect` | `Spec => []TypeOK` |
| | `WakeupsAreKept` | `Spec => []NoLostWakeup` |
| | `MemorySafe`, `MemoryReleased` | `Spec => []NoUseAfterFree`, `Spec => []NoLeak` |
| | `DispatcherIsHeard` | `Spec => []RecvNeverDisconnected` |
| | `AwaitsLookBack` | `Spec => []AwaitedHasStarted` |
| | `GenuineResults` | `Spec => []ResultsAreGenuine` |
| | `ImplementsFutures` | `Spec => FuturesSpec`, the refinement of `TaskFutures` |
| | `SelectInListOrder` | `OrderSpec => []WinnerNotListedAfterDone` |
| `LspDocumentsProofs` | `Invariance` | `Spec => []IInv` |
| | `EntriesHold` | `Spec => []EntriesHoldTogether` |
| | `SerialConverges` | `Spec => []SerialHandlingConverges` |
| `PkgCacheProofs` | `Invariance` | `Spec => []IInv` |
| | `SlotHoldsTheRev` | `Spec => []SlotIsTheRev` |
| | `SyncsTellTheTruth` | `Spec => []OutcomesAreRight` |
| | `SlotIsKept` | `Spec => SlotAtRestIsKept`, an action property |
| `CollectionsProofs` | `Invariance` | `Spec => []IInv` |
| | `StructureSound` | `Spec => []StructureIsSound` |
| | `InterpreterIsNative` | `Spec => []InterpreterAgrees` |
| | `OperationsRight` | `Spec => OperationsAreRight`, the steps of `FiniteMap` and `OrderedMap` |
| `PkgResolveProofs` | `Invariance` | `Spec => []IInv` |
| | `SyncsAreRight` | `Spec => []SyncOutcomeIsRight` |
| | `LocksHonourAll` | `Spec => []LockHonoursAll` |
| | `JudgesAreRight` | `Spec => []LockIsJudgedRightly` |
| `TestRunnerProofs` | `Invariance` | `Spec => []IInv` |
| | `ReportIsTrue` | `Spec => []TapIsRight` |
| | `TracesAreRemoved` | `Spec => []NothingIsLeft` |
| `FrontendProofs` | `Invariance` | `Spec => []IInv` |
| | `EveryImportIsAnswered` | `Spec => []ImportsAreAnswered` |

None of the properties is inductive alone. The arguments:

*Tasks.* `IInv` is `TypeOK` and `NoLostWakeup` with

- `Control`: what each place in the code says of a task, its result and its list;
  a task is Done exactly from `send` on, and a select is never where a thunk is;
- `Channel`: the channel holds the queued tasks, oldest first, each once;
- `Handles`: a handle is its owner's, or in one place of one await list, or gone;
- `Arcs`: which Arcs exist, exactly: the handle's until an await has taken it (for
  ever, if the handle is lost), the publisher's until its loop body ends, one per
  dispatcher and source. Memory safety and the absence of other leaks are the two
  sides of this equivalence;
- `Subscribed`: a dispatcher with no message is subscribed to every source it has
  passed, which is why its channel cannot be disconnected;
- `Order`: without nested spawns a task awaits only older spawned tasks, and
  whatever is queued is younger than all that have begun. Hence an awaited task
  is never behind its awaiter in the channel.

Each part has a lemma that every action keeps it, given the parts before it; a
last lemma puts them together. `Arcs` is the long one: most actions leave both
sides alone (`Quiet`), and the others are taken one by one. On top of `IInv`,
`Genuine` says that what a dispatcher has been sent or has picked is the result
of a source that is Done, and that a task's result is not written twice; it gives
the results and, action by action, the step of `TaskFutures` that each step is:
a creation, a resolution, a delivery, or a stutter. `ListedFirst` says that a
dispatcher has passed no source that was Done at the call.

*Language server.* `IInv` is the type with `MailIsRight`, what the queue holds and
in which order; `HandlerIsRight`, what a handler at each label has read and what
it compiled; and `EntryIsRight`, what an entry can be. `EntriesHoldTogether`
follows. For convergence, `OneInFlight` and, for each document that never raced,
`Serial`: the latest message about it carries what the editor shows, the handlers
before it have ended, and what the one at work will write is that (`Settled`,
`OnTrack`, `Current`, by how far it is).

*Cache.* `IInv` is the type with `OneWorks`, `CleansAreCounted` and `Alone`. While
no two processes have overlapped, `Alone` says what the one at work can find in
the scratch directory and the slot at each of its labels, whatever killed syncs
left behind. With overlap nothing of it is left, and `SlotIsKept` needs only that
a rename onto a slot with a manifest fails and that git and removals open the
scratch directory, never the slot.

*Resolver.* `IInv` is the type with `WalkInv`, `EndInv`, `LockInv` and `Apart`, that
a slot a clean was stopped in is not one of the whole ones. `WalkInv`:
what is resolved matches what was asked for; and while nobody edits, each
dependency of a manifest that was entered is seen, or still on the stack
(`Covered`), frames are of entered trees, and the stack is a live path. At the end
the stack is empty, so the entered trees are closed under dependencies: being the
least closed set, `Reached` is what was entered, and its edges are what was seen.
Therefore the walk ends well exactly when the project is consistent. Both judges
of a lock walk a closure too; that it is the least closed set is what compares
them with each other and with the walk.

*Collections.* `IInv` relates the family's representation to the interpreter's
vector, which is a list of entries with a key once (`Apart`), and says that the
representation is one the operations keep. For any keys, hash functions, number
of slices and capacity of the smallest table:

- `TrieOK`, of a trie: above every node are branches up to the root, every branch
  has something below it, and a leaf or a collision node (`TipOK`) stands on a
  prefix of the one hash its entries have. Hence the descent by a hash ends at
  the only node that can have it (`BottomIs`), and a lookup is one in that node's
  list (`LookupCases`). `TrieInserted` and `TrieRemoved` say of each way an
  operation can go (a new leaf, a joined, merged, shrunk or pruned node) that it
  keeps `TrieOK` and changes the answer for one key. Two nodes with entries part
  at some slot (`TipsPart`), so the places are in order and for_each visits each
  entry once (`ForEachIs`).
- `TableOK`, of a linked map: the live entries are the vector; the index points at
  each from a slot its probe gets to (`Reached`); and no more than half of it is
  used, which is why a probe ends, and why `build_index` finds a slot for each
  entry in turn (`FillStepIs`). A removed slot stays in use, so it never cuts off
  another probe (`TableRemoved`).
- Of a sorted map, that its array is the vector and ascends. `Searching` is the
  invariant of the halving: below `lo` are smaller keys, from `hi` on larger ones,
  and every round narrows the gap; where it ends is where `partition_point` counts
  to (`PlaceIs`).

The recursive functions (`NextPow2`, `BuildIndex`, `BinarySearch`) exist up to any
number by induction over a set of numbers, as for *Frontend* below. What a step
does to the abstract map then follows from what it does to the vector alone.

*Test runner.* `IInv` says, for each thread at each label, what it has reported
(`ReportIsRight`), what the child it is at will have done (`TestIsRight`), which
files on disk are its own (`DiskIsRight`, with the counter that numbers them:
`IdsAreFresh`), and how far the main thread has joined (`MainIsRight`).

*Frontend.* While imports are loaded, `LoadInv`: what is merged is what files
export, and each import of a file is still in the queue, or answered and merged,
unless something has been reported. Afterwards `LaterInv`: all of them are
answered, nothing has been reported, and the unit has gained exactly these
functions. `Reported` says that an error at the place of an import has its
reason; no later pass reports at such a place. The lemmas below it are of two
kinds. One is about `Resolution`: the three layers are finite and are what is
within reach, two of them share a file only where `CountedTwice` says so, hence
the number of candidates tells the cases apart. The other is about the recursive
functions along a sequence (`Picked`, `FlattenSeq`, `TopLevel`, `References`):
that such a function exists up to any place, and what it holds there, is an
induction over the set of places where this is so (`SetInduction`, from `WFMin`
of `WellFoundedInduction`), which needs no operator as a parameter.
That the renaming passes keep the items, their kinds and their places is all that
is used of them (`RenamingIs`). `WorldsAssumption` asks that a disk holds files and
finitely many dependencies, that an item's lines look one of three ways, and that
no import has its place in the source in common with anything else.

What stays with TLC. Liveness and everything that needs ENABLED: `WorkEnds`,
`EditsAreAnswered`, `SyncEnds`, `CommandExits`. What is said of a recursive
operator: `Bodies`, `Comparisons`, `Formatter`, `Lexer`, `Lowering`,
`MatchArms`, `MethodCheck`, `MethodLower`, `MethodCalls`, `Parser`,
`Printer`, `TaskAffine`, and what is built on them, `Compiler`: these
are recursions over trees, and the prover does not reason about a module that
declares one. `NamesReachWhatIsMeant` and `NameErrorsAreTrue` of `Frontend`: they compare
the scopes of five passes over every body, place by place, and need an invariant
of each of these walks.

## 6. Not modelled

`PROJECT.json` gives the reason for each part. In short: what the collector scans
is a property of a library that is not in this code, so a model would assume what
it is to show; the HTTP server is one loop on one thread; conversions, diagnostics,
and single calls of the operating system are sequential and easy to test; traits
and generic functions, and the instructions that allocate, are data too rich for
bounded instances to say much; linking is one call of clang. Of names, calls with
explicit type arguments are left out, which some of the passes do not look at.

## 7. Plan

Done, in this order: the task runtime, as the part where a mistake corrupts
memory; the package manager and the language server, as the parts with crashes and
interleavings; the collections; the test runner; then the compiler, by the
agreements its passes rely on: handles and control, matches and operators,
formatting, calls, names. Proved so far: all safety properties of the task
runtime, the language server, the cache, the resolver, the collections and the
test runner, the refinement of `TaskFutures`, that every operation on a collection
is one of `FiniteMap` or `OrderedMap`, and what becomes of the imports of a
compilation.

Next:

1. `NameErrorsAreTrue` of `Frontend`, whose modules declare no recursive operator;
   the lemmas of `FrontendProofs` about its recursive functions are a beginning.
2. `MatchArms`, whose patterns could be functions from places, as the nodes of
   `Hamt` are, so that their recursion is one the prover can see through.
3. Traits and generic functions, as far as they decide which function a call is.
