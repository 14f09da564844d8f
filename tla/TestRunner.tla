----------------------------- MODULE TestRunner -----------------------------
(***************************************************************************)
(* `tyra test`: the files are taken in chunks of Jobs, a thread for each   *)
(* (tyra-cli/src/main.rs, run_test_files_parallel, run_test_file_core); a  *)
(* thread compiles a runner from its file and starts the binary once for   *)
(* every test, under a deadline (tyra-driver/src/lib.rs, run_binary).      *)
(*                                                                         *)
(* The two pipes of a test process, each with a thread that drains it, are *)
(* one here.  What a test will do is its script: how it ends, if it ends,  *)
(* how much it writes, what of it looks like the runner's own marks, and   *)
(* whether it leaves a process behind that holds the pipes.                *)
(***************************************************************************)
EXTENDS Naturals, Sequences

CONSTANTS
  Suites,     \* sequences of files: [kind, tests]
  Jobs,       \* --jobs
  PipeSize,   \* what a pipe holds
  MaxFiles,   \* bound: files of a suite
  MaxFaults,  \* bound: failures of spawn and of try_wait
  None        \* no exit code, no result

Kinds == {"unreadable", "empty", "uncompilable", "tests"}

\* A test returns Ok or Err, panics, reads out of bounds, calls sys.exit, is
\* killed by a signal, or goes on.
Ends  == {"ok", "err", "panic", "bounds", "exit 0", "exit 1", "exit 101", "signal", "never"}
Codes == {"0", "1", "101", "102"}
ExitCode(end) ==
  CASE end \in {"ok", "exit 0"}      -> "0"
    [] end \in {"err", "exit 1"}     -> "1"
    [] end \in {"panic", "exit 101"} -> "101"
    [] end = "bounds"                -> "102"
    [] OTHER                         -> None

\* By itself, a test may start its standard output with "not ok ", or write the
\* line to standard error that a panic leaves there.
Scripts == [panics : BOOLEAN,                         \* it is named test_panics_*
            ends   : Ends,
            says   : {"nothing", "not ok", "sentinel"},
            writes : Nat,
            leaves : BOOLEAN]

ASSUME JobsAssumption == Jobs \in Nat \ {0}
ASSUME SuitesAssumption ==
  \A s \in Suites : Len(s) <= MaxFiles /\ s \in Seq([kind : Kinds, tests : Seq(Scripts)])
ASSUME NoneAssumption == None \notin Codes

VARIABLES
  suite,     \* the test files, in the order they were found
  timeout,   \* --timeout was given
  main,      \* "chunk", "join" or "exited"
  results,   \* what the joined threads returned, in order
  exit,      \* the exit code of tyra test, or None
  thread,    \* file -> where its thread is
  test,      \* file -> the test it is at
  out,       \* file -> the TAP lines of its thread
  nextId,    \* RUN_COUNTER
  ids,       \* file -> the numbers of its runner and its binary
  disk,      \* runners and binaries: [kind, id, of]
  child,     \* file -> the process of its test: [st, writes]
  keeper,    \* file -> a process the test left behind holds the pipe
  pipe,      \* file -> how much is in the pipe
  drained,   \* file -> the drain thread has seen the end of the pipe
  late,      \* file -> the deadline of the test has passed
  code,      \* file -> [exit, timedOut] of the test
  fault,     \* history: how often try_wait failed
  refused    \* history: how often a spawn failed

files == <<thread, test, out, nextId, ids, disk>>
procs == <<child, keeper, pipe, drained, late, code, fault, refused>>
vars  == <<suite, timeout, main, results, exit, files, procs>>

Files     == DOMAIN suite
Tests(f)  == suite[f].tests
Script(f) == Tests(f)[test[f]]

Outcome(e, t) == [exit |-> e, timedOut |-> t]
NoChild == [st |-> "none", writes |-> 0]

Init == /\ suite \in Suites /\ timeout \in BOOLEAN
        /\ main = "chunk" /\ results = <<>> /\ exit = None
        /\ thread  = [f \in Files |-> "none"]
        /\ test    = [f \in Files |-> 0]
        /\ out     = [f \in Files |-> <<>>]
        /\ nextId  = 0
        /\ ids     = [f \in Files |-> <<>>]
        /\ disk    = {}
        /\ child   = [f \in Files |-> NoChild]
        /\ keeper  = [f \in Files |-> FALSE]
        /\ pipe    = [f \in Files |-> 0]
        /\ drained = [f \in Files |-> FALSE]
        /\ late    = [f \in Files |-> FALSE]
        /\ code    = [f \in Files |-> Outcome(None, FALSE)]
        /\ fault   = 0
        /\ refused = 0

-----------------------------------------------------------------------------
(* The main thread.                                                        *)

Chunk(n) == {f \in Files : f > n /\ f <= n + Jobs}

SpawnChunk == /\ main = "chunk" /\ Len(results) < Len(suite)
              /\ thread' = [f \in Files |-> IF f \in Chunk(Len(results)) THEN "read" ELSE thread[f]]
              /\ main' = "join"
              /\ UNCHANGED <<suite, timeout, results, exit, test, out, nextId, ids, disk, procs>>

\* Handles are joined in the order of the files, whoever is done first.
JoinNext_First == {f \in Files : thread[f] = "done" /\ \A i \in DOMAIN results : results[i].file # f}
JoinNext       == {f \in Files : thread[f] = "done" /\ f = Len(results) + 1}

JoinThread == /\ main = "join"
              /\ \E f \in JoinNext :
                   results' = Append(results, [file |-> f, tap |-> out[f]])
              /\ main' = IF \A f \in Files : thread[f] = "none" \/ f <= Len(results') THEN "chunk" ELSE "join"
              /\ UNCHANGED <<suite, timeout, exit, files, procs>>

Failures(r) == {i \in DOMAIN r.tap : ~ r.tap[i].ok}

Report == /\ main = "chunk" /\ Len(results) = Len(suite)
          /\ exit' = IF \E i \in DOMAIN results : Failures(results[i]) # {} THEN "1" ELSE "0"
          /\ main' = "exited"
          /\ UNCHANGED <<suite, timeout, results, files, procs>>

-----------------------------------------------------------------------------
(* The thread of a file.                                                   *)

Line(n, ok, why) == [test |-> n, ok |-> ok, why |-> why]

At(f, from, to) == thread[f] = from /\ thread' = [thread EXCEPT ![f] = to]

\* An unreadable file, or one the checker rejects, counts as a failure.
ReadFile(f) ==
  /\ thread[f] = "read"
  /\ IF suite[f].kind \in {"unreadable", "empty"}
     THEN /\ At(f, "read", "done")
          /\ out' = [out EXCEPT ![f] = IF suite[f].kind = "empty" THEN <<>> ELSE <<Line(0, FALSE, "file")>>]
          /\ UNCHANGED <<nextId, ids, disk>>
     ELSE /\ At(f, "read", "compile")
          /\ nextId' = nextId + 1
          /\ ids'    = [ids EXCEPT ![f] = <<nextId>>]
          /\ disk'   = {d \in disk : ~ (d.kind = "runner" /\ d.id = nextId)}
                         \cup {[kind |-> "runner", id |-> nextId, of |-> f]}
          /\ UNCHANGED out
  /\ UNCHANGED <<suite, timeout, main, results, exit, test, procs>>

\* fetch_add
Taken_ReadOnly == nextId
Taken          == nextId + 1

Compile(f) ==
  /\ At(f, "compile", "clean")
  /\ nextId' = Taken
  /\ ids' = [ids EXCEPT ![f] = Append(@, nextId)]
  /\ disk' = {d \in disk : ~ (d.kind = "binary" /\ d.id = nextId /\ suite[f].kind = "tests")}
               \cup {[kind |-> "binary", id |-> nextId, of |-> d.of] :
                       d \in {e \in disk : /\ e.kind = "runner" /\ e.id = ids[f][1]
                                           /\ suite[e.of].kind = "tests"}}
  /\ UNCHANGED <<suite, timeout, main, results, exit, test, out, procs>>

Clean(f) ==
  /\ thread[f] = "clean"
  /\ disk' = {d \in disk : ~ (d.kind = "runner" /\ d.id = ids[f][1])}
  /\ IF suite[f].kind = "tests"
     THEN At(f, "clean", "next") /\ UNCHANGED out
     ELSE At(f, "clean", "done") /\ out' = [out EXCEPT ![f] = <<Line(0, FALSE, "compile error")>>]
  /\ UNCHANGED <<suite, timeout, main, results, exit, test, nextId, ids, procs>>

BinaryOf(f) == {d.of : d \in {e \in disk : e.kind = "binary" /\ e.id = ids[f][2]}}

\* run_binary: spawn, with the drain threads.
StartTest(f) ==
  /\ thread[f] = "next" /\ test[f] < Len(Tests(f))
  /\ At(f, "next", "wait")
  /\ test'    = [test EXCEPT ![f] = @ + 1]
  /\ child'   = [child EXCEPT ![f] = [st |-> "running", writes |-> Tests(f)[test[f] + 1].writes]]
  /\ keeper'  = [keeper EXCEPT ![f] = Tests(f)[test[f] + 1].leaves]
  /\ pipe'    = [pipe EXCEPT ![f] = 0]
  /\ drained' = [drained EXCEPT ![f] = FALSE]
  /\ late'    = [late EXCEPT ![f] = FALSE]
  /\ UNCHANGED <<suite, timeout, main, results, exit, out, nextId, ids, disk, code, fault, refused>>

\* No process, no pipes to wait for, no exit code.
SpawnFails(f) ==
  /\ thread[f] = "next" /\ test[f] < Len(Tests(f)) /\ fault + refused < MaxFaults
  /\ At(f, "next", "join")
  /\ test'    = [test EXCEPT ![f] = @ + 1]
  /\ code'    = [code EXCEPT ![f] = Outcome(None, FALSE)]
  /\ child'   = [child EXCEPT ![f] = NoChild]
  /\ keeper'  = [keeper EXCEPT ![f] = FALSE]
  /\ pipe'    = [pipe EXCEPT ![f] = 0]
  /\ drained' = [drained EXCEPT ![f] = TRUE]
  /\ refused' = refused + 1
  /\ UNCHANGED <<suite, timeout, main, results, exit, out, nextId, ids, disk, late, fault>>

Waited(f, outcome) == /\ At(f, "wait", "join")
                      /\ code' = [code EXCEPT ![f] = outcome]
                      /\ UNCHANGED <<suite, timeout, main, results, exit, test, out, nextId, ids, disk,
                                     keeper, pipe, drained, late, refused>>

\* try_wait, or wait when there is no deadline.
Reap(f) == /\ child[f].st = "zombie"
           /\ Waited(f, Outcome(ExitCode(Script(f).ends), FALSE))
           /\ child' = [child EXCEPT ![f].st = "reaped"]
           /\ UNCHANGED fault

\* At the deadline the process is killed and waited for.
AfterKill_NoWait == "zombie"
AfterKill        == "reaped"

SeeLate(f) == /\ late[f] /\ child[f].st = "running"
              /\ At(f, "wait", "kill")
              /\ UNCHANGED <<suite, timeout, main, results, exit, test, out, nextId, ids, disk, procs>>

Kill(f) == /\ At(f, "kill", "join")
           /\ code'  = [code EXCEPT ![f] = Outcome(None, TRUE)]
           /\ child' = [child EXCEPT ![f].st = AfterKill]
           /\ UNCHANGED <<suite, timeout, main, results, exit, test, out, nextId, ids, disk,
                          keeper, pipe, drained, late, fault, refused>>

\* The child is neither killed nor waited for.
TryWaitFails(f) == /\ timeout /\ fault + refused < MaxFaults
                   /\ Waited(f, Outcome(None, FALSE))
                   /\ fault' = fault + 1
                   /\ UNCHANGED child

\* What the outcome of a run makes of the test, and what it wrote: a panic is the
\* exit code and the sentinel on standard error; a test that is not to panic must
\* not have said "not ok " either.
Sentinel(s) == s.ends = "panic" \/ s.says = "sentinel"

Accepted_ExitOnly(s, o) == o.exit = IF s.panics THEN "101" ELSE "0"
Accepted(s, o) == IF s.panics THEN o.exit = "101" /\ Sentinel(s)
                              ELSE o.exit = "0" /\ s.says # "not ok"
Verdict(s, o)  == IF o.timedOut THEN Line(0, FALSE, "timeout") ELSE Line(0, Accepted(s, o), "exit")

\* The drain threads are joined, however long that takes.
JoinDrains(f) ==
  /\ drained[f] /\ At(f, "join", "next")
  /\ out' = [out EXCEPT ![f] = Append(@, [Verdict(Script(f), code[f]) EXCEPT !.test = test[f]])]
  /\ code' = [code EXCEPT ![f] = Outcome(None, FALSE)]
  /\ UNCHANGED <<suite, timeout, main, results, exit, test, nextId, ids, disk,
                 child, keeper, pipe, drained, late, fault, refused>>

\* The guard removes the binary.
FinishFile(f) ==
  /\ test[f] = Len(Tests(f)) /\ At(f, "next", "done")
  /\ disk' = {d \in disk : ~ (d.kind = "binary" /\ d.id = ids[f][2])}
  /\ UNCHANGED <<suite, timeout, main, results, exit, test, out, nextId, ids, procs>>

Thread(f) == \/ ReadFile(f) \/ Compile(f) \/ Clean(f) \/ StartTest(f) \/ Reap(f) \/ SeeLate(f) \/ Kill(f)
             \/ JoinDrains(f) \/ FinishFile(f)

-----------------------------------------------------------------------------
(* The test process, the drain thread, the clock.                          *)

OnlyProc == UNCHANGED <<suite, timeout, main, results, exit, files, keeper, code, fault, refused>>

Write(f) == /\ child[f].st = "running" /\ child[f].writes > 0 /\ pipe[f] < PipeSize
            /\ child' = [child EXCEPT ![f].writes = @ - 1]
            /\ pipe'  = [pipe EXCEPT ![f] = @ + 1]
            /\ UNCHANGED <<drained, late>> /\ OnlyProc

Exit(f) == /\ child[f].st = "running" /\ child[f].writes = 0 /\ Script(f).ends # "never"
           /\ child' = [child EXCEPT ![f].st = "zombie"]
           /\ UNCHANGED <<pipe, drained, late>> /\ OnlyProc

DrainsWhen_Joined(f) == thread[f] = "join"
DrainsWhen(f)        == thread[f] \in {"wait", "kill", "join"}

Drain(f) == /\ DrainsWhen(f) /\ ~ drained[f]
            /\ IF pipe[f] > 0
               THEN pipe' = [pipe EXCEPT ![f] = @ - 1] /\ UNCHANGED drained
               ELSE /\ child[f].st # "running" /\ ~ keeper[f]
                    /\ drained' = [drained EXCEPT ![f] = TRUE] /\ UNCHANGED pipe
            /\ UNCHANGED <<child, late>> /\ OnlyProc

DeadlinePasses(f) == /\ timeout /\ thread[f] = "wait" /\ ~ late[f]
                     /\ late' = [late EXCEPT ![f] = TRUE]
                     /\ UNCHANGED <<child, pipe, drained>> /\ OnlyProc

Process(f) == Write(f) \/ Exit(f)

Next == \/ SpawnChunk \/ JoinThread \/ Report
        \/ \E f \in Files : \/ Thread(f) \/ Process(f) \/ Drain(f) \/ DeadlinePasses(f)
                            \/ SpawnFails(f) \/ TryWaitFails(f)

\* Threads, processes and the clock go on; spawn and try_wait need not fail.
Fairness == /\ WF_vars(SpawnChunk) /\ WF_vars(JoinThread) /\ WF_vars(Report)
            /\ \A f \in 1 .. MaxFiles : /\ WF_vars(f \in Files /\ Thread(f))
                                        /\ WF_vars(f \in Files /\ Process(f))
                                        /\ WF_vars(f \in Files /\ Drain(f))
                                        /\ WF_vars(f \in Files /\ DeadlinePasses(f))

Spec == Init /\ [][Next]_vars /\ Fairness

-----------------------------------------------------------------------------
(* Properties.                                                             *)

\* ADR-0012: a test_panics_ test must panic, and calling sys.exit(101) is not
\* that; any other must end with exit code 0.
Passes(s) == IF s.panics THEN s.ends = "panic" ELSE s.ends \in {"ok", "exit 0"}

\* A test that writes the runner's marks itself: it can pass for one that
\* panicked, or fail although it ended well.
Feigns(s) == IF s.panics THEN s.ends = "exit 101" /\ s.says = "sentinel" ELSE s.says = "not ok"

\* A TAP line says ok exactly when its test ended the way its name asks for,
\* tests are reported once each and in order, and a test is blamed for time only
\* when there is a deadline (run_test_file_core); a test that writes the runner's
\* marks itself may be misjudged, and one that cannot be started or waited for is
\* not ok.  Whatever thread is done first,
\* the results are those of the files in their order, all of them when the
\* command exits, and the exit code is 1 exactly when something failed, a file
\* that was not run included (ADR-0008).
Reported(f) ==
  /\ Len(out[f]) = IF thread[f] \in {"wait", "kill", "join"} THEN test[f] - 1 ELSE test[f]
  /\ \A n \in DOMAIN out[f] :
       /\ out[f][n].test = n
       /\ out[f][n].ok => Passes(Tests(f)[n]) \/ Feigns(Tests(f)[n])
       /\ Passes(Tests(f)[n]) => \/ out[f][n].ok \/ out[f][n].why = "timeout" \/ Feigns(Tests(f)[n])
                                 \/ fault > 0 \/ refused > 0
       /\ out[f][n].why = "timeout" => timeout

TapIsRight ==
  /\ \A f \in Files : suite[f].kind = "tests" => Reported(f)
  /\ \A i \in DOMAIN results : results[i].file = i /\ results[i].tap = out[i]
  /\ exit # None =>
       /\ Len(results) = Len(suite)
       /\ exit = "0" <=> \A f \in Files : \/ suite[f].kind = "empty"
                                          \/ suite[f].kind = "tests" /\ Failures(results[f]) = {}

\* A thread runs the binary built of its own file, although all of them write
\* runners and binaries to directories they share, and nothing of them is left
\* when the command exits (RUN_COUNTER, TempBinary).  No test process is left,
\* running or unreaped, when the next test starts or the command exits, but after
\* a failure of try_wait (run_binary kills and waits).
NothingIsLeft ==
  /\ \A f \in Files : thread[f] \in {"next", "wait", "kill", "join"} => BinaryOf(f) = {f}
  /\ main = "exited" => disk = {}
  /\ \A f \in Files : thread[f] \in {"join", "next", "done"} /\ fault = 0
                        => child[f].st \in {"none", "reaped"}

Hangs(s)  == s.ends = "never"
Some(P(_)) == \E f \in Files : \E t \in DOMAIN Tests(f) : P(Tests(f)[t])

\* The command exits, if every test ends or there is a deadline, although pipes
\* fill and threads wait for them; a process that a test left behind, or a failure
\* of try_wait, may keep it for ever: the drain threads are joined without a
\* deadline.
CommandExits ==
  <>(\/ main = "exited"
     \/ ~ timeout /\ Some(Hangs)
     \/ Some(LAMBDA s : s.leaves)
     \/ fault > 0)
==============================================================================
