-------------------------- MODULE TestRunnerProofs --------------------------
(***************************************************************************)
(* Proofs about the test runner, for any suites, number of jobs, size of   *)
(* a pipe and number of failures of spawn and of try_wait.                 *)
(***************************************************************************)
EXTENDS TestRunner, SequenceTheorems, TLAPS

Labels    == {"none", "read", "compile", "clean", "next", "wait", "kill", "join", "done"}
Sources   == [kind : Kinds, tests : Seq(Scripts)]
Lines     == [test : Nat, ok : BOOLEAN, why : {"file", "compile error", "timeout", "exit"}]
Children  == [st : {"none", "running", "zombie", "reaped"}, writes : Nat]
Outcomes  == [exit : Codes \cup {None}, timedOut : BOOLEAN]

TypeInv ==
  /\ suite   \in Seq(Sources)
  /\ timeout \in BOOLEAN
  /\ main    \in {"chunk", "join", "exited"}
  /\ results \in Seq([file : Files, tap : Seq(Lines)])
  /\ exit    \in {"0", "1", None}
  /\ thread  \in [Files -> Labels]
  /\ test    \in [Files -> Nat]
  /\ out     \in [Files -> Seq(Lines)]
  /\ nextId  \in Nat
  /\ ids     \in [Files -> Seq(Nat)]
  /\ child   \in [Files -> Children]
  /\ late    \in [Files -> BOOLEAN]
  /\ code    \in [Files -> Outcomes]
  /\ fault   \in Nat
  /\ refused \in Nat

Testing == {"next", "wait", "kill", "join"}

\* What the thread of a file has done at each label.
ThreadIsRight(f) ==
  /\ thread[f] \in {"none", "read"} => ids[f] = <<>>
  /\ thread[f] \in {"none", "read", "compile", "clean"} => out[f] = <<>> /\ test[f] = 0
  /\ thread[f] = "compile" => Len(ids[f]) = 1
  /\ thread[f] \in Testing \cup {"clean"} => Len(ids[f]) = 2
  /\ thread[f] \in {"compile", "clean"} => suite[f].kind \in {"uncompilable", "tests"}
  /\ thread[f] \in Testing => suite[f].kind = "tests"
  /\ thread[f] \in {"wait", "kill", "join"} => test[f] \in DOMAIN Tests(f)

\* What a file that is not run leaves in its report.
ReportIsRight(f) ==
  /\ suite[f].kind = "empty" => out[f] = <<>>
  /\ suite[f].kind \in {"unreadable", "uncompilable"} /\ thread[f] = "done" =>
       1 \in DOMAIN out[f] /\ ~out[f][1].ok
  /\ suite[f].kind = "tests" => Reported(f)

\* A test whose pipes are joined has an outcome, and only a failure of try_wait
\* leaves its process behind.
TestIsRight(f) ==
  /\ late[f] \/ thread[f] = "kill" => timeout
  /\ thread[f] = "join" => \/ code[f] = Outcome(ExitCode(Script(f).ends), FALSE)
                           \/ code[f] = Outcome(None, TRUE) /\ timeout
                           \/ code[f] = Outcome(None, FALSE) /\ (fault > 0 \/ refused > 0)
  /\ thread[f] \notin {"wait", "kill"} /\ fault = 0 => child[f].st \in {"none", "reaped"}

\* The results are those of the files that are done, in order; between two
\* chunks no other thread is under way.
MainIsRight ==
  /\ \A i \in DOMAIN results : i \in Files /\ thread[i] = "done" /\ results[i] = [file |-> i, tap |-> out[i]]
  /\ main # "join" => \A f \in Files : thread[f] = "none" \/ f \in DOMAIN results
  /\ exit # None => main = "exited"
  /\ main = "exited" => /\ Len(results) = Len(suite)
                        /\ exit = "0" <=> \A i \in DOMAIN results : Failures(results[i]) = {}

\* RUN_COUNTER never gives a number twice.
IdsAreFresh ==
  /\ \A f \in Files : \A i \in DOMAIN ids[f] : ids[f][i] < nextId
  /\ \A f, g \in Files : \A i \in DOMAIN ids[f], j \in DOMAIN ids[g] : ids[f][i] = ids[g][j] => f = g /\ i = j

\* The directories hold the runner of a thread that compiles, the binary of one
\* that has compiled, and nothing else.
Runner(f) == [kind |-> "runner", id |-> ids[f][1], of |-> f]
Binary(f) == [kind |-> "binary", id |-> ids[f][2], of |-> f]
HasRunner == {f \in Files : thread[f] \in {"compile", "clean"}}
HasBinary == {f \in Files : thread[f] \in Testing \cup {"clean"} /\ suite[f].kind = "tests"}

DiskIsRight == disk = {Runner(f) : f \in HasRunner} \cup {Binary(f) : f \in HasBinary}

IInv == /\ TypeInv
        /\ \A f \in Files : ThreadIsRight(f) /\ ReportIsRight(f) /\ TestIsRight(f)
        /\ MainIsRight
        /\ IdsAreFresh
        /\ DiskIsRight

-----------------------------------------------------------------------------
LEMMA OneOf ==
  ASSUME NEW S, NEW x \in S
  PROVE  <<x>> \in Seq(S) /\ <<>> \in Seq(S)
OBVIOUS

\* What the files of a suite are.
LEMMA SuiteFacts ==
  ASSUME TypeInv, NEW f \in Files
  PROVE  /\ f \in Nat /\ f > 0 /\ f <= Len(suite) /\ Len(suite) \in Nat
         /\ suite[f].kind \in Kinds /\ Tests(f) \in Seq(Scripts)
         /\ \A t \in DOMAIN Tests(f) : Tests(f)[t] \in Scripts
<1>1. suite \in Seq(Sources)
  BY DEF TypeInv
<1>2. f \in Nat /\ f > 0 /\ f <= Len(suite) /\ Len(suite) \in Nat /\ suite[f] \in Sources
  BY <1>1 DEF Files
<1>3. suite[f].kind \in Kinds /\ Tests(f) \in Seq(Scripts)
  BY <1>2 DEF Tests, Sources
<1>4. QED
  BY <1>2, <1>3

\* The test a file is at, or will start.
LEMMA ScriptFacts ==
  ASSUME TypeInv, NEW f \in Files, ThreadIsRight(f), thread[f] \in {"wait", "kill", "join"}
  PROVE  Script(f) \in Scripts /\ test[f] \in DOMAIN Tests(f)
BY SuiteFacts DEF ThreadIsRight, Script

\* The TAP lines a thread writes.
LEMMA LineFacts ==
  ASSUME NEW s \in Scripts, NEW o \in Outcomes, NEW n \in Nat
  PROVE  /\ Line(0, FALSE, "file") \in Lines /\ Line(0, FALSE, "compile error") \in Lines
         /\ [Verdict(s, o) EXCEPT !.test = n] \in Lines
         /\ [Verdict(s, o) EXCEPT !.test = n].test = n
         /\ [Verdict(s, o) EXCEPT !.test = n].ok = Verdict(s, o).ok
         /\ [Verdict(s, o) EXCEPT !.test = n].why = Verdict(s, o).why
         /\ Verdict(s, o).ok <=> ~o.timedOut /\ Accepted(s, o)
         /\ Verdict(s, o).why = IF o.timedOut THEN "timeout" ELSE "exit"
<1>1. \A w \in {"file", "compile error", "timeout", "exit"}, b \in BOOLEAN :
        Line(0, b, w) \in Lines /\ Line(0, b, w).ok = b /\ Line(0, b, w).why = w
  BY DEF Line, Lines
<1>2. PICK v : v = Verdict(s, o)
  OBVIOUS
<1>3. s.panics \in BOOLEAN /\ o.timedOut \in BOOLEAN
  BY DEF Scripts, Outcomes
<1>4. v \in Lines /\ (v.ok <=> ~o.timedOut /\ Accepted(s, o))
                  /\ v.why = IF o.timedOut THEN "timeout" ELSE "exit"
  <2>1. CASE o.timedOut
    <3>1. v = Line(0, FALSE, "timeout")
      BY <1>2, <2>1 DEF Verdict
    <3>2. QED
      BY <1>1, <2>1, <3>1
  <2>2. CASE ~o.timedOut
    <3>1. PICK b \in BOOLEAN : b = Accepted(s, o)
      <4>1. Accepted(s, o) \in BOOLEAN
        BY <1>3 DEF Accepted
      <4>2. QED
        BY <4>1
    <3>2. v = Line(0, b, "exit")
      BY <1>2, <2>2, <3>1 DEF Verdict
    <3>3. QED
      BY <1>1, <2>2, <3>1, <3>2
  <2>3. QED
    BY <2>1, <2>2
<1>5. [v EXCEPT !.test = n] \in Lines /\ [v EXCEPT !.test = n].test = n
        /\ [v EXCEPT !.test = n].ok = v.ok /\ [v EXCEPT !.test = n].why = v.why
  BY <1>4 DEF Lines
<1>6. QED
  BY <1>1, <1>2, <1>4, <1>5

\* Every way to end has an exit code, or none.
LEMMA CodeFacts ==
  ASSUME NEW end
  PROVE  ExitCode(end) \in Codes \cup {None}
BY DEF ExitCode, Codes

\* Only a test that passes, or feigns it, is accepted, and every one that passes
\* is, unless it feigns the contrary.
LEMMA AcceptFacts ==
  ASSUME NEW s \in Scripts, NEW o \in Outcomes
  PROVE  /\ o.exit = None => ~Accepted(s, o)
         /\ o.exit = ExitCode(s.ends) => /\ Accepted(s, o) => Passes(s) \/ Feigns(s)
                                         /\ Passes(s) => Accepted(s, o) \/ Feigns(s)
<1>1. s.ends \in Ends /\ s.says \in {"nothing", "not ok", "sentinel"}
  BY DEF Scripts
<1>2. o.exit = None => ~Accepted(s, o)
  BY NoneAssumption DEF Accepted, Codes
<1>3. /\ ExitCode(s.ends) = "0" <=> s.ends \in {"ok", "exit 0"}
      /\ ExitCode(s.ends) = "101" <=> s.ends \in {"panic", "exit 101"}
  BY <1>1, NoneAssumption DEF ExitCode, Ends, Codes
<1>4. ASSUME o.exit = ExitCode(s.ends)
      PROVE  /\ Accepted(s, o) => Passes(s) \/ Feigns(s)
             /\ Passes(s) => Accepted(s, o) \/ Feigns(s)
  BY <1>1, <1>3, <1>4 DEF Accepted, Sentinel, Passes, Feigns
<1>5. QED
  BY <1>2, <1>4

-----------------------------------------------------------------------------
\* Every step keeps the types.
LEMMA TypeStep ==
  ASSUME TypeInv, \A f \in Files : ThreadIsRight(f), [Next]_vars
  PROVE  TypeInv'
<1> USE DEF TypeInv
<1>1. CASE UNCHANGED vars
  BY <1>1 DEF vars, files, procs, Files
<1>2. CASE SpawnChunk
  BY <1>2 DEF SpawnChunk, Files, procs, Labels
<1>3. CASE JoinThread
  <2>1. PICK f \in JoinNext : results' = Append(results, [file |-> f, tap |-> out[f]])
    BY <1>3 DEF JoinThread
  <2>2. results' \in Seq([file : Files, tap : Seq(Lines)])
    BY <2>1 DEF JoinNext
  <2>3. QED
    BY <1>3, <2>2 DEF JoinThread, Files, files, procs
<1>4. CASE Report
  BY <1>4 DEF Report, Files, files, procs
<1>5. ASSUME NEW f \in Files, ReadFile(f)
      PROVE  TypeInv'
  <2>1. <<>> \in Seq(Lines) /\ <<Line(0, FALSE, "file")>> \in Seq(Lines)
    <3>1. Line(0, FALSE, "file") \in Lines
      BY DEF Line, Lines
    <3>2. QED
      BY <3>1, OneOf
  <2>2. out' = out \/ \E o \in Seq(Lines) : out' = [out EXCEPT ![f] = o]
    BY <1>5, <2>1 DEF ReadFile
  <2>3. UNCHANGED <<ids, nextId>> \/ (ids' = [ids EXCEPT ![f] = <<nextId>>] /\ nextId' = nextId + 1)
    BY <1>5 DEF ReadFile
  <2>4. out' \in [Files -> Seq(Lines)]
    BY <2>2
  <2>5. <<nextId>> \in Seq(Nat)
    BY OneOf
  <2>6. ids' \in [Files -> Seq(Nat)] /\ nextId' \in Nat
    <3>1. CASE UNCHANGED <<ids, nextId>>
      BY <3>1
    <3>2. CASE ids' = [ids EXCEPT ![f] = <<nextId>>] /\ nextId' = nextId + 1
      <4>1. PICK s \in Seq(Nat) : s = <<nextId>>
        BY <2>5
      <4>2. ids' = [ids EXCEPT ![f] = s] /\ nextId' = nextId + 1
        BY <3>2, <4>1
      <4>3. QED
        BY <4>2
    <3>3. QED
      BY <2>3, <3>1, <3>2
  <2>7. QED
    BY <1>5, <2>4, <2>6 DEF ReadFile, At, Files, procs, Labels
<1>6. ASSUME NEW f \in Files, Compile(f)
      PROVE  TypeInv'
  <2>1. ids' \in [Files -> Seq(Nat)] /\ nextId' \in Nat
    BY <1>6 DEF Compile, Taken
  <2>2. QED
    BY <1>6, <2>1 DEF Compile, At, Files, procs, Labels
<1>7. ASSUME NEW f \in Files, Clean(f)
      PROVE  TypeInv'
  <2>1. <<Line(0, FALSE, "compile error")>> \in Seq(Lines)
    BY OneOf DEF Line, Lines
  <2>2. out' = out \/ \E o \in Seq(Lines) : out' = [out EXCEPT ![f] = o]
    BY <1>7, <2>1 DEF Clean
  <2>3. out' \in [Files -> Seq(Lines)]
    BY <2>2
  <2>4. QED
    BY <1>7, <2>3 DEF Clean, At, Files, procs, Labels
<1>8. ASSUME NEW f \in Files, StartTest(f)
      PROVE  TypeInv'
  <2>1. test[f] + 1 \in DOMAIN Tests(f) /\ test[f] + 1 \in Nat
    BY <1>8, SuiteFacts DEF StartTest
  <2>2. [st |-> "running", writes |-> Tests(f)[test[f] + 1].writes] \in Children
    BY <2>1, SuiteFacts DEF Scripts, Children
  <2>3. test' = [test EXCEPT ![f] = test[f] + 1]
    BY <1>8 DEF StartTest
  <2>4. test' \in [Files -> Nat] /\ child' \in [Files -> Children]
    BY <1>8, <2>1, <2>2, <2>3 DEF StartTest
  <2>5. QED
    BY <1>8, <2>4 DEF StartTest, At, Files, Labels
<1>9. ASSUME NEW f \in Files, Reap(f)
      PROVE  TypeInv'
  <2>1. Outcome(ExitCode(Script(f).ends), FALSE) \in Outcomes
    BY CodeFacts DEF Outcomes, Outcome
  <2>2. code' \in [Files -> Outcomes]
    BY <1>9, <2>1 DEF Reap, Waited
  <2>3. child' \in [Files -> Children]
    BY <1>9 DEF Reap, Children
  <2>4. QED
    BY <1>9, <2>2, <2>3 DEF Reap, Waited, At, Files, Labels
<1>10. ASSUME NEW f \in Files, TryWaitFails(f)
       PROVE  TypeInv'
  <2>1. Outcome(None, FALSE) \in Outcomes
    BY DEF Outcomes, Outcome
  <2>2. code' \in [Files -> Outcomes]
    BY <1>10, <2>1 DEF TryWaitFails, Waited
  <2>3. Waited(f, Outcome(None, FALSE)) /\ fault' = fault + 1 /\ UNCHANGED <<child, refused>>
    BY <1>10 DEF TryWaitFails, Waited
  <2>4. fault' \in Nat
    BY <2>3
  <2>5. thread' \in [Files -> Labels]
    BY <2>3 DEF Waited, At, Labels
  <2>6. QED
    BY <2>2, <2>3, <2>4, <2>5 DEF Waited, Files
<1>11. ASSUME NEW f \in Files, SeeLate(f)
       PROVE  TypeInv'
  BY <1>11 DEF SeeLate, At, Files, Labels, procs
<1>12. ASSUME NEW f \in Files, Kill(f)
       PROVE  TypeInv'
  <2>1. Outcome(None, TRUE) \in Outcomes
    BY DEF Outcomes, Outcome
  <2>2. code' \in [Files -> Outcomes]
    BY <1>12, <2>1 DEF Kill
  <2>3. child' \in [Files -> Children]
    BY <1>12 DEF Kill, Children, AfterKill
  <2>4. QED
    BY <1>12, <2>2, <2>3 DEF Kill, At, Files, Labels
<1>13. ASSUME NEW f \in Files, JoinDrains(f)
       PROVE  TypeInv'
  <2>1. Outcome(None, FALSE) \in Outcomes
    BY DEF Outcomes, Outcome
  <2>2. Script(f) \in Scripts /\ code[f] \in Outcomes /\ test[f] \in Nat
    BY <1>13, ScriptFacts DEF JoinDrains, At
  <2>3. [Verdict(Script(f), code[f]) EXCEPT !.test = test[f]] \in Lines
    BY <2>2, LineFacts
  <2>4. out' \in [Files -> Seq(Lines)]
    BY <1>13, <2>3 DEF JoinDrains
  <2>5. code' \in [Files -> Outcomes]
    BY <1>13, <2>1 DEF JoinDrains
  <2>6. QED
    BY <1>13, <2>4, <2>5 DEF JoinDrains, At, Files, Labels
<1>14. ASSUME NEW f \in Files, FinishFile(f)
       PROVE  TypeInv'
  BY <1>14 DEF FinishFile, At, Files, Labels, procs
<1>15. ASSUME NEW f \in Files, Process(f) \/ Drain(f) \/ DeadlinePasses(f)
       PROVE  TypeInv'
  <2>1. child' \in [Files -> Children]
    <3>1. CASE Write(f)
      <4>1. child[f].writes - 1 \in Nat
        BY <3>1 DEF Write, Children
      <4>2. child' = [child EXCEPT ![f].writes = child[f].writes - 1]
        BY <3>1 DEF Write
      <4>3. QED
        BY <4>1, <4>2 DEF Children
    <3>2. CASE Exit(f)
      BY <3>2 DEF Exit, Children
    <3>3. CASE UNCHANGED child
      BY <3>3
    <3>4. QED
      BY <1>15, <3>1, <3>2, <3>3 DEF Process, Drain, DeadlinePasses
  <2>2. late' \in [Files -> BOOLEAN]
    BY <1>15 DEF Process, Write, Exit, Drain, DeadlinePasses
  <2>3. QED
    BY <1>15, <2>1, <2>2 DEF Process, Write, Exit, Drain, DeadlinePasses, OnlyProc, files, Files
<1>16. ASSUME NEW f \in Files, SpawnFails(f)
       PROVE  TypeInv'
  <2>1. Outcome(None, FALSE) \in Outcomes /\ NoChild \in Children
    BY DEF Outcomes, Outcome, NoChild, Children
  <2>2. /\ test' = [test EXCEPT ![f] = test[f] + 1]
        /\ code' = [code EXCEPT ![f] = Outcome(None, FALSE)]
        /\ child' = [child EXCEPT ![f] = NoChild]
        /\ thread' = [thread EXCEPT ![f] = "join"]
        /\ refused' = refused + 1
        /\ UNCHANGED <<suite, timeout, main, results, exit, out, nextId, ids, disk, late, fault>>
    BY <1>16 DEF SpawnFails, At
  <2>3. test' \in [Files -> Nat] /\ refused' \in Nat
    BY <2>2
  <2>4. child' \in [Files -> Children]
    BY <2>1, <2>2
  <2>5. code' \in [Files -> Outcomes]
    BY <2>1, <2>2
  <2>6. thread' \in [Files -> Labels]
    BY <2>2 DEF Labels
  <2>7. Files' = Files
    BY <2>2 DEF Files
  <2>8. QED
    BY <2>2, <2>3, <2>4, <2>5, <2>6, <2>7
<1>17. QED
  BY <1>1, <1>2, <1>3, <1>4, <1>5, <1>6, <1>7, <1>8, <1>9, <1>10, <1>11, <1>12, <1>13, <1>14, <1>15, <1>16
     DEF Next, Thread

-----------------------------------------------------------------------------
FileStep(f) == \/ Thread(f) \/ Process(f) \/ Drain(f) \/ DeadlinePasses(f)
               \/ SpawnFails(f) \/ TryWaitFails(f)

\* A file that a step leaves alone stays right, whatever fails elsewhere.
Kept(g) == /\ thread'[g] = thread[g] /\ test'[g] = test[g] /\ out'[g] = out[g] /\ ids'[g] = ids[g]
           /\ child'[g] = child[g] /\ late'[g] = late[g] /\ code'[g] = code[g]

FileIsRight(f) == ThreadIsRight(f) /\ ReportIsRight(f) /\ TestIsRight(f)

LEMMA OthersKept ==
  ASSUME TypeInv, NEW f \in Files, FileStep(f)
  PROVE  /\ suite' = suite /\ timeout' = timeout /\ main' = main /\ results' = results /\ exit' = exit
         /\ fault' \in Nat /\ fault <= fault' /\ refused' \in Nat /\ refused <= refused'
         /\ \A g \in Files : g # f => Kept(g)
<1> USE DEF Kept, TypeInv
<1>1. CASE ReadFile(f)
  <2>1. /\ UNCHANGED <<suite, timeout, main, results, exit, test, procs>>
        /\ \E to \in Labels : thread' = [thread EXCEPT ![f] = to]
        /\ out' = out \/ \E o : out' = [out EXCEPT ![f] = o]
        /\ ids' = ids \/ \E i : ids' = [ids EXCEPT ![f] = i]
    BY <1>1 DEF ReadFile, At, Labels
  <2>2. QED
    BY <2>1 DEF procs
<1>2. CASE Compile(f)
  BY <1>2 DEF Compile, At, procs
<1>3. CASE Clean(f)
  <2>1. /\ UNCHANGED <<suite, timeout, main, results, exit, test, ids, procs>>
        /\ \E to \in Labels : thread' = [thread EXCEPT ![f] = to]
        /\ out' = out \/ \E o : out' = [out EXCEPT ![f] = o]
    BY <1>3 DEF Clean, At, Labels
  <2>2. QED
    BY <2>1 DEF procs
<1>4. CASE StartTest(f)
  BY <1>4 DEF StartTest, At
<1>5. CASE Reap(f)
  BY <1>5 DEF Reap, Waited, At
<1>6. CASE SeeLate(f)
  BY <1>6 DEF SeeLate, At, procs
<1>7. CASE Kill(f)
  BY <1>7 DEF Kill, At
<1>8. CASE JoinDrains(f)
  BY <1>8 DEF JoinDrains, At
<1>9. CASE FinishFile(f)
  BY <1>9 DEF FinishFile, At, procs
<1>10. CASE TryWaitFails(f)
  <2>1. Waited(f, Outcome(None, FALSE)) /\ fault' = fault + 1 /\ UNCHANGED child
    BY <1>10 DEF TryWaitFails
  <2>2. QED
    BY <2>1 DEF Waited, At
<1>11. CASE Process(f) \/ Drain(f) \/ DeadlinePasses(f)
  BY <1>11 DEF Process, Write, Exit, Drain, DeadlinePasses, OnlyProc, files
<1>12. CASE SpawnFails(f)
  BY <1>12 DEF SpawnFails, At
<1>13. QED
  BY <1>1, <1>2, <1>3, <1>4, <1>5, <1>6, <1>7, <1>8, <1>9, <1>10, <1>11, <1>12 DEF FileStep, Thread

LEMMA KeptIsRight ==
  ASSUME TypeInv, NEW g \in Files, FileIsRight(g), Kept(g), suite' = suite, timeout' = timeout,
         fault' \in Nat, fault <= fault', refused' \in Nat, refused <= refused'
  PROVE  FileIsRight(g)'
<1>1. Tests(g)' = Tests(g) /\ Script(g)' = Script(g)
  BY DEF Tests, Script, Kept
<1>2. (fault > 0 => fault' > 0) /\ (fault' = 0 => fault = 0) /\ (refused > 0 => refused' > 0)
  BY DEF TypeInv
<1>3. Reported(g) => Reported(g)'
  BY <1>1, <1>2 DEF Reported, Kept
<1>4. ThreadIsRight(g)'
  BY <1>1 DEF FileIsRight, ThreadIsRight, Kept
<1>5. ReportIsRight(g)'
  BY <1>3 DEF FileIsRight, ReportIsRight, Kept
<1>6. TestIsRight(g)'
  BY <1>1, <1>2 DEF FileIsRight, TestIsRight, Kept
<1>7. QED
  BY <1>4, <1>5, <1>6 DEF FileIsRight

\* Every step of a file keeps it right.
LEMMA OwnStep ==
  ASSUME TypeInv, NEW f \in Files, FileIsRight(f), FileStep(f)
  PROVE  FileIsRight(f)'
<1>1. /\ suite' = suite /\ timeout' = timeout /\ fault' \in Nat /\ fault <= fault'
      /\ refused' \in Nat /\ refused <= refused'
      /\ fault \in Nat /\ refused \in Nat /\ timeout \in BOOLEAN
  BY OthersKept DEF TypeInv
<1>2. Tests(f)' = Tests(f)
  BY <1>1 DEF Tests
<1>3. (fault > 0 => fault' > 0) /\ (fault' = 0 => fault = 0) /\ (refused > 0 => refused' > 0)
  BY <1>1
<1>4. ThreadIsRight(f) /\ ReportIsRight(f) /\ TestIsRight(f)
  BY DEF FileIsRight
<1>5. /\ thread \in [Files -> Labels] /\ test \in [Files -> Nat] /\ out \in [Files -> Seq(Lines)]
      /\ ids \in [Files -> Seq(Nat)] /\ child \in [Files -> Children] /\ late \in [Files -> BOOLEAN]
      /\ code \in [Files -> Outcomes]
  BY DEF TypeInv
<1>6. suite[f].kind \in Kinds /\ Tests(f) \in Seq(Scripts)
  BY SuiteFacts
<1> USE DEF FileIsRight
<1>7. ASSUME NEW to, At(f, thread[f], to)
      PROVE  thread'[f] = to
  BY <1>5, <1>7 DEF At
<1>8. CASE ReadFile(f)
  <2>1. thread[f] = "read" /\ out[f] = <<>> /\ test[f] = 0 /\ ids[f] = <<>>
        /\ UNCHANGED <<test, child, late, code, fault, refused>>
    BY <1>4, <1>8 DEF ReadFile, ThreadIsRight, procs
  <2>2. CASE suite[f].kind \in {"unreadable", "empty"}
    <3>1. thread'[f] = "done" /\ ids' = ids
      BY <1>5, <1>8, <2>2 DEF ReadFile, At
    <3>2. out'[f] = IF suite[f].kind = "empty" THEN <<>> ELSE <<Line(0, FALSE, "file")>>
      BY <1>5, <1>8, <2>2 DEF ReadFile
    <3>3. ThreadIsRight(f)' /\ TestIsRight(f)'
      BY <1>1, <1>4, <2>1, <3>1 DEF ThreadIsRight, TestIsRight, Testing
    <3>4. ReportIsRight(f)'
      BY <1>1, <2>2, <3>2 DEF ReportIsRight, Line
    <3>5. QED
      BY <3>3, <3>4
  <2>3. CASE suite[f].kind \notin {"unreadable", "empty"}
    <3>1. thread'[f] = "compile" /\ ids'[f] = <<nextId>> /\ out' = out
      BY <1>5, <1>8, <2>3 DEF ReadFile, At
    <3>2. ThreadIsRight(f)' /\ TestIsRight(f)'
      BY <1>1, <1>4, <1>6, <2>1, <2>3, <3>1 DEF ThreadIsRight, TestIsRight, Testing, Kinds
    <3>3. ReportIsRight(f)'
      BY <1>1, <1>2, <1>4, <2>1, <2>3, <3>1 DEF ReportIsRight, Reported
    <3>4. QED
      BY <3>2, <3>3
  <2>4. QED
    BY <2>2, <2>3
<1>9. CASE Compile(f)
  <2>1. thread[f] = "compile" /\ thread'[f] = "clean" /\ UNCHANGED <<test, out, child, late, code, fault, refused>>
        /\ ids'[f] = Append(ids[f], nextId)
    BY <1>5, <1>9 DEF Compile, At, procs
  <2>2. Len(ids'[f]) = 2
    <3>1. Len(ids[f]) = 1 /\ ids[f] \in Seq(Nat) /\ nextId \in Nat
      BY <1>4, <1>5, <2>1 DEF ThreadIsRight, TypeInv
    <3>2. QED
      BY <2>1, <3>1
  <2>3. ThreadIsRight(f)' /\ TestIsRight(f)'
    BY <1>1, <1>4, <2>1, <2>2 DEF ThreadIsRight, TestIsRight, Testing
  <2>4. ReportIsRight(f)'
    BY <1>1, <1>2, <1>4, <2>1 DEF ReportIsRight, Reported
  <2>5. QED
    BY <2>3, <2>4
<1>10. CASE Clean(f)
  <2>1. thread[f] = "clean" /\ out[f] = <<>> /\ test[f] = 0 /\ Len(ids[f]) = 2
        /\ suite[f].kind \in {"uncompilable", "tests"}
        /\ UNCHANGED <<test, ids, child, late, code, fault, refused>>
    BY <1>4, <1>10 DEF Clean, ThreadIsRight, procs
  <2>2. CASE suite[f].kind = "tests"
    <3>1. thread'[f] = "next" /\ out' = out
      BY <1>5, <1>10, <2>2 DEF Clean, At
    <3>2. ThreadIsRight(f)' /\ TestIsRight(f)'
      BY <1>1, <1>4, <2>1, <2>2, <3>1 DEF ThreadIsRight, TestIsRight, Testing
    <3>3. ReportIsRight(f)'
      BY <1>1, <1>2, <2>1, <2>2, <3>1 DEF ReportIsRight, Reported
    <3>4. QED
      BY <3>2, <3>3
  <2>3. CASE suite[f].kind = "uncompilable"
    <3>1. thread'[f] = "done" /\ out'[f] = <<Line(0, FALSE, "compile error")>>
      BY <1>5, <1>10, <2>3 DEF Clean, At
    <3>2. ThreadIsRight(f)' /\ TestIsRight(f)'
      BY <1>1, <1>4, <2>1, <3>1 DEF ThreadIsRight, TestIsRight, Testing
    <3>3. ReportIsRight(f)'
      <4>1. PICK l : l = Line(0, FALSE, "compile error")
        OBVIOUS
      <4>2. out'[f] = <<l>> /\ ~l.ok
        BY <3>1, <4>1 DEF Line
      <4>3. QED
        BY <1>1, <2>3, <4>2 DEF ReportIsRight
    <3>4. QED
      BY <3>2, <3>3
  <2>4. QED
    BY <2>1, <2>2, <2>3
<1>11. CASE StartTest(f)
  <2>1. /\ thread[f] = "next" /\ thread'[f] = "wait" /\ test[f] < Len(Tests(f)) /\ late'[f] = FALSE
        /\ UNCHANGED <<out, ids, code, fault, refused>>
    BY <1>5, <1>11 DEF StartTest, At
  <2>2. test' = [test EXCEPT ![f] = test[f] + 1]
    BY <1>11 DEF StartTest
  <2>3. test'[f] = test[f] + 1 /\ test[f] \in Nat
    BY <1>5, <2>2
  <2>4. test'[f] \in DOMAIN Tests(f)
    BY <1>6, <2>1, <2>3
  <2>5. suite[f].kind = "tests" /\ Len(ids[f]) = 2 /\ Reported(f)
    BY <1>4, <2>1 DEF ThreadIsRight, ReportIsRight, Testing
  <2>6. ThreadIsRight(f)' /\ TestIsRight(f)'
    BY <1>1, <1>2, <2>1, <2>4, <2>5 DEF ThreadIsRight, TestIsRight, Testing
  <2>7. ReportIsRight(f)'
    BY <1>1, <1>2, <2>1, <2>3, <2>5 DEF ReportIsRight, Reported
  <2>8. QED
    BY <2>6, <2>7
<1>12. CASE Reap(f) \/ Kill(f) \/ TryWaitFails(f)
  <2>1. /\ thread[f] \in {"wait", "kill"} /\ thread'[f] = "join" /\ UNCHANGED <<test, out, ids, late>>
        /\ Script(f)' = Script(f)
    BY <1>1, <1>2, <1>5, <1>12 DEF Reap, Kill, TryWaitFails, Waited, At, Script
  <2>2. \/ code'[f] = Outcome(ExitCode(Script(f).ends), FALSE) /\ child'[f].st = "reaped"
        \/ code'[f] = Outcome(None, TRUE) /\ timeout /\ child'[f].st = "reaped"
        \/ code'[f] = Outcome(None, FALSE) /\ fault' > 0
    <3>1. CASE Reap(f)
      BY <1>5, <3>1 DEF Reap, Waited, Children
    <3>2. CASE Kill(f)
      <4>1. timeout
        BY <1>4, <3>2 DEF Kill, At, TestIsRight
      <4>2. code'[f] = Outcome(None, TRUE)
        BY <1>5, <3>2 DEF Kill
      <4>3. child'[f].st = "reaped"
        BY <1>5, <3>2 DEF Kill, AfterKill, Children
      <4>4. QED
        BY <4>1, <4>2, <4>3
    <3>3. CASE TryWaitFails(f)
      <4>1. Waited(f, Outcome(None, FALSE)) /\ fault' = fault + 1
        BY <3>3 DEF TryWaitFails
      <4>2. code'[f] = Outcome(None, FALSE) /\ fault' > 0
        BY <1>1, <1>5, <4>1 DEF Waited
      <4>3. QED
        BY <4>2
    <3>4. QED
      BY <1>12, <3>1, <3>2, <3>3
  <2>3. ThreadIsRight(f)'
    BY <1>1, <1>2, <1>4, <2>1 DEF ThreadIsRight, Testing
  <2>4. TestIsRight(f)'
    <3>1. late[f] => timeout
      BY <1>4 DEF TestIsRight
    <3>2. (late[f] \/ thread[f] = "kill")' => timeout'
      BY <1>1, <2>1, <3>1
    <3>3. \/ code'[f] = Outcome(ExitCode(Script(f)'.ends), FALSE)
          \/ code'[f] = Outcome(None, TRUE) /\ timeout'
          \/ code'[f] = Outcome(None, FALSE) /\ fault' > 0
      BY <1>1, <2>1, <2>2
    <3>4. fault' = 0 => child'[f].st = "reaped"
      BY <1>1, <2>2 DEF Outcome
    <3>5. QED
      BY <3>2, <3>3, <3>4 DEF TestIsRight
  <2>5. ReportIsRight(f)'
    BY <1>1, <1>2, <1>3, <1>4, <2>1 DEF ReportIsRight, Reported, ThreadIsRight, Testing
  <2>6. QED
    BY <2>3, <2>4, <2>5
<1>13. CASE SeeLate(f)
  <2>1. /\ thread[f] = "wait" /\ thread'[f] = "kill" /\ late[f]
        /\ UNCHANGED <<test, out, ids, late, child, code, fault, refused>>
    BY <1>5, <1>13 DEF SeeLate, At, procs
  <2>2. timeout
    BY <1>4, <2>1 DEF TestIsRight
  <2>3. ThreadIsRight(f)' /\ TestIsRight(f)'
    BY <1>1, <1>2, <1>4, <2>1, <2>2 DEF ThreadIsRight, TestIsRight, Testing
  <2>4. ReportIsRight(f)'
    BY <1>1, <1>2, <1>4, <2>1 DEF ReportIsRight, Reported, ThreadIsRight, Testing
  <2>5. QED
    BY <2>3, <2>4
<1>14. CASE JoinDrains(f)
  <2> DEFINE l == [Verdict(Script(f), code[f]) EXCEPT !.test = test[f]]
  <2>1. /\ thread[f] = "join" /\ thread'[f] = "next" /\ out'[f] = Append(out[f], l)
        /\ UNCHANGED <<test, ids, late, child, fault, refused>>
    BY <1>5, <1>14 DEF JoinDrains, At
  <2>2. /\ suite[f].kind = "tests" /\ Len(ids[f]) = 2 /\ test[f] \in DOMAIN Tests(f)
        /\ Len(out[f]) = test[f] - 1 /\ Reported(f)
    BY <1>4, <2>1 DEF ThreadIsRight, ReportIsRight, Reported, Testing
  <2>3. Script(f) \in Scripts /\ Script(f) = Tests(f)[test[f]] /\ code[f] \in Outcomes /\ test[f] \in Nat
    BY <1>5, <1>6, <2>2 DEF Script
  <2>4. /\ l \in Lines /\ l.test = test[f] /\ l.ok = Verdict(Script(f), code[f]).ok
        /\ l.why = Verdict(Script(f), code[f]).why
    <3>1. PICK s \in Scripts, o \in Outcomes, n \in Nat : s = Script(f) /\ o = code[f] /\ n = test[f]
      BY <2>3
    <3>2. /\ [Verdict(s, o) EXCEPT !.test = n] \in Lines
          /\ [Verdict(s, o) EXCEPT !.test = n].test = n
          /\ [Verdict(s, o) EXCEPT !.test = n].ok = Verdict(s, o).ok
          /\ [Verdict(s, o) EXCEPT !.test = n].why = Verdict(s, o).why
      BY LineFacts
    <3>3. QED
      BY <3>1, <3>2
  <2>5. /\ l.ok => Passes(Tests(f)[test[f]]) \/ Feigns(Tests(f)[test[f]])
        /\ Passes(Tests(f)[test[f]]) => \/ l.ok \/ l.why = "timeout" \/ Feigns(Tests(f)[test[f]])
                                        \/ fault > 0 \/ refused > 0
        /\ l.why = "timeout" => timeout
    <3>1. /\ l.ok <=> ~code[f].timedOut /\ Accepted(Script(f), code[f])
          /\ l.why = IF code[f].timedOut THEN "timeout" ELSE "exit"
      BY <2>3, <2>4, LineFacts
    <3>2. CASE code[f] = Outcome(ExitCode(Script(f).ends), FALSE)
      <4>1. code[f].exit = ExitCode(Script(f).ends) /\ ~code[f].timedOut
        BY <3>2 DEF Outcome
      <4>2. /\ Accepted(Script(f), code[f]) => Passes(Script(f)) \/ Feigns(Script(f))
            /\ Passes(Script(f)) => Accepted(Script(f), code[f]) \/ Feigns(Script(f))
        BY <2>3, <4>1, AcceptFacts
      <4>3. QED
        BY <2>3, <3>1, <4>1, <4>2
    <3>3. CASE code[f] = Outcome(None, TRUE) /\ timeout
      BY <3>1, <3>3 DEF Outcome
    <3>4. CASE code[f] = Outcome(None, FALSE) /\ (fault > 0 \/ refused > 0)
      <4>1. code[f].exit = None /\ ~code[f].timedOut
        BY <3>4 DEF Outcome
      <4>2. ~Accepted(Script(f), code[f])
        BY <2>3, <4>1, AcceptFacts
      <4>3. l.why = "exit" /\ ~l.ok
        BY <3>1, <4>1, <4>2
      <4>4. QED
        BY <3>4, <4>3
    <3>5. QED
      BY <1>4, <2>1, <3>2, <3>3, <3>4 DEF TestIsRight
  <2> HIDE DEF l
  <2>6. /\ Len(out'[f]) = test[f] /\ DOMAIN out'[f] = DOMAIN out[f] \cup {test[f]} /\ out'[f][test[f]] = l
        /\ \A n \in DOMAIN out[f] : out'[f][n] = out[f][n]
    BY <1>5, <2>1, <2>2, <2>3, <2>4
  <2>7. Reported(f)'
    BY <1>1, <1>2, <2>1, <2>2, <2>4, <2>5, <2>6 DEF Reported
  <2>8. ThreadIsRight(f)' /\ TestIsRight(f)'
    BY <1>1, <1>2, <1>4, <2>1, <2>2 DEF ThreadIsRight, TestIsRight, Testing
  <2>9. ReportIsRight(f)'
    BY <1>1, <2>2, <2>7 DEF ReportIsRight
  <2>10. QED
    BY <2>8, <2>9
<1>15. CASE FinishFile(f)
  <2>1. /\ thread[f] = "next" /\ thread'[f] = "done" /\ UNCHANGED <<test, out, ids, late, child, code, fault, refused>>
    BY <1>5, <1>15 DEF FinishFile, At, procs
  <2>2. suite[f].kind = "tests" /\ Reported(f)
    BY <1>4, <2>1 DEF ThreadIsRight, ReportIsRight, Testing
  <2>3. ThreadIsRight(f)' /\ TestIsRight(f)'
    BY <1>1, <1>2, <1>4, <2>1 DEF ThreadIsRight, TestIsRight, Testing
  <2>4. ReportIsRight(f)'
    BY <1>1, <1>2, <2>1, <2>2 DEF ReportIsRight, Reported
  <2>5. QED
    BY <2>3, <2>4
<1>16. CASE Process(f) \/ Drain(f) \/ DeadlinePasses(f)
  <2>1. UNCHANGED <<thread, test, out, ids, code, fault, refused>>
    BY <1>16 DEF Process, Write, Exit, Drain, DeadlinePasses, OnlyProc, files
  <2>2. child'[f].st = child[f].st \/ child[f].st = "running"
    BY <1>5, <1>16 DEF Process, Write, Exit, Drain, DeadlinePasses, Children
  <2>3. late'[f] => late[f] \/ timeout
    BY <1>5, <1>16 DEF Process, Write, Exit, Drain, DeadlinePasses
  <2>4. Script(f)' = Script(f)
    BY <1>2, <2>1 DEF Script
  <2>5. TestIsRight(f)'
    BY <1>1, <1>4, <2>1, <2>2, <2>3, <2>4 DEF TestIsRight
  <2>6. ThreadIsRight(f)' /\ ReportIsRight(f)'
    BY <1>1, <1>2, <1>4, <2>1 DEF ThreadIsRight, ReportIsRight, Reported
  <2>7. QED
    BY <2>5, <2>6
<1>17. CASE SpawnFails(f)
  <2>1. /\ thread[f] = "next" /\ thread'[f] = "join" /\ test[f] < Len(Tests(f))
        /\ UNCHANGED <<out, ids, late>>
        /\ code'[f] = Outcome(None, FALSE) /\ child'[f].st = "none" /\ refused' > 0
    BY <1>1, <1>5, <1>17 DEF SpawnFails, At, NoChild
  <2>2. test' = [test EXCEPT ![f] = test[f] + 1]
    BY <1>17 DEF SpawnFails
  <2>3. test'[f] = test[f] + 1 /\ test[f] \in Nat
    BY <1>5, <2>2
  <2>4. test'[f] \in DOMAIN Tests(f)
    BY <1>6, <2>1, <2>3
  <2>5. suite[f].kind = "tests" /\ Len(ids[f]) = 2 /\ Reported(f)
    BY <1>4, <2>1 DEF ThreadIsRight, ReportIsRight, Testing
  <2>6. ThreadIsRight(f)' /\ TestIsRight(f)'
    BY <1>1, <1>2, <1>4, <2>1, <2>4, <2>5 DEF ThreadIsRight, TestIsRight, Testing
  <2>7. ReportIsRight(f)'
    BY <1>1, <1>2, <1>3, <2>1, <2>3, <2>5 DEF ReportIsRight, Reported
  <2>8. QED
    BY <2>6, <2>7
<1>18. QED
  BY <1>8, <1>9, <1>10, <1>11, <1>12, <1>13, <1>14, <1>15, <1>16, <1>17 DEF FileStep, Thread

\* A file whose thread has not started, or is done, does not change any more.
LEMMA RestsStep ==
  ASSUME TypeInv, NEW f \in Files, FileStep(f), thread[f] \in {"none", "done"}
  PROVE  thread'[f] = thread[f] /\ out'[f] = out[f]
<1>1. ~Thread(f) /\ ~SpawnFails(f) /\ ~TryWaitFails(f)
  BY DEF Thread, ReadFile, Compile, Clean, StartTest, Reap, SeeLate, Kill, JoinDrains, FinishFile,
         SpawnFails, TryWaitFails, Waited, At
<1>2. Process(f) \/ Drain(f) \/ DeadlinePasses(f)
  BY <1>1 DEF FileStep
<1>3. QED
  BY <1>2 DEF Process, Write, Exit, Drain, DeadlinePasses, OnlyProc, files

\* Every step keeps the files right.
LEMMA FilesStep ==
  ASSUME IInv, [Next]_vars
  PROVE  \A g \in Files : FileIsRight(g)'
<1>1. TypeInv /\ MainIsRight /\ \A g \in Files : FileIsRight(g)
  BY DEF IInv, FileIsRight
<1>2. fault \in Nat /\ refused \in Nat
  BY <1>1 DEF TypeInv
<1>3. ASSUME \A g \in Files : Kept(g), UNCHANGED <<suite, timeout, fault, refused>>
      PROVE  \A g \in Files : FileIsRight(g)'
  BY <1>1, <1>2, <1>3, KeptIsRight
<1>4. CASE UNCHANGED vars \/ JoinThread \/ Report
  <2>1. (\A g \in Files : Kept(g)) /\ UNCHANGED <<suite, timeout, fault, refused>>
    BY <1>4 DEF vars, JoinThread, Report, files, procs, Kept
  <2>2. QED
    BY <1>3, <2>1
<1>5. CASE SpawnChunk
  <2>1. ASSUME NEW g \in Files
        PROVE  FileIsRight(g)'
    <3>1. UNCHANGED <<suite, timeout, test, out, ids, child, late, code, fault, refused>>
      BY <1>5 DEF SpawnChunk, procs
    <3>2. CASE g \in Chunk(Len(results))
      <4>1. thread[g] = "none"
        <5>1. Len(results) \in Nat /\ g > Len(results)
          BY <1>1, <3>2 DEF TypeInv, Chunk
        <5>2. g \notin DOMAIN results
          BY <1>1, <5>1 DEF TypeInv
        <5>3. QED
          BY <1>1, <1>5, <5>2 DEF MainIsRight, SpawnChunk
      <4>2. thread'[g] = "read"
        BY <1>1, <1>5, <3>2 DEF SpawnChunk
      <4>3. ThreadIsRight(g) /\ ReportIsRight(g) /\ TestIsRight(g)
        BY <1>1 DEF FileIsRight
      <4>4. Tests(g)' = Tests(g)
        BY <3>1 DEF Tests
      <4>5. ThreadIsRight(g)' /\ TestIsRight(g)'
        BY <3>1, <4>1, <4>2, <4>3 DEF ThreadIsRight, TestIsRight, Testing
      <4>6. ReportIsRight(g)'
        BY <3>1, <4>1, <4>2, <4>3, <4>4 DEF ReportIsRight, Reported
      <4>7. QED
        BY <4>5, <4>6 DEF FileIsRight
    <3>3. CASE g \notin Chunk(Len(results))
      <4>1. thread'[g] = thread[g]
        BY <1>5, <3>3 DEF SpawnChunk
      <4>2. QED
        BY <1>1, <1>2, <3>1, <4>1, KeptIsRight DEF Kept
    <3>4. QED
      BY <3>2, <3>3
  <2>2. QED
    BY <2>1
<1>6. ASSUME NEW f \in Files, FileStep(f)
      PROVE  \A g \in Files : FileIsRight(g)'
  <2>1. FileIsRight(f)'
    BY <1>1, <1>6, OwnStep
  <2>2. \A g \in Files : g # f => FileIsRight(g)'
    BY <1>1, <1>6, OthersKept, KeptIsRight
  <2>3. QED
    BY <2>1, <2>2
<1>7. QED
  BY <1>4, <1>5, <1>6 DEF Next, FileStep

\* Every step keeps the results right.
LEMMA MainStep ==
  ASSUME IInv, [Next]_vars
  PROVE  MainIsRight'
<1>1. TypeInv /\ MainIsRight
  BY DEF IInv
<1>2. /\ results \in Seq([file : Files, tap : Seq(Lines)]) /\ suite \in Seq(Sources)
      /\ thread \in [Files -> Labels] /\ Files = 1..Len(suite) /\ Len(suite) \in Nat
  BY <1>1 DEF TypeInv, Files
<1>3. CASE UNCHANGED vars
  BY <1>1, <1>3 DEF vars, files, procs, MainIsRight, Files, Failures
<1>4. CASE SpawnChunk
  <2>1. UNCHANGED <<suite, results, exit, out>> /\ main = "chunk" /\ main' = "join" /\ exit = None
    BY <1>1, <1>4 DEF SpawnChunk, MainIsRight
  <2>2. \A i \in DOMAIN results : thread'[i] = thread[i] /\ i \in Files
    <3>1. \A i \in DOMAIN results : i <= Len(results) /\ i \in Files /\ i \in Nat /\ Len(results) \in Nat
      BY <1>1, <1>2 DEF MainIsRight
    <3>2. \A i \in DOMAIN results : i \notin Chunk(Len(results))
      BY <3>1 DEF Chunk
    <3>3. QED
      BY <1>4, <3>1, <3>2 DEF SpawnChunk
  <2>3. QED
    BY <1>1, <2>1, <2>2 DEF MainIsRight, Files
<1>5. CASE JoinThread
  <2>1. PICK f \in Files : f = Len(results) + 1 /\ thread[f] = "done"
                           /\ results' = Append(results, [file |-> f, tap |-> out[f]])
    BY <1>5 DEF JoinThread, JoinNext
  <2>2. UNCHANGED <<suite, exit, out, thread>> /\ main = "join" /\ main' \in {"chunk", "join"}
    BY <1>5 DEF JoinThread, files
  <2>3. exit = None
    BY <1>1, <2>2 DEF MainIsRight
  <2>4. /\ DOMAIN results' = DOMAIN results \cup {f} /\ results'[f] = [file |-> f, tap |-> out[f]]
        /\ \A i \in DOMAIN results : results'[i] = results[i]
        /\ Len(results') \in Nat /\ DOMAIN results' = 1..Len(results')
    <3>1. [file |-> f, tap |-> out[f]] \in [file : Files, tap : Seq(Lines)]
      BY <1>1 DEF TypeInv
    <3>2. QED
      BY <1>2, <2>1, <3>1
  <2>5. \A i \in DOMAIN results' : i \in Files /\ thread[i] = "done" /\ results'[i] = [file |-> i, tap |-> out[i]]
    BY <1>1, <2>1, <2>4 DEF MainIsRight
  <2>6. main' # "join" => \A g \in Files : thread[g] = "none" \/ g \in DOMAIN results'
    <3>1. main' # "join" => \A g \in Files : thread[g] = "none" \/ g <= Len(results')
      BY <1>5 DEF JoinThread
    <3>2. QED
      BY <1>2, <2>4, <3>1
  <2>7. QED
    BY <2>2, <2>3, <2>5, <2>6 DEF MainIsRight, Files
<1>6. CASE Report
  <2>1. /\ main = "chunk" /\ main' = "exited" /\ Len(results) = Len(suite)
        /\ UNCHANGED <<suite, results, out, thread>>
    BY <1>6 DEF Report, files
  <2>2. exit' = "0" <=> \A i \in DOMAIN results : Failures(results[i]) = {}
    BY <1>6 DEF Report
  <2>3. \A i \in DOMAIN results : Failures(results[i])' = Failures(results[i])
    BY <2>1 DEF Failures
  <2>4. QED
    BY <1>1, <2>1, <2>2, <2>3 DEF MainIsRight, Files
<1>7. ASSUME NEW f \in Files, FileStep(f)
      PROVE  MainIsRight'
  <2>1. UNCHANGED <<suite, main, results, exit>> /\ \A g \in Files : g # f => Kept(g)
    BY <1>1, <1>7, OthersKept
  <2>2. \A g \in Files : thread[g] \in {"none", "done"} => thread'[g] = thread[g] /\ out'[g] = out[g]
    BY <1>1, <1>7, <2>1, RestsStep DEF Kept
  <2>3. \A i \in DOMAIN results : Failures(results[i])' = Failures(results[i])
    BY <2>1 DEF Failures
  <2>4. QED
    BY <1>1, <2>1, <2>2, <2>3 DEF MainIsRight, Files
<1>8. QED
  BY <1>3, <1>4, <1>5, <1>6, <1>7 DEF Next, FileStep

-----------------------------------------------------------------------------
\* A number that is given to a file has not been given before.
LEMMA GivenStep ==
  ASSUME TypeInv, IdsAreFresh, NEW f \in Files, NEW s \in Seq(Nat), s = Append(ids[f], nextId),
         ids' = [ids EXCEPT ![f] = s], nextId' = nextId + 1, suite' = suite
  PROVE  IdsAreFresh'
<1>1. ids \in [Files -> Seq(Nat)] /\ nextId \in Nat /\ Files' = Files
  BY DEF TypeInv, Files
<1>2. PICK last \in Nat : last = Len(ids[f]) + 1
  BY <1>1
<1>3. /\ DOMAIN s = DOMAIN ids[f] \cup {last} /\ s[last] = nextId /\ last \notin DOMAIN ids[f]
      /\ \A i \in DOMAIN ids[f] : s[i] = ids[f][i]
  BY <1>1, <1>2
<1>4. ids'[f] = s /\ \A g \in Files : g # f => ids'[g] = ids[g]
  BY <1>1
<1>5. \A g \in Files : \A i \in DOMAIN ids[g] : ids[g][i] \in Nat /\ ids[g][i] < nextId
  BY <1>1 DEF IdsAreFresh
<1>6. ASSUME NEW g \in Files, NEW i \in DOMAIN ids'[g]
      PROVE  \/ i \in DOMAIN ids[g] /\ ids'[g][i] = ids[g][i]
             \/ g = f /\ i = last /\ ids'[g][i] = nextId
  BY <1>3, <1>4
<1>7. \A g \in Files : \A i \in DOMAIN ids'[g] : ids'[g][i] < nextId'
  BY <1>1, <1>5, <1>6
<1>8. ASSUME NEW g \in Files, NEW k \in Files, NEW i \in DOMAIN ids'[g], NEW j \in DOMAIN ids'[k],
             ids'[g][i] = ids'[k][j]
      PROVE  g = k /\ i = j
  <2> DEFINE Old(h, l) == l \in DOMAIN ids[h] /\ ids'[h][l] = ids[h][l]
             New(h, l) == h = f /\ l = last /\ ids'[h][l] = nextId
  <2>1. CASE Old(g, i) /\ Old(k, j)
    BY <1>8, <2>1 DEF IdsAreFresh
  <2>2. CASE New(g, i) /\ New(k, j)
    BY <2>2
  <2>3. CASE Old(g, i) /\ New(k, j)
    <3>1. ids[g][i] < nextId /\ ids[g][i] = nextId
      BY <1>5, <1>8, <2>3
    <3>2. QED
      BY <1>1, <3>1
  <2>4. CASE New(g, i) /\ Old(k, j)
    <3>1. ids[k][j] < nextId /\ ids[k][j] = nextId
      BY <1>5, <1>8, <2>4
    <3>2. QED
      BY <1>1, <3>1
  <2>5. (Old(g, i) \/ New(g, i)) /\ (Old(k, j) \/ New(k, j))
    BY <1>6
  <2>6. QED
    BY <2>1, <2>2, <2>3, <2>4, <2>5
<1>9. QED
  BY <1>1, <1>7, <1>8 DEF IdsAreFresh

\* Every step keeps the numbers different.
LEMMA IdsStep ==
  ASSUME IInv, [Next]_vars
  PROVE  IdsAreFresh'
<1>1. TypeInv /\ IdsAreFresh /\ \A g \in Files : ThreadIsRight(g)
  BY DEF IInv
<1>2. ASSUME UNCHANGED <<suite, ids, nextId>>
      PROVE  IdsAreFresh'
  BY <1>1, <1>2 DEF IdsAreFresh, Files
<1>3. ASSUME NEW f \in Files, ReadFile(f)
      PROVE  IdsAreFresh'
  <2>1. CASE suite[f].kind \in {"unreadable", "empty"}
    <3>1. UNCHANGED <<suite, ids, nextId>>
      BY <1>3, <2>1 DEF ReadFile
    <3>2. QED
      BY <1>2, <3>1
  <2>2. CASE suite[f].kind \notin {"unreadable", "empty"}
    <3>1. ids' = [ids EXCEPT ![f] = <<nextId>>] /\ nextId' = nextId + 1 /\ suite' = suite /\ thread[f] = "read"
      BY <1>3, <2>2 DEF ReadFile
    <3>2. ids[f] = <<>> /\ nextId \in Nat
      BY <1>1, <3>1 DEF ThreadIsRight, TypeInv
    <3>3. <<nextId>> \in Seq(Nat) /\ <<nextId>> = Append(ids[f], nextId)
      BY <3>2
    <3>4. QED
      BY <1>1, <3>1, <3>3, GivenStep
  <2>3. QED
    BY <2>1, <2>2
<1>4. ASSUME NEW f \in Files, Compile(f)
      PROVE  IdsAreFresh'
  <2>1. ids' = [ids EXCEPT ![f] = Append(ids[f], nextId)] /\ nextId' = nextId + 1 /\ suite' = suite
    BY <1>4 DEF Compile, Taken
  <2>2. Append(ids[f], nextId) \in Seq(Nat)
    BY <1>1 DEF TypeInv
  <2>3. QED
    BY <1>1, <2>1, <2>2, GivenStep
<1>5. ASSUME NEW f \in Files, FileStep(f), ~ReadFile(f), ~Compile(f)
      PROVE  UNCHANGED <<suite, ids, nextId>>
  BY <1>5 DEF FileStep, Thread, Clean, StartTest, SpawnFails, Reap, SeeLate, Kill, JoinDrains, FinishFile,
              TryWaitFails, Waited, Process, Write, Exit, Drain, DeadlinePasses, OnlyProc, files
<1>6. CASE UNCHANGED vars \/ SpawnChunk \/ JoinThread \/ Report
  <2>1. UNCHANGED <<suite, ids, nextId>>
    BY <1>6 DEF vars, files, SpawnChunk, JoinThread, Report
  <2>2. QED
    BY <1>2, <2>1
<1>7. QED
  BY <1>2, <1>3, <1>4, <1>5, <1>6 DEF Next, FileStep

-----------------------------------------------------------------------------
\* What is on disk, one entry at a time.
LEMMA DiskFacts ==
  ASSUME IInv
  PROVE  /\ \A d \in disk : \/ \E g \in HasRunner : d = Runner(g)
                            \/ \E g \in HasBinary : d = Binary(g)
         /\ \A g \in HasRunner : Runner(g) \in disk /\ 1 \in DOMAIN ids[g] /\ g \in Files
         /\ \A g \in HasBinary : Binary(g) \in disk /\ 2 \in DOMAIN ids[g] /\ g \in Files
         /\ \A g \in Files : 1 \in DOMAIN ids[g] => ids[g][1] < nextId
         /\ \A g \in Files : 2 \in DOMAIN ids[g] => ids[g][2] < nextId
         /\ \A f, g \in Files : 1 \in DOMAIN ids[f] /\ 1 \in DOMAIN ids[g] /\ ids[f][1] = ids[g][1] => f = g
         /\ \A f, g \in Files : 2 \in DOMAIN ids[f] /\ 2 \in DOMAIN ids[g] /\ ids[f][2] = ids[g][2] => f = g
<1>1. ids \in [Files -> Seq(Nat)] /\ \A g \in Files : ThreadIsRight(g)
  BY DEF IInv, TypeInv
<1>2. \A g \in HasRunner : 1 \in DOMAIN ids[g] /\ g \in Files
  BY <1>1 DEF HasRunner, ThreadIsRight
<1>3. \A g \in HasBinary : 2 \in DOMAIN ids[g] /\ g \in Files
  BY <1>1 DEF HasBinary, ThreadIsRight
<1>4. disk = {Runner(g) : g \in HasRunner} \cup {Binary(g) : g \in HasBinary}
  BY DEF IInv, DiskIsRight
<1>5. IdsAreFresh
  BY DEF IInv
<1>6. QED
  BY <1>2, <1>3, <1>4, <1>5 DEF IdsAreFresh

\* A step that moves no file into or out of the directories.
LEMMA DiskKept ==
  ASSUME IInv, UNCHANGED <<suite, disk, ids>>, HasRunner' = HasRunner, HasBinary' = HasBinary
  PROVE  DiskIsRight'
<1>1. disk = {Runner(g) : g \in HasRunner} \cup {Binary(g) : g \in HasBinary}
  BY DEF IInv, DiskIsRight
<1>2. \A g : Runner(g)' = Runner(g) /\ Binary(g)' = Binary(g)
  BY DEF Runner, Binary
<1>3. QED
  BY <1>1, <1>2 DEF DiskIsRight

\* Every step keeps the directories right.
LEMMA DiskStep ==
  ASSUME IInv, [Next]_vars
  PROVE  DiskIsRight'
<1>1. /\ TypeInv /\ \A g \in Files : ThreadIsRight(g)
      /\ thread \in [Files -> Labels] /\ ids \in [Files -> Seq(Nat)] /\ nextId \in Nat
  BY DEF IInv, TypeInv
<1>2. ASSUME NEW f \in Files, ReadFile(f)
      PROVE  DiskIsRight'
  <2>1. suite' = suite /\ Files' = Files /\ thread[f] = "read" /\ f \notin HasRunner /\ f \notin HasBinary
    BY <1>2 DEF ReadFile, Files, HasRunner, HasBinary, Testing
  <2>2. CASE suite[f].kind \in {"unreadable", "empty"}
    <3>1. UNCHANGED <<ids, disk>> /\ thread' = [thread EXCEPT ![f] = "done"]
      BY <1>2, <2>2 DEF ReadFile, At
    <3>2. HasRunner' = HasRunner /\ HasBinary' = HasBinary
      BY <1>1, <2>1, <3>1 DEF HasRunner, HasBinary, Testing
    <3>3. QED
      BY <2>1, <3>1, <3>2, DiskKept
  <2>3. CASE suite[f].kind \notin {"unreadable", "empty"}
    <3> DEFINE new == [kind |-> "runner", id |-> nextId, of |-> f]
    <3>1. /\ ids' = [ids EXCEPT ![f] = <<nextId>>] /\ thread' = [thread EXCEPT ![f] = "compile"]
          /\ disk' = {d \in disk : ~ (d.kind = "runner" /\ d.id = nextId)} \cup {new}
      BY <1>2, <2>3 DEF ReadFile, At
    <3>2. HasRunner' = HasRunner \cup {f} /\ HasBinary' = HasBinary
      BY <1>1, <2>1, <3>1 DEF HasRunner, HasBinary, Testing
    <3>3. Runner(f)' = new
      BY <1>1, <3>1 DEF Runner
    <3>4. \A g \in HasRunner : Runner(g)' = Runner(g)
      BY <1>1, <2>1, <3>1, DiskFacts DEF Runner
    <3>5. \A g \in HasBinary : Binary(g)' = Binary(g)
      BY <1>1, <2>1, <3>1, DiskFacts DEF Binary
    <3>6. \A d \in disk : ~ (d.kind = "runner" /\ d.id = nextId)
      BY <1>1, DiskFacts DEF Runner, Binary
    <3>7. disk' = disk \cup {new}
      BY <3>1, <3>6
    <3> HIDE DEF new
    <3>8. disk' = {Runner(g)' : g \in HasRunner'} \cup {Binary(g)' : g \in HasBinary'}
      BY <3>2, <3>3, <3>4, <3>5, <3>7, DiskFacts
    <3>9. QED
      BY <3>8 DEF DiskIsRight
  <2>4. QED
    BY <2>2, <2>3
<1>3. ASSUME NEW f \in Files, Compile(f)
      PROVE  DiskIsRight'
  <2>1. /\ suite' = suite /\ Files' = Files /\ thread[f] = "compile" /\ thread' = [thread EXCEPT ![f] = "clean"]
        /\ ids' = [ids EXCEPT ![f] = Append(ids[f], nextId)]
    BY <1>3 DEF Compile, At, Files
  <2>2. f \in HasRunner /\ f \notin HasBinary /\ Len(ids[f]) = 1
    BY <1>1, <2>1 DEF HasRunner, HasBinary, Testing, ThreadIsRight
  <2>3. HasRunner' = HasRunner /\ HasBinary' = HasBinary \cup (IF suite[f].kind = "tests" THEN {f} ELSE {})
    BY <1>1, <2>1 DEF HasRunner, HasBinary, Testing
  <2>4. ids'[f][1] = ids[f][1] /\ ids'[f][2] = nextId
    <3>1. PICK s \in Seq(Nat) : s = ids[f]
      BY <1>1
    <3>2. ids'[f] = Append(s, nextId) /\ Len(s) = 1
      BY <1>1, <2>1, <2>2, <3>1
    <3>3. PICK q : q = Append(s, nextId)
      OBVIOUS
    <3>4. (\A i \in 1 .. Len(s) : q[i] = s[i]) /\ q[Len(s) + 1] = nextId
      <4>1. nextId \in Nat
        BY <1>1
      <4>2. QED
        BY <3>3, <4>1
    <3>5. q[1] = s[1] /\ q[2] = nextId
      BY <3>2, <3>4
    <3>6. QED
      BY <3>1, <3>2, <3>3, <3>5
  <2>5. \A g \in HasRunner : Runner(g)' = Runner(g)
    BY <1>1, <2>1, <2>4, DiskFacts DEF Runner
  <2>6. \A g \in HasBinary : Binary(g)' = Binary(g)
    BY <1>1, <2>1, <2>2, DiskFacts DEF Binary
  <2> DEFINE mine == {e \in disk : /\ e.kind = "runner" /\ e.id = ids[f][1] /\ suite[e.of].kind = "tests"}
             new  == [kind |-> "binary", id |-> nextId, of |-> f]
  <2>7. disk' = {d \in disk : ~ (d.kind = "binary" /\ d.id = nextId /\ suite[f].kind = "tests")}
                  \cup {[kind |-> "binary", id |-> nextId, of |-> d.of] : d \in mine}
    BY <1>3 DEF Compile
  <2>8. \A d \in disk : ~ (d.kind = "binary" /\ d.id = nextId)
    BY <1>1, DiskFacts DEF Runner, Binary
  <2>9. mine = IF suite[f].kind = "tests" THEN {Runner(f)} ELSE {}
    <3>1. ASSUME NEW e \in mine
          PROVE  e = Runner(f) /\ suite[f].kind = "tests"
      <4>1. PICK g \in HasRunner : e = Runner(g)
        BY DiskFacts DEF Binary
      <4>2. g = f
        BY <2>2, <4>1, DiskFacts DEF Runner
      <4>3. QED
        BY <4>1, <4>2 DEF Runner
    <3>2. Runner(f) \in disk /\ Runner(f).kind = "runner" /\ Runner(f).id = ids[f][1] /\ Runner(f).of = f
      BY <2>2, DiskFacts DEF Runner
    <3>3. QED
      BY <3>1, <3>2
  <2>10. {[kind |-> "binary", id |-> nextId, of |-> d.of] : d \in mine} =
           IF suite[f].kind = "tests" THEN {new} ELSE {}
    <3>1. Runner(f).of = f
      BY DEF Runner
    <3> HIDE DEF mine
    <3>2. CASE suite[f].kind = "tests"
      BY <2>9, <3>1, <3>2
    <3>3. CASE suite[f].kind # "tests"
      BY <2>9, <3>3
    <3>4. QED
      BY <3>2, <3>3
  <2>11. disk' = disk \cup (IF suite[f].kind = "tests" THEN {new} ELSE {})
    BY <2>7, <2>8, <2>10
  <2>12. Binary(f)' = new
    BY <2>4 DEF Binary
  <2> HIDE DEF new
  <2>13. disk' = {Runner(g)' : g \in HasRunner'} \cup {Binary(g)' : g \in HasBinary'}
    BY <2>3, <2>5, <2>6, <2>11, <2>12, DiskFacts
  <2>14. QED
    BY <2>13 DEF DiskIsRight
<1>4. ASSUME NEW f \in Files, Clean(f)
      PROVE  DiskIsRight'
  <2>1. /\ suite' = suite /\ Files' = Files /\ ids' = ids /\ thread[f] = "clean"
        /\ thread' = [thread EXCEPT ![f] = IF suite[f].kind = "tests" THEN "next" ELSE "done"]
        /\ disk' = {d \in disk : ~ (d.kind = "runner" /\ d.id = ids[f][1])}
    BY <1>4 DEF Clean, At, Files
  <2>2. f \in HasRunner /\ HasRunner' = HasRunner \ {f} /\ HasBinary' = HasBinary
    BY <1>1, <2>1 DEF HasRunner, HasBinary, Testing
  <2>3. \A g : Runner(g)' = Runner(g) /\ Binary(g)' = Binary(g)
    BY <2>1 DEF Runner, Binary
  <2>4. \A g \in HasRunner : g # f => Runner(g) \in disk'
    BY <2>1, <2>2, DiskFacts DEF Runner
  <2>5. \A g \in HasBinary : Binary(g) \in disk'
    BY <2>1, DiskFacts DEF Binary
  <2>6. Runner(f) \notin disk'
    BY <2>1 DEF Runner
  <2>7. disk' = {Runner(g)' : g \in HasRunner'} \cup {Binary(g)' : g \in HasBinary'}
    BY <2>1, <2>2, <2>3, <2>4, <2>5, <2>6, DiskFacts
  <2>8. QED
    BY <2>7 DEF DiskIsRight
<1>5. ASSUME NEW f \in Files, FinishFile(f)
      PROVE  DiskIsRight'
  <2>1. /\ suite' = suite /\ Files' = Files /\ ids' = ids /\ thread[f] = "next"
        /\ thread' = [thread EXCEPT ![f] = "done"]
        /\ disk' = {d \in disk : ~ (d.kind = "binary" /\ d.id = ids[f][2])}
    BY <1>5 DEF FinishFile, At, Files
  <2>2. f \in HasBinary /\ HasRunner' = HasRunner /\ HasBinary' = HasBinary \ {f}
    BY <1>1, <2>1 DEF HasRunner, HasBinary, Testing, ThreadIsRight
  <2>3. \A g : Runner(g)' = Runner(g) /\ Binary(g)' = Binary(g)
    BY <2>1 DEF Runner, Binary
  <2>4. \A g \in HasBinary : g # f => Binary(g) \in disk'
    BY <2>1, <2>2, DiskFacts DEF Binary
  <2>5. \A g \in HasRunner : Runner(g) \in disk'
    BY <2>1, DiskFacts DEF Runner
  <2>6. Binary(f) \notin disk'
    BY <2>1 DEF Binary
  <2>7. disk' = {Runner(g)' : g \in HasRunner'} \cup {Binary(g)' : g \in HasBinary'}
    BY <2>1, <2>2, <2>3, <2>4, <2>5, <2>6, DiskFacts
  <2>8. QED
    BY <2>7 DEF DiskIsRight
<1>6. ASSUME UNCHANGED <<suite, disk, ids>>, NEW f \in Files, thread[f] \in Testing,
             NEW to \in Testing, thread' = [thread EXCEPT ![f] = to]
      PROVE  DiskIsRight'
  <2>1. HasRunner' = HasRunner /\ HasBinary' = HasBinary
    BY <1>1, <1>6 DEF HasRunner, HasBinary, Testing, Files
  <2>2. QED
    BY <1>6, <2>1, DiskKept
<1>7. ASSUME NEW f \in Files,
             \/ StartTest(f) \/ Reap(f) \/ SeeLate(f) \/ Kill(f) \/ JoinDrains(f)
             \/ SpawnFails(f) \/ TryWaitFails(f)
      PROVE  DiskIsRight'
  <2>1. /\ UNCHANGED <<suite, disk, ids>> /\ thread[f] \in Testing
        /\ \E to \in Testing : thread' = [thread EXCEPT ![f] = to]
    BY <1>7 DEF StartTest, Reap, SeeLate, Kill, JoinDrains, SpawnFails, TryWaitFails, Waited, At, Testing
  <2>2. QED
    BY <1>6, <2>1
<1>8. ASSUME UNCHANGED <<suite, thread, disk, ids>>
      PROVE  DiskIsRight'
  <2>1. HasRunner' = HasRunner /\ HasBinary' = HasBinary
    BY <1>8 DEF HasRunner, HasBinary, Files
  <2>2. QED
    BY <1>8, <2>1, DiskKept
<1>9. CASE SpawnChunk
  <2>1. UNCHANGED <<suite, disk, ids>>
    BY <1>9 DEF SpawnChunk
  <2>2. \A g \in Files : thread'[g] = thread[g] \/ (thread[g] = "none" /\ thread'[g] = "read")
    <3>1. \A g \in Chunk(Len(results)) : thread[g] = "none"
      <4>1. results \in Seq([file : Files, tap : Seq(Lines)]) /\ MainIsRight
        BY <1>1 DEF TypeInv, IInv
      <4>2. \A g \in Chunk(Len(results)) : g \in Files /\ g \notin DOMAIN results
        BY <1>1, <4>1, SuiteFacts DEF Chunk
      <4>3. QED
        BY <1>9, <4>1, <4>2 DEF MainIsRight, SpawnChunk
    <3>2. QED
      BY <1>9, <3>1 DEF SpawnChunk
  <2>3. HasRunner' = HasRunner /\ HasBinary' = HasBinary
    BY <2>1, <2>2 DEF HasRunner, HasBinary, Testing, Files
  <2>4. QED
    BY <2>1, <2>3, DiskKept
<1>10. CASE UNCHANGED vars \/ JoinThread \/ Report
  BY <1>8, <1>10 DEF vars, JoinThread, Report, files
<1>11. ASSUME NEW f \in Files, Process(f) \/ Drain(f) \/ DeadlinePasses(f)
       PROVE  DiskIsRight'
  BY <1>8, <1>11 DEF Process, Write, Exit, Drain, DeadlinePasses, OnlyProc, files
<1>12. QED
  BY <1>2, <1>3, <1>4, <1>5, <1>7, <1>9, <1>10, <1>11 DEF Next, Thread

-----------------------------------------------------------------------------
(* What the runner promises.                                               *)

LEMMA InitIInv ==
  Init => IInv
<1> SUFFICES ASSUME Init
             PROVE  IInv
  OBVIOUS
<1>1. suite \in Suites /\ suite \in Seq(Sources)
  BY SuitesAssumption DEF Init, Sources
<1>2. TypeInv
  <2>1. NoChild \in Children /\ Outcome(None, FALSE) \in Outcomes
    BY DEF NoChild, Children, Outcome, Outcomes
  <2>2. child \in [Files -> Children] /\ code \in [Files -> Outcomes]
    BY <2>1 DEF Init
  <2>3. <<>> \in Seq(Lines) /\ <<>> \in Seq(Nat) /\ <<>> \in Seq([file : Files, tap : Seq(Lines)])
    OBVIOUS
  <2>4. out \in [Files -> Seq(Lines)] /\ ids \in [Files -> Seq(Nat)]
    BY <2>3 DEF Init
  <2>5. /\ thread \in [Files -> Labels] /\ test \in [Files -> Nat] /\ late \in [Files -> BOOLEAN]
        /\ results \in Seq([file : Files, tap : Seq(Lines)])
    BY <2>3 DEF Init, Labels
  <2>6. QED
    BY <1>1, <2>2, <2>4, <2>5 DEF Init, TypeInv
<1>3. ASSUME NEW f \in Files
      PROVE  ThreadIsRight(f) /\ ReportIsRight(f) /\ TestIsRight(f)
  BY <1>3 DEF Init, ThreadIsRight, ReportIsRight, TestIsRight, Reported, NoChild, Testing
<1>4. MainIsRight
  BY <1>1 DEF Init, MainIsRight
<1>5. IdsAreFresh
  BY DEF Init, IdsAreFresh
<1>6. DiskIsRight
  BY DEF Init, DiskIsRight, HasRunner, HasBinary, Testing
<1>7. QED
  BY <1>2, <1>3, <1>4, <1>5, <1>6 DEF IInv

LEMMA IInvStep ==
  IInv /\ [Next]_vars => IInv'
<1> SUFFICES ASSUME IInv, [Next]_vars
             PROVE  IInv'
  OBVIOUS
<1>1. TypeInv'
  BY TypeStep DEF IInv
<1>2. (\A f \in Files : ThreadIsRight(f) /\ ReportIsRight(f) /\ TestIsRight(f))'
  <2>1. suite' = suite
    BY OthersKept DEF IInv, Next, FileStep, vars, SpawnChunk, JoinThread, Report
  <2>2. QED
    BY <2>1, FilesStep DEF FileIsRight, Files
<1>3. MainIsRight' /\ IdsAreFresh' /\ DiskIsRight'
  BY MainStep, IdsStep, DiskStep
<1>4. QED
  BY <1>1, <1>2, <1>3 DEF IInv

\* The types, what a thread has done at each of its labels, what it has reported,
\* how its test ended, the results joined so far, the numbers of RUN_COUNTER and
\* the files in the shared directories: all of it holds for ever
\* (run_test_files_parallel, run_test_file_core, run_binary).
THEOREM Invariance == Spec => []IInv
<1>1. Init => IInv
  BY InitIInv
<1>2. IInv /\ [Next]_vars => IInv'
  BY IInvStep
<1>3. QED
  BY <1>1, <1>2, PTL DEF Spec

\* Whatever thread is done first, each TAP line says ok exactly when its test ended
\* the way its name asks for, the results are those of the files in their order,
\* and the exit code is 1 exactly when something failed or could not be run.
THEOREM ReportIsTrue == Spec => []TapIsRight
<1>1. ASSUME IInv
      PROVE  TapIsRight
  <2>1. TypeInv /\ MainIsRight /\ \A f \in Files : ReportIsRight(f)
    BY <1>1 DEF IInv
  <2>2. \A i \in DOMAIN results : results[i].file = i /\ results[i].tap = out[i]
    BY <2>1 DEF MainIsRight
  <2>3. ASSUME exit # None
        PROVE  /\ Len(results) = Len(suite)
               /\ exit = "0" <=> \A f \in Files : \/ suite[f].kind = "empty"
                                                  \/ suite[f].kind = "tests" /\ Failures(results[f]) = {}
    <3>1. /\ Len(results) = Len(suite)
          /\ exit = "0" <=> \A i \in DOMAIN results : Failures(results[i]) = {}
      BY <2>1, <2>3 DEF MainIsRight
    <3>2. DOMAIN results = Files
      BY <2>1, <3>1 DEF TypeInv, Files
    <3>3. ASSUME NEW f \in Files
          PROVE  Failures(results[f]) = {} <=> \/ suite[f].kind = "empty"
                                               \/ suite[f].kind = "tests" /\ Failures(results[f]) = {}
      <4>1. thread[f] = "done" /\ results[f].tap = out[f]
        BY <2>1, <2>2, <3>2 DEF MainIsRight
      <4>2. suite[f].kind \in Kinds
        BY <2>1, SuiteFacts
      <4>3. CASE suite[f].kind = "empty"
        <5>1. out[f] = <<>>
          BY <2>1, <4>3 DEF ReportIsRight
        <5>2. QED
          BY <4>1, <4>3, <5>1 DEF Failures
      <4>4. CASE suite[f].kind \in {"unreadable", "uncompilable"}
        <5>1. 1 \in DOMAIN out[f] /\ ~out[f][1].ok
          BY <2>1, <4>1, <4>4 DEF ReportIsRight
        <5>2. 1 \in Failures(results[f])
          BY <4>1, <5>1 DEF Failures
        <5>3. QED
          BY <4>4, <5>2
      <4>5. CASE suite[f].kind = "tests"
        BY <4>5
      <4>6. QED
        BY <4>2, <4>3, <4>4, <4>5 DEF Kinds
    <3>4. QED
      BY <3>1, <3>2, <3>3
  <2>4. QED
    BY <2>1, <2>2, <2>3 DEF TapIsRight, ReportIsRight
<1>2. QED
  BY <1>1, Invariance, PTL

\* A thread runs the binary of its own file out of the directory all threads write
\* to, nothing is left there when the command exits, and no test process outlives
\* its test unless try_wait failed.
THEOREM TracesAreRemoved == Spec => []NothingIsLeft
<1>1. ASSUME IInv
      PROVE  NothingIsLeft
  <2>1. TypeInv /\ MainIsRight /\ \A f \in Files : ThreadIsRight(f) /\ TestIsRight(f)
    BY <1>1 DEF IInv
  <2>2. ASSUME NEW f \in Files, thread[f] \in {"next", "wait", "kill", "join"}
        PROVE  BinaryOf(f) = {f}
    <3>1. f \in HasBinary
      BY <2>1, <2>2 DEF HasBinary, Testing, ThreadIsRight
    <3>2. Binary(f) \in disk
      BY <1>1, <3>1, DiskFacts
    <3>3. ASSUME NEW d \in disk, d.kind = "binary", d.id = ids[f][2]
          PROVE  d = Binary(f)
      <4>1. PICK g \in HasBinary : d = Binary(g)
        BY <1>1, <3>3, DiskFacts DEF Runner
      <4>2. g = f
        BY <1>1, <3>1, <3>3, <4>1, DiskFacts DEF Binary
      <4>3. QED
        BY <4>1, <4>2
    <3>4. Binary(f).kind = "binary" /\ Binary(f).id = ids[f][2] /\ Binary(f).of = f
      BY DEF Binary
    <3>5. {e \in disk : e.kind = "binary" /\ e.id = ids[f][2]} = {Binary(f)}
      BY <3>2, <3>3, <3>4
    <3>6. QED
      BY <3>4, <3>5 DEF BinaryOf
  <2>3. ASSUME main = "exited"
        PROVE  disk = {}
    <3>1. \A f \in Files : thread[f] = "done"
      <4>1. DOMAIN results = Files
        BY <2>1, <2>3 DEF MainIsRight, TypeInv, Files
      <4>2. QED
        BY <2>1, <4>1 DEF MainIsRight
    <3>2. HasRunner = {} /\ HasBinary = {}
      BY <3>1 DEF HasRunner, HasBinary, Testing
    <3>3. QED
      BY <1>1, <3>2 DEF IInv, DiskIsRight
  <2>4. QED
    BY <2>1, <2>2, <2>3 DEF NothingIsLeft, TestIsRight
<1>2. QED
  BY <1>1, Invariance, PTL
=============================================================================
