---------------------------- MODULE MCTestRunner ----------------------------
(* Suites of two or three files, with tests that pass, fail, panic, hang,  *)
(* exit by themselves, are killed, write more than a pipe holds, write the *)
(* runner's marks or leave a process behind.                               *)
EXTENDS TestRunner

S(panics, ends, writes) == [panics |-> panics, ends |-> ends, says |-> "nothing", writes |-> writes, leaves |-> FALSE]

Pass   == S(FALSE, "ok", 0)
Loud   == S(FALSE, "ok", 2)
Fail   == S(FALSE, "err", 1)
Hang   == S(FALSE, "never", 2)
Leave  == [Pass EXCEPT !.leaves = TRUE]
Denies == [S(FALSE, "exit 0", 1) EXCEPT !.says = "not ok"]
Panic  == S(TRUE, "panic", 1)
Calm   == S(TRUE, "ok", 0)
Oob    == S(TRUE, "bounds", 0)
Exit1  == S(TRUE, "exit 1", 0)
Posed  == S(TRUE, "exit 101", 0)
Feint  == [S(TRUE, "exit 101", 1) EXCEPT !.says = "sentinel"]
Killed == S(TRUE, "signal", 0)

F(tests)   == [kind |-> "tests", tests |-> tests]
Other(k)   == [kind |-> k, tests |-> <<>>]

MCSuites == {<<F(<<Loud, Pass>>), F(<<Fail>>)>>,
             <<F(<<Panic, Posed>>), F(<<Calm>>)>>,
             <<F(<<Feint, Exit1>>), F(<<Denies>>)>>,
             <<F(<<Killed, Oob>>), Other("empty")>>,
             <<F(<<Hang, Pass>>), Other("uncompilable")>>,
             <<F(<<Leave>>), F(<<Loud>>)>>,
             <<F(<<Pass>>), F(<<Pass>>), Other("empty")>>,
             <<Other("uncompilable"), Other("unreadable"), F(<<Panic>>)>>}
==============================================================================
