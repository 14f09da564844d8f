-------------------------- MODULE TaskSelectOrder --------------------------
(***************************************************************************)
(* Which source a select reports.  The history variable doneAtCall records *)
(* the sources that were Done when tyra_task_select was called; the        *)
(* dispatcher looks at them later, on its own thread and in list order.    *)
(***************************************************************************)
EXTENDS TaskRuntime

VARIABLE doneAtCall

orderVars == <<vars, doneAtCall>>

OrderInit == Init /\ doneAtCall = [t \in Tasks |-> {}]

\* The only step that adds a task with sources is the call of select.
DoneAtCall(s) == IF srcs[s] = <<>> /\ srcs'[s] # <<>>
                 THEN {t \in Tasks : Done(t) /\ \E i \in DOMAIN srcs'[s] : srcs'[s][i] = t}
                 ELSE doneAtCall[s]

OrderNext == Next /\ doneAtCall' = [s \in Tasks |-> DoneAtCall(s)]

OrderSpec == /\ OrderInit
             /\ [][OrderNext]_orderVars
             /\ Fairness

\* What the select reports is never the result of a source listed after one
\* that was already Done at the call: the scan in list order stops there.
WinnerNotListedAfterDone ==
  \A s \in Tasks : Done(s) =>
    \A i \in DOMAIN srcs[s] : srcs[s][i] \in doneAtCall[s] =>
      \E j \in 1..i : state[srcs[s][j]] = state[s]
=============================================================================
