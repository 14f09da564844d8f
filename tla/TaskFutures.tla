---------------------------- MODULE TaskFutures ----------------------------
(***************************************************************************)
(* What the task runtime of runtime/src/lib.rs promises a Tyra program,    *)
(* with no threads, no queue and no locks in it: a handle is a write-once  *)
(* future.  A spawned future resolves with the value of its function; a    *)
(* select future resolves with the value of one of its sources that has    *)
(* resolved before it; awaiting a handle delivers the value it resolved    *)
(* with, once.  TaskRuntime implements this specification.                 *)
(***************************************************************************)
EXTENDS Naturals

CONSTANT MaxTasks            \* how many futures one behaviour creates

Futures    == 1..MaxTasks
Unresolved == 0              \* also "not delivered"

VARIABLES created,           \* futures 1..created exist
          deps,              \* the sources of a select future, {} for a spawned one
          value,             \* the value a future resolved with
          delivered          \* the value an await of the handle returned

vars == <<created, deps, value, delivered>>

Init == /\ created   = 0
        /\ deps      = [f \in Futures |-> {}]
        /\ value     = [f \in Futures |-> Unresolved]
        /\ delivered = [f \in Futures |-> Unresolved]

\* A spawn (S = {}) or a select over the futures S.
Create(f, S) == /\ f = created + 1
                /\ S \subseteq 1..created
                /\ created' = f
                /\ deps'    = [deps EXCEPT ![f] = S]
                /\ UNCHANGED <<value, delivered>>

\* The function of future f is identified with f, so its value is f.
ResolveSpawned(f) == /\ f <= created
                     /\ deps[f] = {}
                     /\ value[f] = Unresolved
                     /\ value' = [value EXCEPT ![f] = f]
                     /\ UNCHANGED <<created, deps, delivered>>

ResolveSelect(f) == /\ value[f] = Unresolved
                    /\ \E s \in deps[f] : /\ value[s] # Unresolved
                                          /\ value' = [value EXCEPT ![f] = value[s]]
                    /\ UNCHANGED <<created, deps, delivered>>

Deliver(f) == /\ value[f] # Unresolved
              /\ delivered[f] = Unresolved
              /\ delivered' = [delivered EXCEPT ![f] = value[f]]
              /\ UNCHANGED <<created, deps, value>>

Next == \E f \in Futures : \/ \E S \in SUBSET (1..created) : Create(f, S)
                           \/ ResolveSpawned(f)
                           \/ ResolveSelect(f)
                           \/ Deliver(f)

Spec == Init /\ [][Next]_vars
=============================================================================
