---------------------------- MODULE TaskRuntime ----------------------------
(***************************************************************************)
(* The task scheduler of runtime/src/lib.rs: a fixed pool of workers on    *)
(* one FIFO channel, tasks with a mutex, a condition variable and a list   *)
(* of select subscribers, and one dispatcher thread per select call.       *)
(*                                                                         *)
(* A task is named by the order of its creation.  Each task has one thread *)
(* of control that will publish its result: the worker that took its job   *)
(* or, for the task a select returns, its dispatcher.  pc[t] is where that *)
(* thread is; pc[Main] is the program's main.  While a thunk runs, pc[t]   *)
(* is also where the Tyra code of t is: awaits block the worker under it.  *)
(*                                                                         *)
(* The result of the thunk of t is identified with t, so that a result     *)
(* says whose it is.  A task's mutex is held across steps only while its   *)
(* result is being published, so Locked is derived from pc; every other    *)
(* critical section is one action guarded by ~Locked.                      *)
(***************************************************************************)
EXTENDS Naturals, Sequences, FiniteSets

CONSTANTS Workers,     \* the pool, available_parallelism() threads
          MaxTasks,    \* bound: tasks and selects one behaviour creates
          MaxList,     \* bound: length of a join_all or select list
          MaxLost,     \* bound: handles lost before their function has returned
          Nesting      \* whether spawned functions spawn tasks themselves

ASSUME WorkersAssumption  == IsFiniteSet(Workers) /\ Workers # {}
ASSUME MaxTasksAssumption == MaxTasks \in Nat
ASSUME MaxListAssumption  == MaxList \in Nat \ {0}
ASSUME MaxLostAssumption  == MaxLost \in Nat
ASSUME NestingAssumption  == Nesting \in BOOLEAN

Tasks   == 1..MaxTasks
Main    == 0
Threads == {Main} \cup Tasks
None    == 0           \* no task, and TaskState::Pending
Lost    == MaxTasks + 1 \* no thread: whose a handle is that left its scope un-awaited

VARIABLES
  queue,       \* the scheduler's channel of jobs
  worker,      \* worker[w]: the task whose job w has, or None
  created,     \* tasks 1..created exist
  srcs,        \* srcs[s]: the list given to the select that made s, <<>> if spawned
  state,       \* TaskInner.state: None while Pending, else the result
  waiters,     \* TaskInner.waiters: the dispatchers subscribed to the task
  refs,        \* Arcs of the task held by its handle and by its publisher
  clones,      \* Arcs of the task held by dispatchers
  owner,       \* the thread whose code may use the handle, or Lost; {} once consumed
  pc,          \* where each thread of control is
  todo,        \* the handles a blocked thread still has to await
  scan,        \* how far a dispatcher has gone through its sources
  inbox,       \* first message of the dispatcher's channel (no other is read)
  winner,      \* the value a dispatcher is about to publish
  got          \* what awaiting the handle returned

vars == <<queue, worker, created, srcs, state, waiters, refs, clones, owner,
          pc, todo, scan, inbox, winner, got>>

Labels == {"none",                      \* not created yet
           "queued",                    \* job in the channel
           "run",                       \* Tyra code running
           "lock", "wait",              \* in tyra_task_await: at the mutex, on the condvar
           "scan", "recv",              \* dispatcher: subscribing, on its channel
           "resolve",                   \* dispatcher: with a winning value
           "send", "drop",              \* publisher: holding the mutex, after it
           "done",                      \* job dropped, or dispatcher gone
           "exited"}                    \* main has returned

IsSelect(t) == srcs[t] # <<>>
Done(t)     == state[t] # None
Locked(t)   == pc[t] = "send"
Up          == pc[Main] # "exited"
Owned(c)    == {t \in Tasks : owner[t] = {c}}

\* The lists of at most MaxList handles of c a program can build; a consuming
\* list names a handle once, as the affine rule requires.
Lists(c)    == UNION {[1..n -> Owned(c)] : n \in 1..MaxList}
Distinct(l) == \A i, j \in DOMAIN l : l[i] = l[j] => i = j

-----------------------------------------------------------------------------
Init == /\ queue   = <<>>
        /\ worker  = [w \in Workers |-> None]
        /\ created = 0
        /\ srcs    = [t \in Tasks |-> <<>>]
        /\ state   = [t \in Tasks |-> None]
        /\ waiters = [t \in Tasks |-> {}]
        /\ refs    = [t \in Tasks |-> {}]
        /\ clones  = [t \in Tasks |-> {}]
        /\ owner   = [t \in Tasks |-> {}]
        /\ pc      = [c \in Threads |-> IF c = Main THEN "run" ELSE "none"]
        /\ todo    = [c \in Threads |-> <<>>]
        /\ scan    = [t \in Tasks |-> 0]
        /\ inbox   = [t \in Tasks |-> None]
        /\ winner  = [t \in Tasks |-> None]
        /\ got     = [t \in Tasks |-> None]

\* Variants named X_... stand for a bug in X that a property has to notice.
\* Here: the channel is a stack, and a handle passed on stays with the caller.
Spawn_Lifo(c, t, give) ==
  /\ Up /\ pc[c] = "run"
  /\ c = Main \/ Nesting
  /\ t = created + 1
  /\ give \subseteq Owned(c)
  /\ created' = t
  /\ refs'  = [refs EXCEPT ![t] = {"handle", "thread"}]
  /\ owner' = [u \in Tasks |-> IF u = t THEN {c} ELSE IF u \in give THEN {t} ELSE owner[u]]
  /\ queue' = <<t>> \o queue
  /\ pc'    = [pc EXCEPT ![t] = "queued"]
  /\ UNCHANGED <<worker, srcs, state, waiters, clones, todo, scan, inbox, winner, got>>

Spawn_CopiesHandles(c, t, give) ==
  /\ Up /\ pc[c] = "run"
  /\ c = Main \/ Nesting
  /\ t = created + 1
  /\ give \subseteq Owned(c)
  /\ created' = t
  /\ refs'  = [refs EXCEPT ![t] = {"handle", "thread"}]
  /\ owner' = [u \in Tasks |-> IF u = t THEN {c} ELSE IF u \in give THEN {c, t} ELSE owner[u]]
  /\ queue' = Append(queue, t)
  /\ pc'    = [pc EXCEPT ![t] = "queued"]
  /\ UNCHANGED <<worker, srcs, state, waiters, clones, todo, scan, inbox, winner, got>>

\* c spawns t and hands the handles in give on as arguments of the call.
Spawn(c, t, give) ==
  /\ Up /\ pc[c] = "run"
  /\ c = Main \/ Nesting
  /\ t = created + 1
  /\ give \subseteq Owned(c)
  /\ created' = t
  /\ refs'  = [refs EXCEPT ![t] = {"handle", "thread"}]
  /\ owner' = [u \in Tasks |-> IF u = t THEN {c} ELSE IF u \in give THEN {t} ELSE owner[u]]
  /\ queue' = Append(queue, t)
  /\ pc'    = [pc EXCEPT ![t] = "queued"]
  /\ UNCHANGED <<worker, srcs, state, waiters, clones, todo, scan, inbox, winner, got>>

\* The variable that holds h leaves its scope: a function c has called returns,
\* or a block ends.  A handle is a bare pointer, so its Arc is not given back.
Forget(c, h) ==
  /\ Up /\ pc[c] = "run" /\ h \in Owned(c)
  /\ Cardinality({t \in Tasks : owner[t] = {Lost}}) < MaxLost
  /\ owner' = [owner EXCEPT ![h] = {Lost}]
  /\ UNCHANGED <<queue, worker, created, srcs, state, waiters, refs, clones, pc, todo, scan, inbox, winner, got>>

\* A free worker takes the oldest job and calls its thunk.
WorkerRecv(w) ==
  /\ Up /\ worker[w] = None /\ queue # <<>>
  /\ worker' = [worker EXCEPT ![w] = Head(queue)]
  /\ queue'  = Tail(queue)
  /\ pc'     = [pc EXCEPT ![Head(queue)] = "run"]
  /\ UNCHANGED <<created, srcs, state, waiters, refs, clones, owner, todo, scan, inbox, winner, got>>

-----------------------------------------------------------------------------
(* Publishing a result: the mutex, the state, the subscribers, notify_all, *)
(* the unlock.  worker_loop and the dispatcher do it with the same code.   *)

\* The thunk of t returns, and with it the handles it has not awaited leave
\* their scope; its worker takes the mutex and stores the result.
ThunkReturn(t) ==
  /\ Up /\ pc[t] = "run"
  /\ owner' = [u \in Tasks |-> IF u \in Owned(t) THEN {Lost} ELSE owner[u]]
  /\ state' = [state EXCEPT ![t] = t]
  /\ pc'    = [pc EXCEPT ![t] = "send"]
  /\ UNCHANGED <<queue, worker, created, srcs, waiters, refs, clones, todo, scan, inbox, winner, got>>

\* The dispatcher of s, with a winning value, does the same on its own task.
DispatcherPublish(s) ==
  /\ Up /\ pc[s] = "resolve"
  /\ state' = [state EXCEPT ![s] = winner[s]]
  /\ pc'    = [pc EXCEPT ![s] = "send"]
  /\ UNCHANGED <<queue, worker, created, srcs, waiters, refs, clones, owner, todo, scan, inbox, winner, got>>

\* The drained senders are dropped unused; the handle is sent for the result.
PublishTo_Silent(t, s) ==
  /\ waiters' = [waiters EXCEPT ![t] = @ \ {s}]
  /\ UNCHANGED inbox

PublishTo_Handle(t, s) ==
  /\ waiters' = [waiters EXCEPT ![t] = @ \ {s}]
  /\ inbox'   = [inbox EXCEPT ![s] = IF @ = None /\ pc[s] # "done" THEN t ELSE @]

\* One subscriber is drained and sent the result, which is lost if the
\* dispatcher is gone.  Subscribers are taken in any order.
PublishTo(t, s) ==
  /\ waiters' = [waiters EXCEPT ![t] = @ \ {s}]
  /\ inbox'   = [inbox EXCEPT ![s] = IF @ = None /\ pc[s] # "done" THEN state[t] ELSE @]

PublishSend(t) ==
  /\ Up /\ pc[t] = "send"
  /\ \E s \in waiters[t] : PublishTo(t, s)
  /\ UNCHANGED <<queue, worker, created, srcs, state, refs, clones, owner, pc, todo, scan, winner, got>>

\* The notify is forgotten; the subscribers are not drained.
PublishNotify_Unlock(t) ==
  /\ Up /\ pc[t] = "send" /\ waiters[t] = {}
  /\ pc' = [pc EXCEPT ![t] = "drop"]
  /\ UNCHANGED <<queue, worker, created, srcs, state, waiters, refs, clones, owner, todo, scan, inbox, winner, got>>

PublishNotify_NoDrain(t) ==
  /\ Up /\ pc[t] = "send"
  /\ pc' = [c \in Threads |-> IF c = t THEN "drop"
                              ELSE IF pc[c] = "wait" /\ Head(todo[c]) = t THEN "lock"
                              ELSE pc[c]]
  /\ UNCHANGED <<queue, worker, created, srcs, state, waiters, refs, clones, owner, todo, scan, inbox, winner, got>>

\* notify_all and the unlock.
PublishNotify(t) ==
  /\ Up /\ pc[t] = "send" /\ waiters[t] = {}
  /\ pc' = [c \in Threads |-> IF c = t THEN "drop"
                              ELSE IF pc[c] = "wait" /\ Head(todo[c]) = t THEN "lock"
                              ELSE pc[c]]
  /\ UNCHANGED <<queue, worker, created, srcs, state, waiters, refs, clones, owner, todo, scan, inbox, winner, got>>

\* The worker leaves its loop after one job.
WorkerDrop_Quits(t) ==
  /\ Up /\ pc[t] = "drop" /\ ~IsSelect(t)
  /\ refs'   = [refs EXCEPT ![t] = @ \ {"thread"}]
  /\ pc'     = [pc EXCEPT ![t] = "done"]
  /\ UNCHANGED <<queue, worker, created, srcs, state, waiters, clones, owner, todo, scan, inbox, winner, got>>

\* End of the worker's loop body: its Arc goes, the worker is free.
WorkerDrop(t) ==
  /\ Up /\ pc[t] = "drop" /\ ~IsSelect(t)
  /\ refs'   = [refs EXCEPT ![t] = @ \ {"thread"}]
  /\ worker' = [w \in Workers |-> IF worker[w] = t THEN None ELSE worker[w]]
  /\ pc'     = [pc EXCEPT ![t] = "done"]
  /\ UNCHANGED <<queue, created, srcs, state, waiters, clones, owner, todo, scan, inbox, winner, got>>

\* The clones are leaked.
DispatcherDrop_Leaks(s) ==
  /\ Up /\ pc[s] = "drop" /\ IsSelect(s)
  /\ refs'   = [refs EXCEPT ![s] = @ \ {"thread"}]
  /\ scan'   = [scan EXCEPT ![s] = 0]
  /\ inbox'  = [inbox EXCEPT ![s] = None]
  /\ winner' = [winner EXCEPT ![s] = None]
  /\ pc'     = [pc EXCEPT ![s] = "done"]
  /\ UNCHANGED <<queue, worker, created, srcs, state, waiters, clones, owner, todo, got>>

\* drop(clones), then result_dispatcher and the other locals with the closure.
DispatcherDrop(s) ==
  /\ Up /\ pc[s] = "drop" /\ IsSelect(s)
  /\ refs'   = [refs EXCEPT ![s] = @ \ {"thread"}]
  /\ clones' = [t \in Tasks |-> clones[t] \ {s}]
  /\ scan'   = [scan EXCEPT ![s] = 0]
  /\ inbox'  = [inbox EXCEPT ![s] = None]
  /\ winner' = [winner EXCEPT ![s] = None]
  /\ pc'     = [pc EXCEPT ![s] = "done"]
  /\ UNCHANGED <<queue, worker, created, srcs, state, waiters, owner, todo, got>>

-----------------------------------------------------------------------------
(* tyra_task_await and tyra_task_join_all: the handles stop being the      *)
(* caller's, and are awaited one after the other.                          *)

Block(c, l) ==
  /\ Up /\ pc[c] = "run"
  /\ todo'  = [todo EXCEPT ![c] = l]
  /\ owner' = [t \in Tasks |-> IF \E i \in DOMAIN l : l[i] = t THEN {} ELSE owner[t]]
  /\ pc'    = [pc EXCEPT ![c] = "lock"]
  /\ UNCHANGED <<queue, worker, created, srcs, state, waiters, refs, clones, scan, inbox, winner, got>>

Await(c, h)   == h \in Owned(c) /\ Block(c, <<h>>)
JoinAll(c, l) == Distinct(l) /\ Block(c, l)

\* The awaited task is Done: its result is returned, the awaiter's Arc dropped.
AwaitReturn(c) ==
  LET h == Head(todo[c]) IN
  /\ Up /\ pc[c] = "lock" /\ ~Locked(h) /\ Done(h)
  /\ got'  = [got EXCEPT ![h] = state[h]]
  /\ refs' = [refs EXCEPT ![h] = @ \ {"handle"}]
  /\ todo' = [todo EXCEPT ![c] = Tail(@)]
  /\ pc'   = [pc EXCEPT ![c] = IF Tail(todo[c]) = <<>> THEN "run" ELSE "lock"]
  /\ UNCHANGED <<queue, worker, created, srcs, state, waiters, clones, owner, scan, inbox, winner>>

\* It is Pending: Condvar::wait releases the mutex and parks in one step.
AwaitPark(c) ==
  LET h == Head(todo[c]) IN
  /\ Up /\ pc[c] = "lock" /\ ~Locked(h) /\ ~Done(h)
  /\ pc' = [pc EXCEPT ![c] = "wait"]
  /\ UNCHANGED <<queue, worker, created, srcs, state, waiters, refs, clones, owner, todo, scan, inbox, winner, got>>

\* A condition variable may wake without a notify; the loop looks again.
SpuriousWake(c) ==
  /\ Up /\ pc[c] = "wait"
  /\ pc' = [pc EXCEPT ![c] = "lock"]
  /\ UNCHANGED <<queue, worker, created, srcs, state, waiters, refs, clones, owner, todo, scan, inbox, winner, got>>

-----------------------------------------------------------------------------
(* tyra_task_select and its dispatcher thread, outside the pool.           *)

\* The sources' strong counts are not incremented.
Select_NoIncrement(c, s, l) ==
  /\ Up /\ pc[c] = "run"
  /\ s = created + 1
  /\ created' = s
  /\ srcs'   = [srcs EXCEPT ![s] = l]
  /\ refs'   = [refs EXCEPT ![s] = {"handle", "thread"}]
  /\ owner'  = [owner EXCEPT ![s] = {c}]
  /\ pc'     = [pc EXCEPT ![s] = "scan"]
  /\ UNCHANGED <<queue, worker, state, waiters, clones, todo, scan, inbox, winner, got>>

\* The caller keeps its source handles; s is the task select returns.
Select(c, s, l) ==
  /\ Up /\ pc[c] = "run"
  /\ s = created + 1
  /\ created' = s
  /\ srcs'   = [srcs EXCEPT ![s] = l]
  /\ clones' = [t \in Tasks |-> IF \E i \in DOMAIN l : l[i] = t THEN clones[t] \cup {s} ELSE clones[t]]
  /\ refs'   = [refs EXCEPT ![s] = {"handle", "thread"}]
  /\ owner'  = [owner EXCEPT ![s] = {c}]
  /\ pc'     = [pc EXCEPT ![s] = "scan"]
  /\ UNCHANGED <<queue, worker, state, waiters, todo, scan, inbox, winner, got>>

Source(s) == srcs[s][scan[s] + 1]

\* The loop goes on after an early result; the source's handle is reported.
ScanDone_NoBreak(s) ==
  /\ Up /\ pc[s] = "scan" /\ ~Locked(Source(s)) /\ Done(Source(s))
  /\ winner' = [winner EXCEPT ![s] = state[Source(s)]]
  /\ scan'   = [scan EXCEPT ![s] = @ + 1]
  /\ pc'     = [pc EXCEPT ![s] = IF scan[s] + 1 = Len(srcs[s]) THEN "resolve" ELSE "scan"]
  /\ UNCHANGED <<queue, worker, created, srcs, state, waiters, refs, clones, owner, todo, inbox, got>>

ScanDone_Handle(s) ==
  /\ Up /\ pc[s] = "scan" /\ ~Locked(Source(s)) /\ Done(Source(s))
  /\ winner' = [winner EXCEPT ![s] = Source(s)]
  /\ pc'     = [pc EXCEPT ![s] = "resolve"]
  /\ UNCHANGED <<queue, worker, created, srcs, state, waiters, refs, clones, owner, todo, scan, inbox, got>>

\* The next source is Done: early = Some(r), and the loop breaks.
ScanDone(s) ==
  /\ Up /\ pc[s] = "scan" /\ ~Locked(Source(s)) /\ Done(Source(s))
  /\ winner' = [winner EXCEPT ![s] = state[Source(s)]]
  /\ pc'     = [pc EXCEPT ![s] = "resolve"]
  /\ UNCHANGED <<queue, worker, created, srcs, state, waiters, refs, clones, owner, todo, scan, inbox, got>>

\* It is Pending: subscribe; after the last source the dispatcher listens.
ScanSubscribe(s) ==
  /\ Up /\ pc[s] = "scan" /\ ~Locked(Source(s)) /\ ~Done(Source(s))
  /\ waiters' = [waiters EXCEPT ![Source(s)] = @ \cup {s}]
  /\ scan'    = [scan EXCEPT ![s] = @ + 1]
  /\ pc'      = [pc EXCEPT ![s] = IF scan[s] + 1 = Len(srcs[s]) THEN "recv" ELSE "scan"]
  /\ UNCHANGED <<queue, worker, created, srcs, state, refs, clones, owner, todo, inbox, winner, got>>

DispatcherRecv(s) ==
  /\ Up /\ pc[s] = "recv" /\ inbox[s] # None
  /\ winner' = [winner EXCEPT ![s] = inbox[s]]
  /\ pc'     = [pc EXCEPT ![s] = "resolve"]
  /\ UNCHANGED <<queue, worker, created, srcs, state, waiters, refs, clones, owner, todo, scan, inbox, got>>

-----------------------------------------------------------------------------
\* main returns: tyra_rt_shutdown drains nothing and the process is gone.
Exit == /\ Up /\ pc[Main] = "run"
        /\ pc' = [pc EXCEPT ![Main] = "exited"]
        /\ UNCHANGED <<queue, worker, created, srcs, state, waiters, refs, clones, owner,
                       todo, scan, inbox, winner, got>>

Exited == ~Up /\ UNCHANGED vars

\* What the program's code may do next in thread c.
Code(c) == \/ \E t \in Tasks : \E give \in SUBSET Owned(c) : Spawn(c, t, give)
           \/ \E h \in Tasks : Await(c, h) \/ Forget(c, h)
           \/ \E l \in Lists(c) : JoinAll(c, l)
           \/ \E s \in Tasks : \E l \in Lists(c) : Select(c, s, l)

\* What the runtime does next, with nobody's choice in it.
AwaitStep(c)    == AwaitReturn(c) \/ AwaitPark(c)
PublishStep(t)  == PublishSend(t) \/ PublishNotify(t)
WorkerStep(t)   == ThunkReturn(t) \/ WorkerDrop(t)
DispatchStep(s) == \/ ScanDone(s) \/ ScanSubscribe(s) \/ DispatcherRecv(s)
                   \/ DispatcherPublish(s) \/ DispatcherDrop(s)
ThreadStep(t)   == AwaitStep(t) \/ WorkerStep(t) \/ DispatchStep(t) \/ PublishStep(t)
PoolStep        == \E w \in Workers : WorkerRecv(w)

Next == \/ \E c \in Threads : Code(c) \/ SpuriousWake(c)
        \/ AwaitStep(Main)
        \/ \E t \in Tasks : ThreadStep(t)
        \/ PoolStep
        \/ Exit
        \/ Exited

Spec == Init /\ [][Next]_vars

\* Threads are scheduled, a mutex is held for a few instructions only, and the
\* functions a program spawns return.  Main need not exit.
Fairness == /\ WF_vars(AwaitStep(Main))
            /\ \A t \in Tasks : WF_vars(ThreadStep(t))
            /\ WF_vars(PoolStep)

FairSpec == Spec /\ Fairness

-----------------------------------------------------------------------------
\* Every variable has its type.
TypeOK ==
  /\ queue   \in Seq(Tasks)
  /\ worker  \in [Workers -> Tasks \cup {None}]
  /\ created \in 0..MaxTasks
  /\ srcs    \in [Tasks -> Seq(Tasks)]
  /\ state   \in [Tasks -> Tasks \cup {None}]
  /\ waiters \in [Tasks -> SUBSET Tasks]
  /\ refs    \in [Tasks -> SUBSET {"handle", "thread"}]
  /\ clones  \in [Tasks -> SUBSET Tasks]
  /\ owner   \in [Tasks -> {{}} \cup {{c} : c \in Threads \cup {Lost}}]
  /\ pc      \in [Threads -> Labels]
  /\ todo    \in [Threads -> Seq(Tasks)]
  /\ scan    \in [Tasks -> Nat]
  /\ inbox   \in [Tasks -> Tasks \cup {None}]
  /\ winner  \in [Tasks -> Tasks \cup {None}]
  /\ got     \in [Tasks -> Tasks \cup {None}]

\* A thread of control or the program can still reach the memory of task t.
Allocated(t)    == refs[t] # {} \/ clones[t] # {}
Publishing(t)   == pc[t] \in {"queued", "run", "lock", "wait", "scan", "recv", "resolve", "send", "drop"}
AwaitedBy(c, t) == pc[c] \in {"lock", "wait"} /\ \E i \in DOMAIN todo[c] : todo[c][i] = t
SelectedBy(s, t) == Publishing(s) /\ \E i \in DOMAIN srcs[s] : srcs[s][i] = t
InUse(t) == \/ owner[t] \notin {{}, {Lost}}
            \/ t \in Tasks /\ Publishing(t)
            \/ \E c \in Threads : AwaitedBy(c, t)
            \/ \E s \in Tasks : SelectedBy(s, t)

\* Whoever can still touch a task finds it allocated: the raw pointers that
\* spawn, await and select turn into Arcs and back never dangle.
NoUseAfterFree == \A t \in Tasks : InUse(t) => Allocated(t)

\* What tyra_task_select's documentation accepts (lib.rs:552-558) is all that
\* leaks: memory that nobody can touch any more is that of a task whose handle
\* left its scope un-awaited, and it is that handle's one Arc that pins it, in
\* however many selects it was.  All that a job, an await or a dispatcher took
\* has been given back.
NoLeak == \A t \in Tasks : Allocated(t) /\ ~InUse(t) =>
            owner[t] = {Lost} /\ refs[t] = {"handle"} /\ clones[t] = {}

\* A thread parked on a task's condition variable will be notified: the task is
\* Pending, or its publisher still holds the mutex with notify_all to come.
NoLostWakeup == \A c \in Threads : pc[c] = "wait" =>
                  LET h == Head(todo[c]) IN ~Done(h) \/ Locked(h)

\* The expect() in a dispatcher cannot fire: while it listens with no message,
\* a source it subscribed to still holds its sender.
RecvNeverDisconnected ==
  \A s \in Tasks : pc[s] = "recv" /\ inbox[s] = None => \E t \in Tasks : s \in waiters[t]

\* A task resolves with the value of its own thunk; a select with a value one
\* of its sources has published.
ResultsAreGenuine ==
  \A t \in Tasks : Done(t) =>
    IF IsSelect(t) THEN \E i \in DOMAIN srcs[t] : state[srcs[t][i]] = state[t]
                   ELSE state[t] = t

\* If spawned functions spawn nothing, a function only ever awaits a spawned
\* task that a worker has already taken: what blocks a worker is never behind
\* it in the queue, however small the pool.
AwaitedHasStarted ==
  ~Nesting => \A c, t \in Tasks : AwaitedBy(c, t) => \A i \in DOMAIN queue : queue[i] # t

\* The runtime is a faithful write-once future store.
Futures == INSTANCE TaskFutures WITH
             value <- state, delivered <- got,
             deps  <- [t \in Tasks |-> {srcs[t][i] : i \in DOMAIN srcs[t]}]
FuturesSpec == Futures!Spec

\* Whoever blocks in await or join_all gets its results, unless main exits.
AwaitReturns == \A c \in Threads : todo[c] # <<>> ~> (todo[c] = <<>> \/ ~Up)

\* Every spawned task runs to completion, unless main exits.
SpawnedCompletes == \A t \in Tasks : pc[t] = "queued" ~> (Done(t) \/ ~Up)

\* A select resolves once a source has, even when every worker is blocked.
SelectResolves ==
  \A s \in Tasks : (\E i \in DOMAIN srcs[s] : Done(srcs[s][i])) ~> (Done(s) \/ ~Up)

\* What is started ends: tasks complete, those who wait for them go on, and a
\* select has its answer.
WorkEnds == AwaitReturns /\ SpawnedCompletes /\ SelectResolves
=============================================================================
