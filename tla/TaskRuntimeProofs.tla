------------------------- MODULE TaskRuntimeProofs -------------------------
(***************************************************************************)
(* Proofs about the task runtime, for every pool, every number of tasks    *)
(* and both values of Nesting.  The inductive invariant is a conjunction   *)
(* of parts; each part is shown to be kept by every action under TypeOK    *)
(* and the parts before it.                                                *)
(***************************************************************************)
EXTENDS TaskSelectOrder, SequenceTheorems, TLAPS

Blocked == {"lock", "wait"}

\* Where threads can be, and what that says of the task and of its result.
ControlMain == pc[Main] \in {"run", "lock", "wait", "exited"}

ControlTodo == \A c \in Threads : todo[c] # <<>> <=> pc[c] \in Blocked

ControlTask ==
  \A t \in Tasks : /\ pc[t] # "exited"
                   /\ pc[t] = "none" <=> t > created
                   /\ Done(t) <=> pc[t] \in {"send", "drop", "done"}
                   /\ pc[t] \in {"none", "queued", "run", "lock", "wait"} => ~IsSelect(t)
                   /\ pc[t] \in {"scan", "recv", "resolve"} => IsSelect(t)
                   /\ pc[t] = "scan" => scan[t] < Len(srcs[t])
                   /\ pc[t] = "recv" => scan[t] = Len(srcs[t])
                   /\ pc[t] = "resolve" => winner[t] # None
                   /\ pc[t] = "none" => scan[t] = 0

Control == ControlMain /\ ControlTodo /\ ControlTask

\* The channel holds the queued tasks, oldest first, each once.
Channel ==
  /\ \A i \in DOMAIN queue : pc[queue[i]] = "queued"
  /\ \A i, j \in DOMAIN queue : i < j => queue[i] < queue[j]

\* A handle is its owner's, or in one place of one await list, or consumed;
\* selects name handles that exist.
Handles ==
  /\ \A t \in Tasks : owner[t] # {} => t <= created
  /\ \A c \in Threads : \A i \in DOMAIN todo[c] : todo[c][i] <= created /\ owner[todo[c][i]] = {}
  /\ \A c, d \in Threads : \A i \in DOMAIN todo[c], j \in DOMAIN todo[d] :
       todo[c][i] = todo[d][j] => c = d /\ i = j
  /\ \A s \in Tasks : \A i \in DOMAIN srcs[s] : srcs[s][i] < s

\* Which Arcs of a task exist: its handle's until an await has taken it, its
\* publisher's until the loop body ends, one per dispatcher that selects on it.
ArcsHandle == \A t \in Tasks : "handle" \in refs[t] <=> owner[t] # {} \/ \E c \in Threads : AwaitedBy(c, t)
ArcsThread == \A t \in Tasks : "thread" \in refs[t] <=> Publishing(t)
ArcsClones == \A t, s \in Tasks : s \in clones[t] <=> SelectedBy(s, t)

Arcs == ArcsHandle /\ ArcsThread /\ ArcsClones

\* A dispatcher without a message is subscribed to every source it has passed.
Subscribed ==
  \A s \in Tasks : pc[s] \in {"scan", "recv"} /\ inbox[s] = None =>
    \A i \in 1..scan[s] : s \in waiters[srcs[s][i]]

\* In a program whose tasks do not spawn, a task comes after the spawned tasks
\* it can await, and whatever is queued comes after every task that has begun.
Order ==
  ~Nesting =>
    /\ \A h, c \in Tasks : owner[h] = {c} /\ ~IsSelect(h) => h < c
    /\ \A c \in Tasks : \A i \in DOMAIN todo[c] : ~IsSelect(todo[c][i]) => todo[c][i] < c
    /\ \A t \in Tasks : pc[t] \in {"run", "lock", "wait"} => \A i \in DOMAIN queue : t < queue[i]

IInv == TypeOK /\ Control /\ Channel /\ Handles /\ Arcs /\ Subscribed /\ Order
         /\ NoLostWakeup

\* Facts about sequences and lists the steps need.
LEMMA ListFacts ==
  ASSUME TypeOK, NEW c \in Threads, NEW l \in Lists(c)
  PROVE  /\ l \in Seq(Tasks) /\ l # <<>> /\ Len(l) \in Nat \ {0}
         /\ \A i \in DOMAIN l : l[i] \in Tasks /\ owner[l[i]] = {c}
<1>1. PICK n \in 1..MaxList : l \in [1..n -> Owned(c)]
  BY DEF Lists
<1>2. n \in Nat \ {0} /\ Owned(c) \subseteq Tasks
  BY MaxListAssumption DEF Owned
<1>3. l \in Seq(Tasks) /\ Len(l) = n
  BY <1>1, <1>2
<1>4. QED
  BY <1>1, <1>2, <1>3 DEF Owned

LEMMA SourceFacts ==
  ASSUME TypeOK, Control, NEW s \in Tasks, pc[s] = "scan"
  PROVE  Source(s) \in Tasks /\ scan[s] + 1 \in DOMAIN srcs[s] /\ scan[s] \in Nat
<1>1. srcs[s] \in Seq(Tasks) /\ scan[s] \in Nat /\ scan[s] < Len(srcs[s])
  BY DEF TypeOK, Control, ControlTodo, ControlTask, Blocked
<1>2. Len(srcs[s]) \in Nat /\ DOMAIN srcs[s] = 1..Len(srcs[s])
  BY <1>1
<1>3. scan[s] + 1 \in DOMAIN srcs[s]
  BY <1>1, <1>2
<1>4. QED
  BY <1>1, <1>3 DEF Source

LEMMA AwaitFacts ==
  ASSUME TypeOK, Control, NEW c \in Threads, pc[c] \in Blocked
  PROVE  /\ todo[c] \in Seq(Tasks) /\ todo[c] # <<>>
         /\ Head(todo[c]) \in Tasks /\ Head(todo[c]) = todo[c][1] /\ 1 \in DOMAIN todo[c]
         /\ Tail(todo[c]) \in Seq(Tasks)
         /\ DOMAIN Tail(todo[c]) = 1..(Len(todo[c]) - 1)
         /\ \A i \in DOMAIN Tail(todo[c]) : i + 1 \in DOMAIN todo[c] /\ Tail(todo[c])[i] = todo[c][i + 1]
<1>1. todo[c] \in Seq(Tasks) /\ todo[c] # <<>>
  BY DEF TypeOK, Control, ControlTodo, ControlTask, Blocked
<1>2. QED
  BY <1>1

LEMMA QueueFacts ==
  ASSUME TypeOK, queue # <<>>
  PROVE  /\ Head(queue) \in Tasks /\ Head(queue) = queue[1] /\ 1 \in DOMAIN queue
         /\ Tail(queue) \in Seq(Tasks)
         /\ \A i \in DOMAIN Tail(queue) : i + 1 \in DOMAIN queue /\ i \in Nat /\ Tail(queue)[i] = queue[i + 1]
<1>1. queue \in Seq(Tasks)
  BY DEF TypeOK
<1>2. QED
  BY <1>1

\* The next task to be created has not been seen by any thread.
LEMMA FreshTask ==
  ASSUME TypeOK, Control, NEW t \in Tasks, t = created + 1
  PROVE  pc[t] = "none" /\ t \in Threads
<1>1. created \in Nat /\ t > created
  BY MaxTasksAssumption DEF TypeOK, Tasks
<1>2. QED
  BY <1>1 DEF Control, ControlTask, Threads

\* A handle that is lost is still nobody's to await.
LEMMA LosingFacts ==
  ASSUME TypeOK, \/ \E c \in Threads, h \in Tasks : Forget(c, h)
                 \/ \E t \in Tasks : ThunkReturn(t)
  PROVE  /\ owner' \in [Tasks -> {{}} \cup {{d} : d \in Threads \cup {Lost}}]
         /\ \A u \in Tasks : owner'[u] = {} <=> owner[u] = {}
         /\ \A u, d \in Tasks : owner'[u] = {d} => owner[u] = {d}
<1>a. owner \in [Tasks -> {{}} \cup {{d} : d \in Threads \cup {Lost}}]
  BY DEF TypeOK
<1>b. \A d \in Tasks : d # Lost
  BY MaxTasksAssumption DEF Tasks, Lost
<1>1. ASSUME NEW c \in Threads, NEW h \in Tasks, Forget(c, h)
      PROVE  owner' = [owner EXCEPT ![h] = {Lost}] /\ owner[h] = {c}
  BY <1>1 DEF Forget, Owned
<1>2. ASSUME NEW t \in Tasks, ThunkReturn(t)
      PROVE  owner' = [u \in Tasks |-> IF owner[u] = {t} THEN {Lost} ELSE owner[u]]
  BY <1>2 DEF ThunkReturn, Owned
<1>3. QED
  BY <1>a, <1>b, <1>1, <1>2

\* Every step keeps the types.
LEMMA TypeStep == TypeOK /\ Control /\ [Next]_vars => TypeOK'
<1> SUFFICES ASSUME TypeOK, Control, [Next]_vars PROVE TypeOK'
  OBVIOUS
<1> USE DEF TypeOK, Labels, Tasks, Threads, Main, None
<1>1. ASSUME NEW c \in Threads, NEW t \in Tasks, NEW give \in SUBSET Owned(c), Spawn(c, t, give)
      PROVE  TypeOK'
  <2>1. queue' \in Seq(Tasks)
    BY <1>1 DEF Spawn
  <2>2. owner' \in [Tasks -> {{}} \cup {{d} : d \in Threads \cup {Lost}}]
    BY <1>1 DEF Spawn
  <2>3. refs' \in [Tasks -> SUBSET {"handle", "thread"}]
    BY <1>1 DEF Spawn
  <2>4. created' \in 0..MaxTasks /\ pc' \in [Threads -> Labels]
    BY <1>1 DEF Spawn
  <2>5. QED
    BY <1>1, <2>1, <2>2, <2>3, <2>4 DEF Spawn
<1>2. ASSUME NEW c \in Threads, NEW h \in Tasks, Await(c, h)
      PROVE  TypeOK'
  <2>1. <<h>> \in Seq(Tasks)
    OBVIOUS
  <2>2. QED
    BY <1>2, <2>1 DEF Await, Block
<1>3. ASSUME NEW c \in Threads, NEW l \in Lists(c), JoinAll(c, l)
      PROVE  TypeOK'
  BY <1>3, ListFacts DEF JoinAll, Block
<1>4. ASSUME NEW c \in Threads, NEW s \in Tasks, NEW l \in Lists(c), Select(c, s, l)
      PROVE  TypeOK'
  <2>1. srcs' \in [Tasks -> Seq(Tasks)]
    BY <1>4, ListFacts DEF Select
  <2>2. refs' \in [Tasks -> SUBSET {"handle", "thread"}]
    BY <1>4 DEF Select
  <2>3. owner' \in [Tasks -> {{}} \cup {{d} : d \in Threads \cup {Lost}}] /\ clones' \in [Tasks -> SUBSET Tasks]
    BY <1>4 DEF Select
  <2>4. created' \in 0..MaxTasks /\ pc' \in [Threads -> Labels]
    BY <1>4 DEF Select
  <2>5. QED
    BY <1>4, <2>1, <2>2, <2>3, <2>4 DEF Select
<1>5. ASSUME NEW c \in Threads, SpuriousWake(c)
      PROVE  TypeOK'
  BY <1>5 DEF SpuriousWake
<1>6. ASSUME NEW c \in Threads, AwaitReturn(c)
      PROVE  TypeOK'
  <2>1. Head(todo[c]) \in Tasks /\ Tail(todo[c]) \in Seq(Tasks)
    BY <1>6, AwaitFacts DEF AwaitReturn, Blocked
  <2>2. QED
    BY <1>6, <2>1 DEF AwaitReturn
<1>7. ASSUME NEW c \in Threads, AwaitPark(c)
      PROVE  TypeOK'
  BY <1>7 DEF AwaitPark
<1>8. ASSUME NEW t \in Tasks, ThunkReturn(t)
      PROVE  TypeOK'
  BY <1>8, LosingFacts DEF ThunkReturn
<1>9. ASSUME NEW t \in Tasks, WorkerDrop(t)
      PROVE  TypeOK'
  BY <1>9 DEF WorkerDrop
<1>10. ASSUME NEW t \in Tasks, PublishSend(t)
      PROVE  TypeOK'
  <2>1. PICK s \in waiters[t] : PublishTo(t, s)
    BY <1>10 DEF PublishSend
  <2>2. inbox' \in [Tasks -> Tasks \cup {None}]
    BY <2>1 DEF PublishTo
  <2>3. waiters' \in [Tasks -> SUBSET Tasks]
    BY <2>1 DEF PublishTo
  <2>4. QED
    BY <1>10, <2>2, <2>3 DEF PublishSend
<1>11. ASSUME NEW t \in Tasks, PublishNotify(t)
      PROVE  TypeOK'
  BY <1>11 DEF PublishNotify
<1>12. ASSUME NEW s \in Tasks, ScanDone(s)
      PROVE  TypeOK'
  <2>1. Source(s) \in Tasks
    BY <1>12, SourceFacts DEF ScanDone
  <2>2. QED
    BY <1>12, <2>1 DEF ScanDone
<1>13. ASSUME NEW s \in Tasks, ScanSubscribe(s)
      PROVE  TypeOK'
  <2>1. Source(s) \in Tasks /\ scan[s] \in Nat
    BY <1>13, SourceFacts DEF ScanSubscribe
  <2>2. waiters' \in [Tasks -> SUBSET Tasks]
    BY <1>13, <2>1 DEF ScanSubscribe
  <2>3. scan' \in [Tasks -> Nat]
    <3>1. scan' = [scan EXCEPT ![s] = scan[s] + 1]
      BY <1>13, Zenon DEF ScanSubscribe
    <3>2. QED
      BY <2>1, <3>1
  <2>4. pc' \in [Threads -> Labels]
    BY <1>13 DEF ScanSubscribe
  <2>5. QED
    BY <1>13, <2>2, <2>3, <2>4 DEF ScanSubscribe
<1>14. ASSUME NEW s \in Tasks, DispatcherRecv(s)
      PROVE  TypeOK'
  BY <1>14 DEF DispatcherRecv
<1>15. ASSUME NEW s \in Tasks, DispatcherPublish(s)
      PROVE  TypeOK'
  BY <1>15 DEF DispatcherPublish
<1>16. ASSUME NEW s \in Tasks, DispatcherDrop(s)
      PROVE  TypeOK'
  BY <1>16 DEF DispatcherDrop
<1>17. ASSUME NEW w \in Workers, WorkerRecv(w)
      PROVE  TypeOK'
  <2>1. Head(queue) \in Tasks /\ Tail(queue) \in Seq(Tasks)
    BY <1>17, QueueFacts DEF WorkerRecv
  <2>2. QED
    BY <1>17, <2>1 DEF WorkerRecv
<1>18. ASSUME Exit
      PROVE  TypeOK'
  BY <1>18 DEF Exit
<1>19. CASE UNCHANGED vars
  BY <1>19 DEF vars
<1>20. ASSUME NEW c \in Threads, NEW h \in Tasks, Forget(c, h)
      PROVE  TypeOK'
  BY <1>20, LosingFacts DEF Forget
<1> QED
  BY <1>1, <1>2, <1>3, <1>4, <1>5, <1>6, <1>7, <1>8, <1>9, <1>10, <1>11, <1>12, <1>13, <1>14, <1>15, <1>16, <1>17, <1>18, <1>19, <1>20
  DEF Next, Code, AwaitStep, PublishStep, WorkerStep, DispatchStep, ThreadStep, PoolStep, Exited

\* Every step keeps main in Tyra code, in an await, or exited.
LEMMA ControlMainStep == TypeOK /\ Control /\ Channel /\ [Next]_vars => ControlMain'
<1> SUFFICES ASSUME TypeOK, Control, Channel, [Next]_vars PROVE ControlMain'
  OBVIOUS
<1>a. pc \in [Threads -> Labels]
  BY DEF TypeOK
<1> USE DEF ControlMain, Control, Main, Tasks, Threads
<1>1. ASSUME NEW c \in Threads, NEW t \in Tasks, NEW give \in SUBSET Owned(c), Spawn(c, t, give)
      PROVE  ControlMain'
  BY <1>1, <1>a DEF Spawn
<1>2. ASSUME NEW c \in Threads, NEW h \in Tasks, Await(c, h)
      PROVE  ControlMain'
  BY <1>2, <1>a DEF Await, Block
<1>3. ASSUME NEW c \in Threads, NEW l \in Lists(c), JoinAll(c, l)
      PROVE  ControlMain'
  BY <1>3, <1>a DEF JoinAll, Block
<1>4. ASSUME NEW c \in Threads, NEW s \in Tasks, NEW l \in Lists(c), Select(c, s, l)
      PROVE  ControlMain'
  BY <1>4, <1>a DEF Select
<1>5. ASSUME NEW c \in Threads, SpuriousWake(c)
      PROVE  ControlMain'
  BY <1>5, <1>a DEF SpuriousWake
<1>6. ASSUME NEW c \in Threads, AwaitReturn(c)
      PROVE  ControlMain'
  BY <1>6, <1>a DEF AwaitReturn
<1>7. ASSUME NEW c \in Threads, AwaitPark(c)
      PROVE  ControlMain'
  BY <1>7, <1>a DEF AwaitPark
<1>8. ASSUME NEW t \in Tasks, ThunkReturn(t)
      PROVE  ControlMain'
  BY <1>8, <1>a DEF ThunkReturn
<1>9. ASSUME NEW t \in Tasks, WorkerDrop(t)
      PROVE  ControlMain'
  BY <1>9, <1>a DEF WorkerDrop
<1>10. ASSUME NEW t \in Tasks, PublishSend(t)
      PROVE  ControlMain'
  BY <1>10, <1>a DEF PublishSend
<1>11. ASSUME NEW t \in Tasks, PublishNotify(t)
      PROVE  ControlMain'
  BY <1>11, <1>a DEF PublishNotify
<1>12. ASSUME NEW s \in Tasks, ScanDone(s)
      PROVE  ControlMain'
  BY <1>12, <1>a DEF ScanDone
<1>13. ASSUME NEW s \in Tasks, ScanSubscribe(s)
      PROVE  ControlMain'
  BY <1>13, <1>a DEF ScanSubscribe
<1>14. ASSUME NEW s \in Tasks, DispatcherRecv(s)
      PROVE  ControlMain'
  BY <1>14, <1>a DEF DispatcherRecv
<1>15. ASSUME NEW s \in Tasks, DispatcherPublish(s)
      PROVE  ControlMain'
  BY <1>15, <1>a DEF DispatcherPublish
<1>16. ASSUME NEW s \in Tasks, DispatcherDrop(s)
      PROVE  ControlMain'
  BY <1>16, <1>a DEF DispatcherDrop
<1>17. ASSUME NEW w \in Workers, WorkerRecv(w)
      PROVE  ControlMain'
  BY <1>17, <1>a DEF WorkerRecv
<1>18. ASSUME Exit
      PROVE  ControlMain'
  BY <1>18, <1>a DEF Exit
<1>19. CASE UNCHANGED vars
  BY <1>19, <1>a DEF vars
<1>20. ASSUME NEW c \in Threads, NEW h \in Tasks, Forget(c, h)
      PROVE  ControlMain'
  BY <1>20, <1>a DEF Forget
<1> QED
  BY <1>1, <1>2, <1>3, <1>4, <1>5, <1>6, <1>7, <1>8, <1>9, <1>10, <1>11, <1>12, <1>13, <1>14, <1>15, <1>16, <1>17, <1>18, <1>19, <1>20
  DEF Next, Code, AwaitStep, PublishStep, WorkerStep, DispatchStep, ThreadStep, PoolStep, Exited

\* Every step keeps await lists with the threads that are blocked.
LEMMA ControlTodoStep == TypeOK /\ Control /\ Channel /\ [Next]_vars => ControlTodo'
<1> SUFFICES ASSUME TypeOK, Control, Channel, [Next]_vars PROVE ControlTodo'
  OBVIOUS
<1>a. pc \in [Threads -> Labels] /\ todo \in [Threads -> Seq(Tasks)] /\ created \in 0..MaxTasks
  BY DEF TypeOK
<1> USE DEF ControlTodo, Control, ControlMain, Blocked, Main, Tasks, Threads
<1>1. ASSUME NEW c \in Threads, NEW t \in Tasks, NEW give \in SUBSET Owned(c), Spawn(c, t, give)
      PROVE  ControlTodo'
  <2>1. pc[t] = "none" /\ t \in Threads
    BY <1>1, FreshTask DEF Spawn
  <2>2. todo' = todo /\ pc' = [pc EXCEPT ![t] = "queued"]
    BY <1>1 DEF Spawn
  <2>3. QED
    BY <1>a, <2>1, <2>2
<1>2. ASSUME NEW c \in Threads, NEW h \in Tasks, Await(c, h)
      PROVE  ControlTodo'
  <2>1. <<h>> # <<>>
    OBVIOUS
  <2>2. QED
    BY <1>2, <1>a, <2>1 DEF Await, Block
<1>3. ASSUME NEW c \in Threads, NEW l \in Lists(c), JoinAll(c, l)
      PROVE  ControlTodo'
  <2>1. l # <<>>
    BY ListFacts
  <2>2. QED
    BY <1>3, <1>a, <2>1 DEF JoinAll, Block
<1>4. ASSUME NEW c \in Threads, NEW s \in Tasks, NEW l \in Lists(c), Select(c, s, l)
      PROVE  ControlTodo'
  <2>1. pc[s] = "none" /\ s \in Threads
    BY <1>4, FreshTask DEF Select
  <2>2. todo' = todo /\ pc' = [pc EXCEPT ![s] = "scan"]
    BY <1>4 DEF Select
  <2>3. QED
    BY <1>a, <2>1, <2>2
<1>5. ASSUME NEW c \in Threads, SpuriousWake(c)
      PROVE  ControlTodo'
  BY <1>5, <1>a DEF SpuriousWake
<1>6. ASSUME NEW c \in Threads, AwaitReturn(c)
      PROVE  ControlTodo'
  BY <1>6, <1>a DEF AwaitReturn
<1>7. ASSUME NEW c \in Threads, AwaitPark(c)
      PROVE  ControlTodo'
  BY <1>7, <1>a DEF AwaitPark
<1>8. ASSUME NEW t \in Tasks, ThunkReturn(t)
      PROVE  ControlTodo'
  BY <1>8, <1>a DEF ThunkReturn
<1>9. ASSUME NEW t \in Tasks, WorkerDrop(t)
      PROVE  ControlTodo'
  BY <1>9, <1>a DEF WorkerDrop
<1>10. ASSUME NEW t \in Tasks, PublishSend(t)
      PROVE  ControlTodo'
  BY <1>10, <1>a DEF PublishSend
<1>11. ASSUME NEW t \in Tasks, PublishNotify(t)
      PROVE  ControlTodo'
  BY <1>11, <1>a DEF PublishNotify
<1>12. ASSUME NEW s \in Tasks, ScanDone(s)
      PROVE  ControlTodo'
  BY <1>12, <1>a DEF ScanDone
<1>13. ASSUME NEW s \in Tasks, ScanSubscribe(s)
      PROVE  ControlTodo'
  BY <1>13, <1>a DEF ScanSubscribe
<1>14. ASSUME NEW s \in Tasks, DispatcherRecv(s)
      PROVE  ControlTodo'
  BY <1>14, <1>a DEF DispatcherRecv
<1>15. ASSUME NEW s \in Tasks, DispatcherPublish(s)
      PROVE  ControlTodo'
  BY <1>15, <1>a DEF DispatcherPublish
<1>16. ASSUME NEW s \in Tasks, DispatcherDrop(s)
      PROVE  ControlTodo'
  BY <1>16, <1>a DEF DispatcherDrop
<1>17. ASSUME NEW w \in Workers, WorkerRecv(w)
      PROVE  ControlTodo'
  <2>1. Head(queue) \in Tasks /\ pc[Head(queue)] = "queued"
    BY <1>17, QueueFacts DEF WorkerRecv, Channel
  <2>2. QED
    BY <1>17, <1>a, <2>1 DEF WorkerRecv
<1>18. ASSUME Exit
      PROVE  ControlTodo'
  BY <1>18, <1>a DEF Exit
<1>19. CASE UNCHANGED vars
  BY <1>19, <1>a DEF vars
<1>20. ASSUME NEW c \in Threads, NEW h \in Tasks, Forget(c, h)
      PROVE  ControlTodo'
  BY <1>20, <1>a DEF Forget
<1> QED
  BY <1>1, <1>2, <1>3, <1>4, <1>5, <1>6, <1>7, <1>8, <1>9, <1>10, <1>11, <1>12, <1>13, <1>14, <1>15, <1>16, <1>17, <1>18, <1>19, <1>20
  DEF Next, Code, AwaitStep, PublishStep, WorkerStep, DispatchStep, ThreadStep, PoolStep, Exited

\* Every step keeps what a task's place says of its result and its kind.
LEMMA ControlTaskStep == TypeOK /\ Control /\ Channel /\ [Next]_vars => ControlTask'
<1> SUFFICES ASSUME TypeOK, Control, Channel, [Next]_vars PROVE ControlTask'
  OBVIOUS
<1>a. /\ pc \in [Threads -> Labels] /\ created \in 0..MaxTasks
     /\ state \in [Tasks -> Tasks \cup {None}] /\ srcs \in [Tasks -> Seq(Tasks)]
     /\ scan \in [Tasks -> Nat] /\ winner \in [Tasks -> Tasks \cup {None}]
  BY DEF TypeOK
<1> USE DEF ControlTask, Control, IsSelect, Done, None, Main, Tasks, Threads
<1>1. ASSUME NEW c \in Threads, NEW t \in Tasks, NEW give \in SUBSET Owned(c), Spawn(c, t, give)
      PROVE  ControlTask'
  BY <1>1, <1>a DEF Spawn
<1>2. ASSUME NEW c \in Threads, NEW h \in Tasks, Await(c, h)
      PROVE  ControlTask'
  BY <1>2, <1>a DEF Await, Block
<1>3. ASSUME NEW c \in Threads, NEW l \in Lists(c), JoinAll(c, l)
      PROVE  ControlTask'
  BY <1>3, <1>a DEF JoinAll, Block
<1>4. ASSUME NEW c \in Threads, NEW s \in Tasks, NEW l \in Lists(c), Select(c, s, l)
      PROVE  ControlTask'
  <2>1. l # <<>> /\ 0 < Len(l)
    BY ListFacts
  <2>a. s = created + 1
    BY <1>4 DEF Select
  <2>b. pc[s] = "none"
    BY <2>a, FreshTask
  <2>2. pc[s] = "none" /\ scan[s] = 0 /\ ~Done(s)
    BY <2>b
  <2>3. QED
    BY <1>4, <1>a, <2>1, <2>2 DEF Select
<1>5. ASSUME NEW c \in Threads, SpuriousWake(c)
      PROVE  ControlTask'
  BY <1>5, <1>a DEF SpuriousWake
<1>6. ASSUME NEW c \in Threads, AwaitReturn(c)
      PROVE  ControlTask'
  BY <1>6, <1>a DEF AwaitReturn
<1>7. ASSUME NEW c \in Threads, AwaitPark(c)
      PROVE  ControlTask'
  BY <1>7, <1>a DEF AwaitPark
<1>8. ASSUME NEW t \in Tasks, ThunkReturn(t)
      PROVE  ControlTask'
  BY <1>8, <1>a DEF ThunkReturn
<1>9. ASSUME NEW t \in Tasks, WorkerDrop(t)
      PROVE  ControlTask'
  BY <1>9, <1>a DEF WorkerDrop
<1>10. ASSUME NEW t \in Tasks, PublishSend(t)
      PROVE  ControlTask'
  BY <1>10, <1>a DEF PublishSend
<1>11. ASSUME NEW t \in Tasks, PublishNotify(t)
      PROVE  ControlTask'
  BY <1>11, <1>a DEF PublishNotify
<1>12. ASSUME NEW s \in Tasks, ScanDone(s)
      PROVE  ControlTask'
  BY <1>12, <1>a DEF ScanDone
<1>13. ASSUME NEW s \in Tasks, ScanSubscribe(s)
      PROVE  ControlTask'
  BY <1>13, <1>a DEF ScanSubscribe
<1>14. ASSUME NEW s \in Tasks, DispatcherRecv(s)
      PROVE  ControlTask'
  BY <1>14, <1>a DEF DispatcherRecv
<1>15. ASSUME NEW s \in Tasks, DispatcherPublish(s)
      PROVE  ControlTask'
  BY <1>15, <1>a DEF DispatcherPublish
<1>16. ASSUME NEW s \in Tasks, DispatcherDrop(s)
      PROVE  ControlTask'
  BY <1>16, <1>a DEF DispatcherDrop
<1>17. ASSUME NEW w \in Workers, WorkerRecv(w)
      PROVE  ControlTask'
  <2>1. Head(queue) \in Tasks /\ pc[Head(queue)] = "queued"
    BY <1>17, QueueFacts DEF WorkerRecv, Channel
  <2>2. QED
    BY <1>17, <1>a, <2>1 DEF WorkerRecv
<1>18. ASSUME Exit
      PROVE  ControlTask'
  BY <1>18, <1>a DEF Exit
<1>19. CASE UNCHANGED vars
  BY <1>19, <1>a DEF vars
<1>20. ASSUME NEW c \in Threads, NEW h \in Tasks, Forget(c, h)
      PROVE  ControlTask'
  BY <1>20, <1>a DEF Forget
<1> QED
  BY <1>1, <1>2, <1>3, <1>4, <1>5, <1>6, <1>7, <1>8, <1>9, <1>10, <1>11, <1>12, <1>13, <1>14, <1>15, <1>16, <1>17, <1>18, <1>19, <1>20
  DEF Next, Code, AwaitStep, PublishStep, WorkerStep, DispatchStep, ThreadStep, PoolStep, Exited

\* Every step keeps the channel in order of creation.
LEMMA ChannelStep == TypeOK /\ Control /\ Channel /\ [Next]_vars => Channel'
<1> SUFFICES ASSUME TypeOK, Control, Channel, [Next]_vars PROVE Channel'
  OBVIOUS
<1>a. pc \in [Threads -> Labels] /\ queue \in Seq(Tasks) /\ created \in 0..MaxTasks
  BY DEF TypeOK
<1>b. \A i \in DOMAIN queue : queue[i] \in Tasks
  BY <1>a
<1> USE DEF Channel, Main, Tasks, Threads
<1>1. ASSUME NEW c \in Threads, NEW t \in Tasks, NEW give \in SUBSET Owned(c), Spawn(c, t, give)
      PROVE  Channel'
  <2>1. /\ queue' = Append(queue, t) /\ pc' = [pc EXCEPT ![t] = "queued"] /\ t = created + 1
    BY <1>1 DEF Spawn
  <2>2. \A i \in DOMAIN queue : queue[i] < t /\ queue[i] # t
    BY <2>1, <1>a, <1>b DEF Control, ControlTask
  <2>3. DOMAIN queue' = DOMAIN queue \cup {Len(queue) + 1} /\ Len(queue) \in Nat /\ DOMAIN queue = 1..Len(queue)
    BY <2>1, <1>a
  <2>4. \A i \in DOMAIN queue' : queue'[i] = IF i \in DOMAIN queue THEN queue[i] ELSE t
    BY <2>1, <2>3, <1>a
  <2>5. \A i \in DOMAIN queue' : pc'[queue'[i]] = "queued"
    BY <2>1, <2>2, <2>3, <2>4, <1>a, <1>b
  <2>6. \A i, j \in DOMAIN queue' : i < j => queue'[i] < queue'[j]
    BY <2>2, <2>3, <2>4
  <2>7. QED
    BY <2>5, <2>6
<1>2. ASSUME NEW c \in Threads, NEW h \in Tasks, Await(c, h)
      PROVE  Channel'
  BY <1>2, <1>a, <1>b DEF Await, Block
<1>3. ASSUME NEW c \in Threads, NEW l \in Lists(c), JoinAll(c, l)
      PROVE  Channel'
  BY <1>3, <1>a, <1>b DEF JoinAll, Block
<1>4. ASSUME NEW c \in Threads, NEW s \in Tasks, NEW l \in Lists(c), Select(c, s, l)
      PROVE  Channel'
  <2>1. pc[s] = "none" /\ pc' = [pc EXCEPT ![s] = "scan"] /\ queue' = queue
    BY <1>4, <1>a DEF Select, Control, ControlTask
  <2>2. QED
    BY <2>1, <1>a, <1>b
<1>5. ASSUME NEW c \in Threads, SpuriousWake(c)
      PROVE  Channel'
  BY <1>5, <1>a, <1>b DEF SpuriousWake
<1>6. ASSUME NEW c \in Threads, AwaitReturn(c)
      PROVE  Channel'
  BY <1>6, <1>a, <1>b DEF AwaitReturn
<1>7. ASSUME NEW c \in Threads, AwaitPark(c)
      PROVE  Channel'
  BY <1>7, <1>a, <1>b DEF AwaitPark
<1>8. ASSUME NEW t \in Tasks, ThunkReturn(t)
      PROVE  Channel'
  BY <1>8, <1>a, <1>b DEF ThunkReturn
<1>9. ASSUME NEW t \in Tasks, WorkerDrop(t)
      PROVE  Channel'
  BY <1>9, <1>a, <1>b DEF WorkerDrop
<1>10. ASSUME NEW t \in Tasks, PublishSend(t)
      PROVE  Channel'
  BY <1>10, <1>a, <1>b DEF PublishSend
<1>11. ASSUME NEW t \in Tasks, PublishNotify(t)
      PROVE  Channel'
  BY <1>11, <1>a, <1>b DEF PublishNotify
<1>12. ASSUME NEW s \in Tasks, ScanDone(s)
      PROVE  Channel'
  BY <1>12, <1>a, <1>b DEF ScanDone
<1>13. ASSUME NEW s \in Tasks, ScanSubscribe(s)
      PROVE  Channel'
  BY <1>13, <1>a, <1>b DEF ScanSubscribe
<1>14. ASSUME NEW s \in Tasks, DispatcherRecv(s)
      PROVE  Channel'
  BY <1>14, <1>a, <1>b DEF DispatcherRecv
<1>15. ASSUME NEW s \in Tasks, DispatcherPublish(s)
      PROVE  Channel'
  BY <1>15, <1>a, <1>b DEF DispatcherPublish
<1>16. ASSUME NEW s \in Tasks, DispatcherDrop(s)
      PROVE  Channel'
  BY <1>16, <1>a, <1>b DEF DispatcherDrop
<1>17. ASSUME NEW w \in Workers, WorkerRecv(w)
      PROVE  Channel'
  <2>1. /\ Head(queue) = queue[1] /\ 1 \in DOMAIN queue /\ pc' = [pc EXCEPT ![queue[1]] = "run"]
        /\ queue' = Tail(queue)
        /\ \A i \in DOMAIN queue' : i + 1 \in DOMAIN queue /\ i \in Nat /\ i >= 1 /\ queue'[i] = queue[i + 1]
    BY <1>17, QueueFacts DEF WorkerRecv
  <2>2. \A i \in DOMAIN queue' : pc'[queue'[i]] = "queued"
    <3> TAKE i \in DOMAIN queue'
    <3>1. queue[1] < queue[i + 1]
      BY <2>1
    <3>2. QED
      BY <2>1, <3>1, <1>a, <1>b
  <2>3. \A i, j \in DOMAIN queue' : i < j => queue'[i] < queue'[j]
    BY <2>1
  <2>4. QED
    BY <2>2, <2>3
<1>18. ASSUME Exit
      PROVE  Channel'
  BY <1>18, <1>a, <1>b DEF Exit
<1>19. CASE UNCHANGED vars
  BY <1>19, <1>a, <1>b DEF vars
<1>20. ASSUME NEW c \in Threads, NEW h \in Tasks, Forget(c, h)
      PROVE  Channel'
  BY <1>20, <1>a, <1>b DEF Forget
<1> QED
  BY <1>1, <1>2, <1>3, <1>4, <1>5, <1>6, <1>7, <1>8, <1>9, <1>10, <1>11, <1>12, <1>13, <1>14, <1>15, <1>16, <1>17, <1>18, <1>19, <1>20
  DEF Next, Code, AwaitStep, PublishStep, WorkerStep, DispatchStep, ThreadStep, PoolStep, Exited

\* While a thread waits, the task it waits for has its notify still to come.
LEMMA WakeupStep == TypeOK /\ Control /\ Channel /\ NoLostWakeup /\ [Next]_vars => NoLostWakeup'
<1> SUFFICES ASSUME TypeOK, Control, Channel, NoLostWakeup, [Next]_vars PROVE NoLostWakeup'
  OBVIOUS
<1>a. /\ pc \in [Threads -> Labels] /\ state \in [Tasks -> Tasks \cup {None}]
     /\ todo \in [Threads -> Seq(Tasks)] /\ created \in 0..MaxTasks
  BY DEF TypeOK
<1>b. \A c \in Threads : pc[c] \in {"lock", "wait"} => Head(todo[c]) \in Tasks
  BY AwaitFacts DEF Blocked
<1> USE DEF NoLostWakeup, Done, Locked, Main, None, Tasks, Threads
<1>1. ASSUME NEW c \in Threads, NEW t \in Tasks, NEW give \in SUBSET Owned(c), Spawn(c, t, give)
      PROVE  NoLostWakeup'
  <2>1. pc[t] = "none"
    BY <1>1, <1>a DEF Spawn, Control, ControlTask
  <2>2. QED
    BY <1>1, <1>a, <1>b, <2>1 DEF Spawn
<1>2. ASSUME NEW c \in Threads, NEW h \in Tasks, Await(c, h)
      PROVE  NoLostWakeup'
  BY <1>2, <1>a, <1>b DEF Await, Block
<1>3. ASSUME NEW c \in Threads, NEW l \in Lists(c), JoinAll(c, l)
      PROVE  NoLostWakeup'
  BY <1>3, <1>a, <1>b DEF JoinAll, Block
<1>4. ASSUME NEW c \in Threads, NEW s \in Tasks, NEW l \in Lists(c), Select(c, s, l)
      PROVE  NoLostWakeup'
  <2>1. pc[s] = "none"
    BY <1>4, <1>a DEF Select, Control, ControlTask
  <2>2. QED
    BY <1>4, <1>a, <1>b, <2>1 DEF Select
<1>5. ASSUME NEW c \in Threads, SpuriousWake(c)
      PROVE  NoLostWakeup'
  BY <1>5, <1>a, <1>b DEF SpuriousWake
<1>6. ASSUME NEW c \in Threads, AwaitReturn(c)
      PROVE  NoLostWakeup'
  BY <1>6, <1>a, <1>b DEF AwaitReturn
<1>7. ASSUME NEW c \in Threads, AwaitPark(c)
      PROVE  NoLostWakeup'
  BY <1>7, <1>a, <1>b DEF AwaitPark
<1>8. ASSUME NEW t \in Tasks, ThunkReturn(t)
      PROVE  NoLostWakeup'
  BY <1>8, <1>a, <1>b DEF ThunkReturn
<1>9. ASSUME NEW t \in Tasks, WorkerDrop(t)
      PROVE  NoLostWakeup'
  BY <1>9, <1>a, <1>b DEF WorkerDrop
<1>10. ASSUME NEW t \in Tasks, PublishSend(t)
      PROVE  NoLostWakeup'
  BY <1>10, <1>a, <1>b DEF PublishSend
<1>11. ASSUME NEW t \in Tasks, PublishNotify(t)
      PROVE  NoLostWakeup'
  BY <1>11, <1>a, <1>b DEF PublishNotify
<1>12. ASSUME NEW s \in Tasks, ScanDone(s)
      PROVE  NoLostWakeup'
  BY <1>12, <1>a, <1>b DEF ScanDone
<1>13. ASSUME NEW s \in Tasks, ScanSubscribe(s)
      PROVE  NoLostWakeup'
  BY <1>13, <1>a, <1>b DEF ScanSubscribe
<1>14. ASSUME NEW s \in Tasks, DispatcherRecv(s)
      PROVE  NoLostWakeup'
  BY <1>14, <1>a, <1>b DEF DispatcherRecv
<1>15. ASSUME NEW s \in Tasks, DispatcherPublish(s)
      PROVE  NoLostWakeup'
  BY <1>15, <1>a, <1>b DEF DispatcherPublish
<1>16. ASSUME NEW s \in Tasks, DispatcherDrop(s)
      PROVE  NoLostWakeup'
  BY <1>16, <1>a, <1>b DEF DispatcherDrop
<1>17. ASSUME NEW w \in Workers, WorkerRecv(w)
      PROVE  NoLostWakeup'
  <2>1. Head(queue) \in Tasks /\ pc[Head(queue)] = "queued"
    BY <1>17, QueueFacts DEF WorkerRecv, Channel
  <2>2. QED
    BY <1>17, <1>a, <1>b, <2>1 DEF WorkerRecv
<1>18. ASSUME Exit
      PROVE  NoLostWakeup'
  BY <1>18, <1>a, <1>b DEF Exit
<1>19. CASE UNCHANGED vars
  BY <1>19, <1>a, <1>b DEF vars
<1>20. ASSUME NEW c \in Threads, NEW h \in Tasks, Forget(c, h)
      PROVE  NoLostWakeup'
  BY <1>20, <1>a, <1>b DEF Forget
<1> QED
  BY <1>1, <1>2, <1>3, <1>4, <1>5, <1>6, <1>7, <1>8, <1>9, <1>10, <1>11, <1>12, <1>13, <1>14, <1>15, <1>16, <1>17, <1>18, <1>19, <1>20
  DEF Next, Code, AwaitStep, PublishStep, WorkerStep, DispatchStep, ThreadStep, PoolStep, Exited

\* Every step keeps each handle in one place.
LEMMA BlockHandles ==
  ASSUME TypeOK, Handles, NEW c \in Threads, NEW l \in Seq(Tasks), Block(c, l), Distinct(l),
         \A i \in DOMAIN l : owner[l[i]] = {c}
  PROVE  Handles'
<1>a. /\ owner \in [Tasks -> {{}} \cup {{d} : d \in Threads \cup {Lost}}] /\ created \in 0..MaxTasks
      /\ todo \in [Threads -> Seq(Tasks)] /\ srcs \in [Tasks -> Seq(Tasks)]
  BY DEF TypeOK
<1>b. \A i \in DOMAIN l : l[i] \in Tasks /\ l[i] <= created
  <2> TAKE i \in DOMAIN l
  <2>1. l[i] \in Tasks
    OBVIOUS
  <2>2. owner[l[i]] # {}
    OBVIOUS
  <2>3. QED
    BY <2>1, <2>2 DEF Handles
<1>c. \A d \in Threads : \A i \in DOMAIN todo[d] : todo[d][i] \in Tasks
  BY <1>a
<1>d. /\ todo' = [todo EXCEPT ![c] = l] /\ created' = created /\ srcs' = srcs
      /\ owner' = [t \in Tasks |-> IF \E i \in DOMAIN l : l[i] = t THEN {} ELSE owner[t]]
  BY DEF Block
<1>1. \A t \in Tasks : owner'[t] # {} => t <= created'
  BY <1>a, <1>d DEF Handles
<1>2. \A d \in Threads : \A i \in DOMAIN todo'[d] : todo'[d][i] <= created' /\ owner'[todo'[d][i]] = {}
  BY <1>a, <1>b, <1>c, <1>d DEF Handles
<1>3. \A d, e \in Threads : \A i \in DOMAIN todo'[d], j \in DOMAIN todo'[e] :
        todo'[d][i] = todo'[e][j] => d = e /\ i = j
  <2> SUFFICES ASSUME NEW d \in Threads, NEW e \in Threads, NEW i \in DOMAIN todo'[d], NEW j \in DOMAIN todo'[e],
                      todo'[d][i] = todo'[e][j]
               PROVE  d = e /\ i = j
    OBVIOUS
  <2>1. CASE d # c /\ e # c
    BY <2>1, <1>a, <1>d DEF Handles
  <2>2. CASE d = c /\ e = c
    BY <2>2, <1>a, <1>d DEF Distinct
  <2>3. CASE d = c /\ e # c
    <3>1. i \in DOMAIN l /\ j \in DOMAIN todo[e] /\ l[i] = todo[e][j]
      BY <2>3, <1>a, <1>d
    <3>2. owner[l[i]] = {c} /\ owner[todo[e][j]] = {}
      BY <3>1 DEF Handles
    <3>3. QED
      BY <3>1, <3>2
  <2>4. CASE d # c /\ e = c
    <3>1. j \in DOMAIN l /\ i \in DOMAIN todo[d] /\ l[j] = todo[d][i]
      BY <2>4, <1>a, <1>d
    <3>2. owner[l[j]] = {c} /\ owner[todo[d][i]] = {}
      BY <3>1 DEF Handles
    <3>3. QED
      BY <3>1, <3>2
  <2>5. QED
    BY <2>1, <2>2, <2>3, <2>4
<1>4. QED
  BY <1>1, <1>2, <1>3, <1>d DEF Handles

\* Every action that moves a handle moves it to one place.
LEMMA HandlesStep == TypeOK /\ Control /\ Handles /\ [Next]_vars => Handles'
<1> SUFFICES ASSUME TypeOK, Control, Handles, [Next]_vars PROVE Handles'
  OBVIOUS
<1>a. /\ owner \in [Tasks -> {{}} \cup {{d} : d \in Threads \cup {Lost}}] /\ created \in 0..MaxTasks
     /\ todo \in [Threads -> Seq(Tasks)] /\ srcs \in [Tasks -> Seq(Tasks)]
  BY DEF TypeOK
<1>b. \A c \in Threads : \A i \in DOMAIN todo[c] : todo[c][i] \in Tasks
  BY <1>a
<1>1. ASSUME NEW c \in Threads, NEW t \in Tasks, NEW give \in SUBSET Owned(c), Spawn(c, t, give)
      PROVE  Handles'
  <2>1. /\ created' = created + 1 /\ UNCHANGED <<todo, srcs>> /\ t = created + 1
        /\ owner' = [u \in Tasks |-> IF u = t THEN {c} ELSE IF u \in give THEN {t} ELSE owner[u]]
        /\ \A u \in give : u \in Tasks /\ owner[u] = {c} /\ owner[u] # {}
    BY <1>1 DEF Spawn, Owned
  <2>2. \A u \in Tasks : owner'[u] # {} => u <= created'
    <3> TAKE u \in Tasks
    <3>1. u \in give \/ owner[u] # {} => u <= created
      BY <2>1 DEF Handles
    <3>2. QED
      BY <2>1, <3>1, <1>a DEF Tasks
  <2>3. \A d \in Threads : \A i \in DOMAIN todo[d] : todo[d][i] # t /\ todo[d][i] \notin give
    <3> TAKE d \in Threads
    <3> TAKE i \in DOMAIN todo[d]
    <3>1. todo[d][i] <= created /\ owner[todo[d][i]] = {} /\ todo[d][i] \in Tasks
      BY <1>b DEF Handles
    <3>2. QED
      BY <2>1, <3>1, <1>a DEF Tasks
  <2>4. \A d \in Threads : \A i \in DOMAIN todo'[d] : todo'[d][i] <= created' /\ owner'[todo'[d][i]] = {}
    BY <2>1, <2>3, <1>a, <1>b DEF Handles, Tasks
  <2>5. QED
    BY <2>1, <2>2, <2>4 DEF Handles
<1>2. ASSUME NEW c \in Threads, NEW h \in Tasks, Await(c, h)
      PROVE  Handles'
  <2>1. /\ <<h>> \in Seq(Tasks) /\ Distinct(<<h>>) /\ Block(c, <<h>>)
        /\ \A i \in DOMAIN <<h>> : owner[<<h>>[i]] = {c}
    BY <1>2 DEF Await, Distinct, Owned
  <2>2. QED
    BY <2>1, BlockHandles
<1>3. ASSUME NEW c \in Threads, NEW l \in Lists(c), JoinAll(c, l)
      PROVE  Handles'
  <2>1. l \in Seq(Tasks) /\ Distinct(l) /\ \A i \in DOMAIN l : l[i] \in Tasks /\ owner[l[i]] = {c}
    BY <1>3, ListFacts DEF JoinAll
  <2>2. Block(c, l)
    BY <1>3 DEF JoinAll
  <2>3. QED
    BY <1>a, <2>1, <2>2, BlockHandles
<1>4. ASSUME NEW c \in Threads, NEW s \in Tasks, NEW l \in Lists(c), Select(c, s, l)
      PROVE  Handles'
  <2>1. /\ created' = created + 1 /\ todo' = todo /\ srcs' = [srcs EXCEPT ![s] = l] /\ s = created + 1
        /\ owner' = [owner EXCEPT ![s] = {c}]
    BY <1>4 DEF Select
  <2>2. \A u \in Tasks : owner'[u] # {} => u <= created'
    <3> TAKE u \in Tasks
    <3>1. owner[u] # {} => u <= created
      BY DEF Handles
    <3>2. QED
      BY <2>1, <3>1, <1>a DEF Tasks
  <2>3. \A i \in DOMAIN l : l[i] < s
    <3> TAKE i \in DOMAIN l
    <3>1. l[i] \in Tasks /\ owner[l[i]] # {}
      BY ListFacts
    <3>2. l[i] <= created
      BY <3>1 DEF Handles
    <3>3. QED
      BY <2>1, <3>1, <3>2, <1>a DEF Tasks
  <2>4. \A u \in Tasks : \A i \in DOMAIN srcs'[u] : srcs'[u][i] < u
    BY <2>1, <2>3, <1>a DEF Handles
  <2>5. \A d \in Threads : \A i \in DOMAIN todo'[d] : todo'[d][i] <= created' /\ owner'[todo'[d][i]] = {}
    BY <2>1, <1>a, <1>b, MaxTasksAssumption DEF Handles, Tasks
  <2>6. QED
    BY <2>1, <2>2, <2>4, <2>5 DEF Handles
<1>5. ASSUME NEW c \in Threads, AwaitReturn(c)
      PROVE  Handles'
  <2>1. /\ todo' = [todo EXCEPT ![c] = Tail(todo[c])] /\ UNCHANGED <<created, owner, srcs>>
        /\ \A i \in DOMAIN Tail(todo[c]) :
             i \in Nat /\ i + 1 \in DOMAIN todo[c] /\ Tail(todo[c])[i] = todo[c][i + 1]
    BY <1>5, AwaitFacts DEF AwaitReturn, Blocked
  <2>2. \A d \in Threads : \A i \in DOMAIN todo'[d] :
          /\ i \in Nat
          /\ todo'[d][i] = IF d = c THEN todo[d][i + 1] ELSE todo[d][i]
          /\ (IF d = c THEN i + 1 ELSE i) \in DOMAIN todo[d]
    BY <2>1, <1>a
  <2>3. \A d \in Threads : \A i \in DOMAIN todo'[d] : todo'[d][i] <= created' /\ owner'[todo'[d][i]] = {}
    <3> TAKE d \in Threads
    <3> TAKE i \in DOMAIN todo'[d]
    <3> DEFINE p == IF d = c THEN i + 1 ELSE i
    <3>1. p \in DOMAIN todo[d] /\ todo'[d][i] = todo[d][p]
      BY <2>2
    <3>2. todo[d][p] <= created /\ owner[todo[d][p]] = {}
      BY <3>1 DEF Handles
    <3>3. QED
      BY <2>1, <3>1, <3>2
  <2>4. \A d, e \in Threads : \A i \in DOMAIN todo'[d], j \in DOMAIN todo'[e] :
          todo'[d][i] = todo'[e][j] => d = e /\ i = j
    <3> SUFFICES ASSUME NEW d \in Threads, NEW e \in Threads, NEW i \in DOMAIN todo'[d],
                        NEW j \in DOMAIN todo'[e], todo'[d][i] = todo'[e][j]
                 PROVE  d = e /\ i = j
      OBVIOUS
    <3> DEFINE p == IF d = c THEN i + 1 ELSE i
               q == IF e = c THEN j + 1 ELSE j
    <3>1. p \in DOMAIN todo[d] /\ q \in DOMAIN todo[e] /\ todo[d][p] = todo[e][q]
      BY <2>2
    <3>2. d = e /\ p = q
      BY <3>1 DEF Handles
    <3>3. QED
      BY <2>2, <3>2
  <2>5. QED
    BY <2>1, <2>3, <2>4 DEF Handles
<1>6. ASSUME UNCHANGED <<created, owner, todo, srcs>>
      PROVE  Handles'
  BY <1>6 DEF Handles
<1>7. ASSUME \/ \E c \in Threads, h \in Tasks : Forget(c, h)
             \/ \E t \in Tasks : ThunkReturn(t)
      PROVE  Handles'
  <2>1. UNCHANGED <<created, todo, srcs>>
    BY <1>7 DEF Forget, ThunkReturn
  <2>2. \A u \in Tasks : owner'[u] = {} <=> owner[u] = {}
    BY <1>7, LosingFacts
  <2>3. QED
    BY <2>1, <2>2, <1>b DEF Handles
<1> QED
  <2>1. ASSUME NEW c \in Threads, Code(c)
        PROVE  Handles'
    BY <2>1, <1>1, <1>2, <1>3, <1>4, <1>5, <1>6, <1>7 DEF Code
  <2>2. ASSUME NEW c \in Threads, AwaitStep(c) \/ SpuriousWake(c)
        PROVE  Handles'
    BY <2>2, <1>1, <1>2, <1>3, <1>4, <1>5, <1>6, <1>7 DEF AwaitStep, SpuriousWake, AwaitPark
  <2>3. ASSUME NEW t \in Tasks, WorkerStep(t) \/ PublishStep(t)
        PROVE  Handles'
    BY <2>3, <1>1, <1>2, <1>3, <1>4, <1>5, <1>6, <1>7 DEF WorkerStep, PublishStep, WorkerDrop, PublishSend, PublishNotify
  <2>4. ASSUME NEW s \in Tasks, DispatchStep(s)
        PROVE  Handles'
    BY <2>4, <1>1, <1>2, <1>3, <1>4, <1>5, <1>6, <1>7 DEF DispatchStep, ScanDone, ScanSubscribe, DispatcherRecv, DispatcherPublish, DispatcherDrop
  <2>5. CASE PoolStep \/ Exit \/ Exited \/ UNCHANGED vars
    BY <2>5, <1>1, <1>2, <1>3, <1>4, <1>5, <1>6, <1>7 DEF PoolStep, Exited, WorkerRecv, Exit, vars
  <2>6. QED
    BY <2>1, <2>2, <2>3, <2>4, <2>5 DEF Next, ThreadStep, Threads

\* A dispatcher that subscribes stays subscribed until its message arrives.
LEMMA SubscribedStep == TypeOK /\ Control /\ Subscribed /\ [Next]_vars => Subscribed'
<1> SUFFICES ASSUME TypeOK, Control, Subscribed, [Next]_vars PROVE Subscribed'
  OBVIOUS
<1>a. /\ pc \in [Threads -> Labels] /\ srcs \in [Tasks -> Seq(Tasks)] /\ scan \in [Tasks -> Nat] /\ created \in 0..MaxTasks
     /\ waiters \in [Tasks -> SUBSET Tasks] /\ inbox \in [Tasks -> Tasks \cup {None}] /\ Tasks \subseteq Threads
  BY DEF TypeOK, Threads
<1>b. \A c \in Tasks : pc[c] \in Blocked => pc[c] \notin {"scan", "recv"}
  BY DEF Blocked
<1>c. \A u \in Tasks : pc[u] \in {"scan", "recv"} => \A i \in 1..scan[u] : srcs[u][i] \in Tasks
  BY <1>a DEF Control, ControlTask
<1>1. ASSUME NEW c \in Threads, NEW t \in Tasks, NEW give \in SUBSET Owned(c), Spawn(c, t, give)
      PROVE  Subscribed'
  BY <1>1, <1>a, <1>b DEF Subscribed, Spawn
<1>2. ASSUME NEW c \in Threads, NEW h \in Tasks, Await(c, h)
      PROVE  Subscribed'
  BY <1>2, <1>a, <1>b DEF Subscribed, Await, Block
<1>3. ASSUME NEW c \in Threads, NEW l \in Lists(c), JoinAll(c, l)
      PROVE  Subscribed'
  BY <1>3, <1>a, <1>b DEF Subscribed, JoinAll, Block
<1>4. ASSUME NEW c \in Threads, NEW s \in Tasks, NEW l \in Lists(c), Select(c, s, l)
      PROVE  Subscribed'
  <2>1. /\ srcs' = [srcs EXCEPT ![s] = l] /\ pc' = [pc EXCEPT ![s] = "scan"]
        /\ UNCHANGED <<waiters, scan, inbox>> /\ scan[s] = 0
    <3>1. pc[s] = "none"
      BY <1>4, <1>a DEF Select, Control, ControlTask, Tasks
    <3>2. scan[s] = 0
      BY <3>1 DEF Control, ControlTask
    <3>3. QED
      BY <1>4, <3>2 DEF Select
  <2>2. \A u \in Tasks \ {s} : pc'[u] = pc[u] /\ srcs'[u] = srcs[u]
    BY <2>1, <1>a
  <2>3. 1..scan[s] = {}
    BY <2>1
  <2>4. QED
    BY <2>1, <2>2, <2>3 DEF Subscribed
<1>5. ASSUME NEW c \in Threads, SpuriousWake(c)
      PROVE  Subscribed'
  BY <1>5, <1>a, <1>b DEF Subscribed, SpuriousWake
<1>6. ASSUME NEW c \in Threads, AwaitReturn(c)
      PROVE  Subscribed'
  BY <1>6, <1>a, <1>b DEF Subscribed, AwaitReturn
<1>7. ASSUME NEW c \in Threads, AwaitPark(c)
      PROVE  Subscribed'
  BY <1>7, <1>a, <1>b DEF Subscribed, AwaitPark
<1>8. ASSUME NEW t \in Tasks, ThunkReturn(t)
      PROVE  Subscribed'
  BY <1>8, <1>a, <1>b DEF Subscribed, ThunkReturn
<1>9. ASSUME NEW t \in Tasks, WorkerDrop(t)
      PROVE  Subscribed'
  BY <1>9, <1>a, <1>b DEF Subscribed, WorkerDrop
<1>10. ASSUME NEW t \in Tasks, PublishSend(t)
      PROVE  Subscribed'
  <2>1. PICK s \in waiters[t] : PublishTo(t, s)
    BY <1>10 DEF PublishSend
  <2>2. s \in Tasks /\ pc' = pc /\ srcs' = srcs /\ scan' = scan
    BY <1>10, <2>1, <1>a DEF PublishSend
  <2>3. state[t] # None
    BY <1>10 DEF PublishSend, Control, ControlTask, Done
  <2>4. \A u \in Tasks \ {s} : inbox'[u] = inbox[u] /\ \A v \in Tasks : u \in waiters[v] => u \in waiters'[v]
    BY <2>1, <2>2, <1>a DEF PublishTo
  <2>5. pc[s] # "done" => inbox'[s] # None
    BY <2>1, <2>2, <2>3, <1>a DEF PublishTo
  <2>6. ASSUME NEW u \in Tasks, pc'[u] \in {"scan", "recv"}, inbox'[u] = None, NEW i \in 1..scan'[u]
        PROVE  u \in waiters'[srcs'[u][i]]
    <3>1. u # s
      BY <2>2, <2>5, <2>6
    <3>2. u \in waiters[srcs[u][i]]
      BY <2>2, <2>4, <2>6, <3>1 DEF Subscribed
    <3>3. srcs[u][i] \in Tasks
      BY <2>2, <2>6, <1>c
    <3>4. QED
      BY <2>2, <2>4, <3>1, <3>2, <3>3
  <2>7. QED
    BY <2>6 DEF Subscribed
<1>11. ASSUME NEW t \in Tasks, PublishNotify(t)
      PROVE  Subscribed'
  BY <1>11, <1>a, <1>b DEF Subscribed, PublishNotify
<1>12. ASSUME NEW s \in Tasks, ScanDone(s)
      PROVE  Subscribed'
  BY <1>12, <1>a, <1>b DEF Subscribed, ScanDone
<1>13. ASSUME NEW s \in Tasks, ScanSubscribe(s)
      PROVE  Subscribed'
  <2>1. /\ scan' = [scan EXCEPT ![s] = scan[s] + 1] /\ UNCHANGED <<srcs, inbox>>
        /\ waiters' = [waiters EXCEPT ![Source(s)] = waiters[Source(s)] \cup {s}]
        /\ \A u \in Tasks \ {s} : pc'[u] = pc[u]
        /\ pc[s] = "scan" /\ Source(s) = srcs[s][scan[s] + 1]
    BY <1>13, <1>a DEF ScanSubscribe, Source
  <2>2. Source(s) \in Tasks /\ scan[s] \in Nat
    BY <2>1, SourceFacts
  <2>3. \A u, v \in Tasks : u \in waiters[v] => u \in waiters'[v]
    BY <2>1, <2>2, <1>a
  <2>4. s \in waiters'[Source(s)]
    BY <2>1, <2>2, <1>a
  <2>5. ASSUME NEW u \in Tasks, pc'[u] \in {"scan", "recv"}, inbox'[u] = None, NEW i \in 1..scan'[u]
        PROVE  u \in waiters'[srcs'[u][i]]
    <3>1. CASE u # s
      <4>1. u \in waiters[srcs[u][i]] /\ srcs[u][i] \in Tasks
        BY <2>1, <2>5, <3>1, <1>a, <1>c DEF Subscribed
      <4>2. QED
        BY <2>1, <2>3, <4>1
    <3>2. CASE u = s /\ i <= scan[s]
      <4>1. i \in 1..scan[s]
        BY <2>5, <3>2, <2>1, <2>2
      <4>2. u \in waiters[srcs[u][i]] /\ srcs[u][i] \in Tasks
        BY <2>1, <2>5, <3>2, <4>1, <1>c DEF Subscribed
      <4>3. QED
        BY <2>1, <2>3, <4>2
    <3>3. CASE u = s /\ i = scan[s] + 1
      BY <2>1, <2>4, <3>3
    <3>4. QED
      BY <2>1, <2>2, <2>5, <3>1, <3>2, <3>3, <1>a
  <2>6. QED
    BY <2>5 DEF Subscribed
<1>14. ASSUME NEW s \in Tasks, DispatcherRecv(s)
      PROVE  Subscribed'
  BY <1>14, <1>a, <1>b DEF Subscribed, DispatcherRecv
<1>15. ASSUME NEW s \in Tasks, DispatcherPublish(s)
      PROVE  Subscribed'
  BY <1>15, <1>a, <1>b DEF Subscribed, DispatcherPublish
<1>16. ASSUME NEW s \in Tasks, DispatcherDrop(s)
      PROVE  Subscribed'
  <2>1. \A u \in Tasks \ {s} : pc'[u] = pc[u] /\ inbox'[u] = inbox[u] /\ scan'[u] = scan[u]
    BY <1>16, <1>a DEF DispatcherDrop
  <2>2. pc'[s] = "done" /\ srcs' = srcs /\ waiters' = waiters
    BY <1>16, <1>a DEF DispatcherDrop
  <2>3. QED
    BY <2>1, <2>2 DEF Subscribed
<1>17. ASSUME NEW w \in Workers, WorkerRecv(w)
      PROVE  Subscribed'
  <2>1. Head(queue) \in Tasks /\ \A u \in Threads \ {Head(queue)} : pc'[u] = pc[u]
    BY <1>17, <1>a, QueueFacts DEF WorkerRecv
  <2>2. pc'[Head(queue)] = "run" /\ UNCHANGED <<srcs, waiters, inbox, scan>>
    BY <1>17, <1>a, <2>1 DEF WorkerRecv, Threads
  <2>3. \A u \in Tasks : pc'[u] \in {"scan", "recv"} => pc[u] = pc'[u]
    BY <2>1, <2>2 DEF Threads
  <2>4. QED
    BY <2>2, <2>3 DEF Subscribed
<1>18. ASSUME Exit
      PROVE  Subscribed'
  BY <1>18, <1>a, <1>b DEF Subscribed, Exit
<1>19. ASSUME UNCHANGED <<pc, srcs, scan, waiters, inbox>>
      PROVE  Subscribed'
  BY <1>19 DEF Subscribed
<1> QED
  <2>1. ASSUME NEW c \in Threads, Code(c)
        PROVE  Subscribed'
    BY <2>1, <1>1, <1>2, <1>3, <1>4, <1>5, <1>6, <1>7, <1>8, <1>9, <1>10, <1>11, <1>12, <1>13, <1>14, <1>15, <1>16, <1>17, <1>18, <1>19 DEF Code, Forget
  <2>2. ASSUME NEW c \in Threads, AwaitStep(c) \/ SpuriousWake(c)
        PROVE  Subscribed'
    BY <2>2, <1>1, <1>2, <1>3, <1>4, <1>5, <1>6, <1>7, <1>8, <1>9, <1>10, <1>11, <1>12, <1>13, <1>14, <1>15, <1>16, <1>17, <1>18, <1>19 DEF AwaitStep
  <2>3. ASSUME NEW t \in Tasks, WorkerStep(t) \/ PublishStep(t)
        PROVE  Subscribed'
    BY <2>3, <1>1, <1>2, <1>3, <1>4, <1>5, <1>6, <1>7, <1>8, <1>9, <1>10, <1>11, <1>12, <1>13, <1>14, <1>15, <1>16, <1>17, <1>18, <1>19 DEF WorkerStep, PublishStep
  <2>4. ASSUME NEW s \in Tasks, DispatchStep(s)
        PROVE  Subscribed'
    BY <2>4, <1>1, <1>2, <1>3, <1>4, <1>5, <1>6, <1>7, <1>8, <1>9, <1>10, <1>11, <1>12, <1>13, <1>14, <1>15, <1>16, <1>17, <1>18, <1>19 DEF DispatchStep
  <2>5. CASE PoolStep \/ Exit \/ Exited \/ UNCHANGED vars
    BY <2>5, <1>1, <1>2, <1>3, <1>4, <1>5, <1>6, <1>7, <1>8, <1>9, <1>10, <1>11, <1>12, <1>13, <1>14, <1>15, <1>16, <1>17, <1>18, <1>19 DEF PoolStep, Exited, vars
  <2>6. QED
    BY <2>1, <2>2, <2>3, <2>4, <2>5 DEF Next, ThreadStep, Threads

\* In a program whose tasks do not spawn, awaiting always looks back.
LEMMA BlockOrder ==
  ASSUME TypeOK, Control, Order, ~Nesting, NEW c \in Threads, NEW l \in Seq(Tasks), Block(c, l),
         \A i \in DOMAIN l : owner[l[i]] = {c}
  PROVE  Order'
<1>a. /\ owner \in [Tasks -> {{}} \cup {{d} : d \in Threads \cup {Lost}}] /\ todo \in [Threads -> Seq(Tasks)]
      /\ pc \in [Threads -> Labels] /\ Tasks \subseteq Threads
  BY DEF TypeOK, Threads
<1>b. /\ todo' = [todo EXCEPT ![c] = l] /\ pc' = [pc EXCEPT ![c] = "lock"] /\ queue' = queue /\ srcs' = srcs
      /\ owner' = [t \in Tasks |-> IF \E i \in DOMAIN l : l[i] = t THEN {} ELSE owner[t]] /\ pc[c] = "run"
  BY DEF Block
<1>1. \A h, u \in Tasks : owner'[h] = {u} /\ srcs'[h] = <<>> => h < u
  BY <1>a, <1>b DEF Order, IsSelect
<1>2. \A u \in Tasks : \A i \in DOMAIN todo'[u] : srcs'[todo'[u][i]] = <<>> => todo'[u][i] < u
  <2> TAKE u \in Tasks
  <2> TAKE i \in DOMAIN todo'[u]
  <2>1. CASE u = c
    <3>1. i \in DOMAIN l /\ todo'[u][i] = l[i] /\ l[i] \in Tasks /\ owner[l[i]] = {u}
      BY <2>1, <1>a, <1>b
    <3>2. QED
      BY <3>1, <1>b DEF Order, IsSelect
  <2>2. CASE u # c
    BY <2>2, <1>a, <1>b DEF Order, IsSelect
  <2>3. QED
    BY <2>1, <2>2
<1>3. \A u \in Tasks : pc'[u] \in {"run", "lock", "wait"} => \A i \in DOMAIN queue' : u < queue'[i]
  BY <1>a, <1>b DEF Order
<1>4. QED
  BY <1>1, <1>2, <1>3 DEF Order, IsSelect

\* Every step of such a program keeps that order.
LEMMA OrderStep == TypeOK /\ Control /\ Channel /\ Handles /\ Order /\ ~Nesting /\ [Next]_vars => Order'
<1> SUFFICES ASSUME TypeOK, Control, Channel, Handles, Order, ~Nesting, [Next]_vars PROVE Order'
  OBVIOUS
<1>a. /\ pc \in [Threads -> Labels] /\ srcs \in [Tasks -> Seq(Tasks)] /\ created \in 0..MaxTasks /\ queue \in Seq(Tasks)
     /\ owner \in [Tasks -> {{}} \cup {{d} : d \in Threads \cup {Lost}}] /\ todo \in [Threads -> Seq(Tasks)] /\ Tasks \subseteq Threads
  BY DEF TypeOK, Threads
<1>b. \A c \in Tasks : \A i \in DOMAIN todo[c] : todo[c][i] \in Tasks
  BY <1>a
<1>c. Order /\ ~Nesting
  OBVIOUS
<1>1. ASSUME NEW c \in Threads, NEW t \in Tasks, NEW give \in SUBSET Owned(c), Spawn(c, t, give)
      PROVE  Order'
  <2>1. /\ pc' = [pc EXCEPT ![t] = "queued"] /\ t = created + 1 /\ c = Main /\ UNCHANGED <<todo, srcs>>
        /\ queue' = Append(queue, t)
        /\ owner' = [u \in Tasks |-> IF u = t THEN {c} ELSE IF u \in give THEN {t} ELSE owner[u]]
        /\ \A u \in give : u \in Tasks /\ owner[u] # {}
    BY <1>1, <1>c DEF Spawn, Owned
  <2>2. \A h, u \in Tasks : owner'[h] = {u} /\ srcs'[h] = <<>> => h < u
    <3> TAKE h, u \in Tasks
    <3>1. h \in give => h <= created
      BY <2>1 DEF Handles
    <3>2. Main # u
      BY DEF Main, Tasks
    <3>3. owner[h] = {u} /\ ~IsSelect(h) => h < u
      BY <1>c DEF Order
    <3>4. created \in Nat /\ h \in Nat /\ srcs' = srcs
      BY <1>a, <2>1 DEF Tasks
    <3>5. h = t => owner'[h] # {u}
      BY <2>1, <3>2
    <3>6. h \in give /\ h # t /\ owner'[h] = {u} => h < u
      BY <2>1, <3>1, <3>4
    <3>7. QED
      BY <2>1, <3>3, <3>4, <3>5, <3>6 DEF IsSelect
  <2>3. \A u \in Tasks : \A i \in DOMAIN todo'[u] : srcs'[todo'[u][i]] = <<>> => todo'[u][i] < u
    BY <2>1, <1>c DEF Order, IsSelect
  <2>4. \A u \in Tasks : pc'[u] \in {"run", "lock", "wait"} => \A i \in DOMAIN queue' : u < queue'[i]
    <3> SUFFICES ASSUME NEW u \in Tasks, pc'[u] \in {"run", "lock", "wait"}, NEW i \in DOMAIN queue'
                 PROVE  u < queue'[i]
      OBVIOUS
    <3>1. u # t /\ pc[u] = pc'[u]
      BY <2>1, <1>a
    <3>2. u <= created
      BY <3>1, <1>a DEF Control, ControlTask, Tasks
    <3>3. \A j \in DOMAIN queue : u < queue[j]
      BY <3>1, <1>c DEF Order
    <3>4. (i \in DOMAIN queue /\ queue'[i] = queue[i]) \/ queue'[i] = t
      BY <2>1, <1>a
    <3>5. QED
      BY <2>1, <3>2, <3>3, <3>4, <1>a DEF Tasks
  <2>5. QED
    BY <2>2, <2>3, <2>4 DEF Order, IsSelect
<1>2. ASSUME NEW c \in Threads, NEW h \in Tasks, Await(c, h)
      PROVE  Order'
  <2>1. <<h>> \in Seq(Tasks) /\ Block(c, <<h>>) /\ \A i \in DOMAIN <<h>> : owner[<<h>>[i]] = {c}
    BY <1>2 DEF Await, Owned
  <2>2. QED
    BY <2>1, <1>c, BlockOrder
<1>3. ASSUME NEW c \in Threads, NEW l \in Lists(c), JoinAll(c, l)
      PROVE  Order'
  <2>1. l \in Seq(Tasks) /\ \A i \in DOMAIN l : owner[l[i]] = {c}
    BY <1>3, ListFacts
  <2>2. Block(c, l)
    BY <1>3 DEF JoinAll
  <2>3. QED
    BY <2>1, <2>2, <1>c, BlockOrder
<1>4. ASSUME NEW c \in Threads, NEW s \in Tasks, NEW l \in Lists(c), Select(c, s, l)
      PROVE  Order'
  <2>1. /\ pc' = [pc EXCEPT ![s] = "scan"] /\ UNCHANGED <<todo, queue>>
        /\ srcs' = [srcs EXCEPT ![s] = l] /\ owner' = [owner EXCEPT ![s] = {c}] /\ l # <<>>
    BY <1>4, ListFacts DEF Select
  <2>2. \A u \in Tasks : srcs'[u] = <<>> => u # s /\ srcs[u] = <<>>
    BY <2>1, <1>a DEF IsSelect
  <2>3. \A h, u \in Tasks : owner'[h] = {u} /\ srcs'[h] = <<>> => h < u
    BY <2>1, <2>2, <1>a, <1>c DEF Order, IsSelect
  <2>4. \A u \in Tasks : \A i \in DOMAIN todo'[u] : srcs'[todo'[u][i]] = <<>> => todo'[u][i] < u
    BY <2>1, <2>2, <1>a, <1>b, <1>c DEF Order, IsSelect
  <2>5. \A u \in Tasks : pc'[u] \in {"run", "lock", "wait"} => \A i \in DOMAIN queue' : u < queue'[i]
    BY <2>1, <1>a, <1>c DEF Order
  <2>6. QED
    BY <2>3, <2>4, <2>5 DEF Order, IsSelect
<1>5. ASSUME NEW c \in Threads, SpuriousWake(c)
      PROVE  Order'
  BY <1>5, <1>a, <1>b DEF Order, IsSelect, SpuriousWake
<1>6. ASSUME NEW c \in Threads, AwaitReturn(c)
      PROVE  Order'
  <2>1. /\ todo' = [todo EXCEPT ![c] = Tail(todo[c])] /\ UNCHANGED <<owner, srcs, queue>>
        /\ \A i \in DOMAIN Tail(todo[c]) : i + 1 \in DOMAIN todo[c] /\ Tail(todo[c])[i] = todo[c][i + 1]
        /\ pc[c] = "lock"
    BY <1>6, AwaitFacts DEF AwaitReturn, Blocked
  <2>2. \A u \in Tasks : \A i \in DOMAIN todo'[u] : srcs'[todo'[u][i]] = <<>> => todo'[u][i] < u
    <3> TAKE u \in Tasks
    <3> TAKE i \in DOMAIN todo'[u]
    <3>1. CASE u = c
      <4>1. i + 1 \in DOMAIN todo[u] /\ todo'[u][i] = todo[u][i + 1]
        BY <2>1, <3>1, <1>a
      <4>2. QED
        BY <4>1, <2>1, <1>c DEF Order, IsSelect
    <3>2. CASE u # c
      BY <2>1, <3>2, <1>a, <1>c DEF Order, IsSelect
    <3>3. QED
      BY <3>1, <3>2
  <2>3. \A u \in Tasks : pc'[u] \in {"run", "lock", "wait"} => pc[u] \in {"run", "lock", "wait"}
    BY <1>6, <2>1, <1>a DEF AwaitReturn
  <2>4. \A u \in Tasks : pc'[u] \in {"run", "lock", "wait"} => \A i \in DOMAIN queue' : u < queue'[i]
    BY <2>1, <2>3, <1>c DEF Order
  <2>5. \A h, u \in Tasks : owner'[h] = {u} /\ srcs'[h] = <<>> => h < u
    BY <2>1, <1>c DEF Order, IsSelect
  <2>6. QED
    BY <2>5, <2>2, <2>4 DEF Order, IsSelect
<1>7. ASSUME NEW c \in Threads, AwaitPark(c)
      PROVE  Order'
  BY <1>7, <1>a, <1>b DEF Order, IsSelect, AwaitPark
<1>8. ASSUME NEW t \in Tasks, ThunkReturn(t)
      PROVE  Order'
  <2>1. /\ UNCHANGED <<srcs, todo, queue>> /\ \A u \in Tasks : pc'[u] \in {"run", "lock", "wait"} => pc[u] = pc'[u]
        /\ \A h, u \in Tasks : owner'[h] = {u} => owner[h] = {u}
    BY <1>8, <1>a, LosingFacts DEF ThunkReturn
  <2>2. QED
    BY <2>1, <1>c DEF Order, IsSelect
<1>9. ASSUME NEW t \in Tasks, WorkerDrop(t)
      PROVE  Order'
  BY <1>9, <1>a, <1>b DEF Order, IsSelect, WorkerDrop
<1>10. ASSUME NEW t \in Tasks, PublishNotify(t)
      PROVE  Order'
  <2>1. UNCHANGED <<owner, srcs, todo, queue>>
    BY <1>10 DEF PublishNotify
  <2>2. \A u \in Tasks : pc'[u] \in {"run", "lock", "wait"} => pc[u] \in {"run", "lock", "wait"}
    BY <1>10, <1>a DEF PublishNotify
  <2>3. QED
    BY <2>1, <2>2, <1>c DEF Order, IsSelect
<1>11. ASSUME NEW s \in Tasks, ScanDone(s)
      PROVE  Order'
  BY <1>11, <1>a, <1>b DEF Order, IsSelect, ScanDone
<1>12. ASSUME NEW s \in Tasks, ScanSubscribe(s)
      PROVE  Order'
  BY <1>12, <1>a, <1>b DEF Order, IsSelect, ScanSubscribe
<1>13. ASSUME NEW s \in Tasks, DispatcherRecv(s)
      PROVE  Order'
  BY <1>13, <1>a, <1>b DEF Order, IsSelect, DispatcherRecv
<1>14. ASSUME NEW s \in Tasks, DispatcherPublish(s)
      PROVE  Order'
  BY <1>14, <1>a, <1>b DEF Order, IsSelect, DispatcherPublish
<1>15. ASSUME NEW s \in Tasks, DispatcherDrop(s)
      PROVE  Order'
  BY <1>15, <1>a, <1>b DEF Order, IsSelect, DispatcherDrop
<1>16. ASSUME NEW w \in Workers, WorkerRecv(w)
      PROVE  Order'
  <2>1. /\ Head(queue) \in Tasks /\ Head(queue) = queue[1] /\ 1 \in DOMAIN queue
        /\ queue' = Tail(queue) /\ UNCHANGED <<owner, srcs, todo>>
        /\ \A i \in DOMAIN queue' : i + 1 \in DOMAIN queue /\ i \in Nat /\ queue'[i] = queue[i + 1] /\ i > 0
    BY <1>16, <1>a, QueueFacts DEF WorkerRecv
  <2>2. pc' = [pc EXCEPT ![queue[1]] = "run"]
    BY <1>16, <2>1 DEF WorkerRecv
  <2>3. ASSUME NEW u \in Tasks, pc'[u] \in {"run", "lock", "wait"}, NEW i \in DOMAIN queue'
        PROVE  u < queue'[i]
    <3>1. CASE u = queue[1]
      BY <2>1, <3>1 DEF Channel
    <3>2. CASE u # queue[1]
      BY <2>1, <2>2, <2>3, <3>2, <1>a, <1>c DEF Order
    <3>3. QED
      BY <3>1, <3>2
  <2>4. \A h, u \in Tasks : owner'[h] = {u} /\ srcs'[h] = <<>> => h < u
    BY <2>1, <1>c DEF Order, IsSelect
  <2>5. \A u \in Tasks : \A i \in DOMAIN todo'[u] : srcs'[todo'[u][i]] = <<>> => todo'[u][i] < u
    BY <2>1, <1>c DEF Order, IsSelect
  <2>6. QED
    BY <2>4, <2>5, <2>3 DEF Order, IsSelect
<1>17. ASSUME Exit
      PROVE  Order'
  <2>1. UNCHANGED <<owner, srcs, todo, queue>> /\ \A u \in Tasks : pc'[u] = pc[u]
    BY <1>17 DEF Exit, Main, Tasks
  <2>2. QED
    BY <2>1, <1>c DEF Order, IsSelect
<1>18. ASSUME UNCHANGED <<pc, srcs, owner, todo, queue>>
      PROVE  Order'
  BY <1>18 DEF Order, IsSelect
<1>19. ASSUME NEW c \in Threads, NEW h \in Tasks, Forget(c, h)
      PROVE  Order'
  <2>1. UNCHANGED <<pc, srcs, todo, queue>> /\ \A g, u \in Tasks : owner'[g] = {u} => owner[g] = {u}
    BY <1>19, LosingFacts DEF Forget
  <2>2. QED
    BY <2>1, <1>c DEF Order, IsSelect
<1> QED
  <2>1. ASSUME NEW c \in Threads, Code(c)
        PROVE  Order'
    BY <2>1, <1>1, <1>2, <1>3, <1>4, <1>5, <1>6, <1>7, <1>8, <1>9, <1>10, <1>11, <1>12, <1>13, <1>14, <1>15, <1>16, <1>17, <1>18, <1>19 DEF Code
  <2>2. ASSUME NEW c \in Threads, AwaitStep(c) \/ SpuriousWake(c)
        PROVE  Order'
    BY <2>2, <1>1, <1>2, <1>3, <1>4, <1>5, <1>6, <1>7, <1>8, <1>9, <1>10, <1>11, <1>12, <1>13, <1>14, <1>15, <1>16, <1>17, <1>18 DEF AwaitStep
  <2>3. ASSUME NEW t \in Tasks, WorkerStep(t) \/ PublishStep(t)
        PROVE  Order'
    BY <2>3, <1>1, <1>2, <1>3, <1>4, <1>5, <1>6, <1>7, <1>8, <1>9, <1>10, <1>11, <1>12, <1>13, <1>14, <1>15, <1>16, <1>17, <1>18 DEF WorkerStep, PublishStep, PublishSend
  <2>4. ASSUME NEW s \in Tasks, DispatchStep(s)
        PROVE  Order'
    BY <2>4, <1>1, <1>2, <1>3, <1>4, <1>5, <1>6, <1>7, <1>8, <1>9, <1>10, <1>11, <1>12, <1>13, <1>14, <1>15, <1>16, <1>17, <1>18 DEF DispatchStep
  <2>5. CASE PoolStep \/ Exit \/ Exited \/ UNCHANGED vars
    BY <2>5, <1>1, <1>2, <1>3, <1>4, <1>5, <1>6, <1>7, <1>8, <1>9, <1>10, <1>11, <1>12, <1>13, <1>14, <1>15, <1>16, <1>17, <1>18 DEF PoolStep, Exited, vars
  <2>6. QED
    BY <2>1, <2>2, <2>3, <2>4, <2>5 DEF Next, ThreadStep, Threads

\* The Arc of a handle exists until an await has taken it.
LEMMA BlockArcs ==
  ASSUME TypeOK, Control, Arcs, NEW c \in Threads, NEW l \in Seq(Tasks), Block(c, l), l # <<>>,
         \A i \in DOMAIN l : owner[l[i]] = {c}
  PROVE  ArcsHandle'
<1>a. /\ owner \in [Tasks -> {{}} \cup {{d} : d \in Threads \cup {Lost}}] /\ todo \in [Threads -> Seq(Tasks)]
      /\ pc \in [Threads -> Labels] /\ Tasks \subseteq Threads /\ todo[c] = <<>>
  BY DEF TypeOK, Threads, Block, Control, ControlTodo, Blocked
<1>b. /\ todo' = [todo EXCEPT ![c] = l] /\ pc' = [pc EXCEPT ![c] = "lock"] /\ refs' = refs
      /\ owner' = [t \in Tasks |-> IF \E i \in DOMAIN l : l[i] = t THEN {} ELSE owner[t]] /\ pc[c] = "run"
  BY DEF Block
<1>1. ASSUME NEW u \in Tasks
      PROVE  "handle" \in refs'[u] <=> owner'[u] # {} \/ \E d \in Threads : AwaitedBy(d, u)'
  <2>1. \A d \in Threads \ {c} : AwaitedBy(d, u)' <=> AwaitedBy(d, u)
    BY <1>a, <1>b DEF AwaitedBy
  <2>2. ~AwaitedBy(c, u) /\ (AwaitedBy(c, u)' <=> \E i \in DOMAIN l : l[i] = u)
    BY <1>a, <1>b DEF AwaitedBy
  <2>3. "handle" \in refs[u] <=> owner[u] # {} \/ \E d \in Threads : AwaitedBy(d, u)
    BY DEF Arcs, ArcsHandle
  <2>4. CASE \E i \in DOMAIN l : l[i] = u
    <3>1. owner[u] # {}
      BY <2>4
    <3>2. QED
      BY <2>2, <2>3, <2>4, <3>1, <1>b
  <2>5. CASE ~\E i \in DOMAIN l : l[i] = u
    <3>1. owner'[u] = owner[u]
      BY <2>5, <1>b
    <3>2. QED
      BY <2>1, <2>2, <2>3, <2>5, <3>1, <1>b
  <2>6. QED
    BY <2>4, <2>5
<1>2. QED
  BY <1>1 DEF ArcsHandle

\* The handle's Arc lives exactly as long as the handle is owned or awaited.
LEMMA ArcsHandleStep == TypeOK /\ Control /\ Channel /\ Handles /\ Arcs /\ [Next]_vars => ArcsHandle'
<1> SUFFICES ASSUME TypeOK, Control, Channel, Handles, Arcs, [Next]_vars PROVE ArcsHandle'
  OBVIOUS
<1>a. /\ pc \in [Threads -> Labels] /\ created \in 0..MaxTasks /\ Tasks \subseteq Threads /\ refs \in [Tasks -> SUBSET {"handle", "thread"}]
     /\ owner \in [Tasks -> {{}} \cup {{d} : d \in Threads \cup {Lost}}] /\ todo \in [Threads -> Seq(Tasks)]
  BY DEF TypeOK, Threads
<1>b. \A u \in Tasks : u > created => pc[u] = "none"
  BY DEF Control, ControlTask
<1>c. ArcsHandle
  BY DEF Arcs
<1>1. ASSUME NEW c \in Threads, NEW t \in Tasks, NEW give \in SUBSET Owned(c), Spawn(c, t, give)
      PROVE  ArcsHandle'
  <2>1. /\ todo' = todo /\ \A d \in Threads : pc'[d] \in Blocked <=> pc[d] \in Blocked
    BY <1>1, <1>a, <1>b DEF Blocked, Spawn
  <2>2. \A d \in Threads, u \in Tasks : AwaitedBy(d, u)' <=> AwaitedBy(d, u)
    BY <2>1 DEF AwaitedBy, Blocked
  <2>3. \A u \in Tasks : u # t => refs'[u] = refs[u] /\ (owner'[u] # {} <=> owner[u] # {})
    BY <1>1, <1>a DEF Spawn, Owned
  <2>4. "handle" \in refs'[t] /\ owner'[t] # {}
    BY <1>1, <1>a DEF Spawn
  <2>5. QED
    BY <2>2, <2>3, <2>4, <1>c DEF ArcsHandle
<1>2. ASSUME NEW c \in Threads, NEW h \in Tasks, Await(c, h)
      PROVE  ArcsHandle'
  <2>1. <<h>> \in Seq(Tasks) /\ <<h>> # <<>> /\ Block(c, <<h>>) /\ \A i \in DOMAIN <<h>> : owner[<<h>>[i]] = {c}
    BY <1>2 DEF Await, Owned
  <2>2. QED
    BY <2>1, BlockArcs
<1>3. ASSUME NEW c \in Threads, NEW l \in Lists(c), JoinAll(c, l)
      PROVE  ArcsHandle'
  <2>1. l \in Seq(Tasks) /\ l # <<>> /\ \A i \in DOMAIN l : owner[l[i]] = {c}
    BY <1>3, ListFacts
  <2>2. Block(c, l)
    BY <1>3 DEF JoinAll
  <2>3. QED
    BY <2>1, <2>2, BlockArcs
<1>4. ASSUME NEW c \in Threads, NEW s \in Tasks, NEW l \in Lists(c), Select(c, s, l)
      PROVE  ArcsHandle'
  <2>1. /\ todo' = todo /\ \A d \in Threads : pc'[d] \in Blocked <=> pc[d] \in Blocked
    BY <1>4, <1>a, <1>b DEF Blocked, Select
  <2>2. \A d \in Threads, u \in Tasks : AwaitedBy(d, u)' <=> AwaitedBy(d, u)
    BY <2>1 DEF AwaitedBy, Blocked
  <2>3. \A u \in Tasks : u # s => refs'[u] = refs[u] /\ (owner'[u] # {} <=> owner[u] # {})
    BY <1>4, <1>a DEF Select, Owned
  <2>4. "handle" \in refs'[s] /\ owner'[s] # {}
    BY <1>4, <1>a DEF Select
  <2>5. QED
    BY <2>2, <2>3, <2>4, <1>c DEF ArcsHandle
<1>5. ASSUME NEW c \in Threads, SpuriousWake(c)
      PROVE  ArcsHandle'
  <2>1. UNCHANGED <<owner, todo>> /\ \A d \in Threads : pc'[d] \in Blocked <=> pc[d] \in Blocked
    BY <1>5, <1>a, <1>b DEF Blocked, SpuriousWake
  <2>2. \A u \in Tasks : "handle" \in refs'[u] <=> "handle" \in refs[u]
    BY <1>5, <1>a DEF SpuriousWake
  <2>3. \A d \in Threads, u \in Tasks : AwaitedBy(d, u)' <=> AwaitedBy(d, u)
    BY <2>1 DEF AwaitedBy, Blocked
  <2>4. QED
    BY <2>1, <2>2, <2>3, <1>c DEF ArcsHandle
<1>6. ASSUME NEW c \in Threads, AwaitReturn(c)
      PROVE  ArcsHandle'
  <2>0. PICK g \in Tasks : g = Head(todo[c])
    BY <1>6, AwaitFacts DEF AwaitReturn, Blocked
  <2>1. /\ g \in Tasks /\ g = todo[c][1] /\ 1 \in DOMAIN todo[c] /\ Tail(todo[c]) \in Seq(Tasks)
        /\ \A i \in DOMAIN Tail(todo[c]) : i \in Nat /\ i > 0 /\ i + 1 \in DOMAIN todo[c] /\ Tail(todo[c])[i] = todo[c][i + 1]
        /\ \A i \in DOMAIN todo[c] : i # 1 => i - 1 \in DOMAIN Tail(todo[c]) /\ Tail(todo[c])[i - 1] = todo[c][i]
    BY <1>6, <1>a, <2>0, AwaitFacts DEF AwaitReturn, Blocked
  <2>2. /\ todo' = [todo EXCEPT ![c] = Tail(todo[c])] /\ owner' = owner
        /\ refs' = [refs EXCEPT ![g] = refs[g] \ {"handle"}]
        /\ pc' = [pc EXCEPT ![c] = IF Tail(todo[c]) = <<>> THEN "run" ELSE "lock"] /\ pc[c] = "lock"
    BY <1>6, <2>0 DEF AwaitReturn
  <2>3. \A d \in Threads \ {c}, u \in Tasks : AwaitedBy(d, u)' <=> AwaitedBy(d, u)
    BY <2>2, <1>a DEF AwaitedBy
  <2>4. \A d \in Threads : ~AwaitedBy(d, g)'
    <3> SUFFICES ASSUME NEW d \in Threads, AwaitedBy(d, g)' PROVE FALSE
      OBVIOUS
    <3>1. CASE d = c
      <4>1. PICK i \in DOMAIN Tail(todo[c]) : Tail(todo[c])[i] = g
        BY <3>1, <2>2, <1>a DEF AwaitedBy
      <4>2. i + 1 \in DOMAIN todo[c] /\ todo[c][i + 1] = todo[c][1] /\ i + 1 # 1
        BY <4>1, <2>1
      <4>3. QED
        BY <4>2, <2>1 DEF Handles
    <3>2. CASE d # c
      <4>1. PICK i \in DOMAIN todo[d] : todo[d][i] = todo[c][1]
        BY <3>2, <2>1, <2>2, <1>a DEF AwaitedBy
      <4>2. QED
        BY <4>1, <2>1, <3>2 DEF Handles
    <3>3. QED
      BY <3>1, <3>2
  <2>5. owner'[g] = {} /\ "handle" \notin refs'[g]
    <3>1. owner[todo[c][1]] = {}
      BY <2>1 DEF Handles
    <3>2. QED
      BY <3>1, <2>1, <2>2, <1>a
  <2>6. ASSUME NEW u \in Tasks, u # g
        PROVE  AwaitedBy(c, u)' <=> AwaitedBy(c, u)
    <3>1. ASSUME AwaitedBy(c, u)
          PROVE  AwaitedBy(c, u)'
      <4>1. PICK i \in DOMAIN todo[c] : todo[c][i] = u
        BY <3>1 DEF AwaitedBy
      <4>2. i - 1 \in DOMAIN Tail(todo[c]) /\ Tail(todo[c])[i - 1] = u
        BY <4>1, <2>1, <2>6
      <4>3. Tail(todo[c]) # <<>>
        BY <4>2
      <4>4. QED
        BY <4>2, <4>3, <2>2, <1>a DEF AwaitedBy
    <3>2. ASSUME AwaitedBy(c, u)'
          PROVE  AwaitedBy(c, u)
      <4>1. PICK i \in DOMAIN Tail(todo[c]) : Tail(todo[c])[i] = u
        BY <3>2, <2>2, <1>a DEF AwaitedBy
      <4>2. QED
        BY <4>1, <2>1, <2>2 DEF AwaitedBy
    <3>3. QED
      BY <3>1, <3>2
  <2>7. ASSUME NEW u \in Tasks, u # g
        PROVE  "handle" \in refs'[u] <=> owner'[u] # {} \/ \E d \in Threads : AwaitedBy(d, u)'
    <3>1. \A d \in Threads : AwaitedBy(d, u)' <=> AwaitedBy(d, u)
      BY <2>3, <2>6, <2>7
    <3>2. QED
      BY <2>2, <2>7, <3>1, <1>a, <1>c DEF ArcsHandle
  <2>8. QED
    BY <2>4, <2>5, <2>7 DEF ArcsHandle
<1>7. ASSUME NEW c \in Threads, AwaitPark(c)
      PROVE  ArcsHandle'
  <2>1. UNCHANGED <<owner, todo>> /\ \A d \in Threads : pc'[d] \in Blocked <=> pc[d] \in Blocked
    BY <1>7, <1>a, <1>b DEF Blocked, AwaitPark
  <2>2. \A u \in Tasks : "handle" \in refs'[u] <=> "handle" \in refs[u]
    BY <1>7, <1>a DEF AwaitPark
  <2>3. \A d \in Threads, u \in Tasks : AwaitedBy(d, u)' <=> AwaitedBy(d, u)
    BY <2>1 DEF AwaitedBy, Blocked
  <2>4. QED
    BY <2>1, <2>2, <2>3, <1>c DEF ArcsHandle
<1>8. ASSUME NEW t \in Tasks, ThunkReturn(t)
      PROVE  ArcsHandle'
  <2>1. /\ UNCHANGED todo /\ \A u \in Tasks : owner'[u] = {} <=> owner[u] = {}
        /\ \A d \in Threads : pc'[d] \in Blocked <=> pc[d] \in Blocked
    BY <1>8, <1>a, <1>b, LosingFacts DEF Blocked, ThunkReturn
  <2>2. \A u \in Tasks : "handle" \in refs'[u] <=> "handle" \in refs[u]
    BY <1>8, <1>a DEF ThunkReturn
  <2>3. \A d \in Threads, u \in Tasks : AwaitedBy(d, u)' <=> AwaitedBy(d, u)
    BY <2>1 DEF AwaitedBy, Blocked
  <2>4. QED
    BY <2>1, <2>2, <2>3, <1>c DEF ArcsHandle
<1>9. ASSUME NEW t \in Tasks, WorkerDrop(t)
      PROVE  ArcsHandle'
  <2>1. UNCHANGED <<owner, todo>> /\ \A d \in Threads : pc'[d] \in Blocked <=> pc[d] \in Blocked
    BY <1>9, <1>a, <1>b DEF Blocked, WorkerDrop
  <2>2. \A u \in Tasks : "handle" \in refs'[u] <=> "handle" \in refs[u]
    BY <1>9, <1>a DEF WorkerDrop
  <2>3. \A d \in Threads, u \in Tasks : AwaitedBy(d, u)' <=> AwaitedBy(d, u)
    BY <2>1 DEF AwaitedBy, Blocked
  <2>4. QED
    BY <2>1, <2>2, <2>3, <1>c DEF ArcsHandle
<1>10. ASSUME NEW t \in Tasks, PublishSend(t)
      PROVE  ArcsHandle'
  <2>1. UNCHANGED <<owner, todo, pc, refs>>
    BY <1>10 DEF PublishSend
  <2>2. QED
    BY <2>1, <1>c DEF ArcsHandle, AwaitedBy
<1>11. ASSUME NEW t \in Tasks, PublishNotify(t)
      PROVE  ArcsHandle'
  <2>1. UNCHANGED <<owner, todo>> /\ \A d \in Threads : pc'[d] \in Blocked <=> pc[d] \in Blocked
    BY <1>11, <1>a, <1>b DEF Blocked, PublishNotify
  <2>2. \A u \in Tasks : "handle" \in refs'[u] <=> "handle" \in refs[u]
    BY <1>11, <1>a DEF PublishNotify
  <2>3. \A d \in Threads, u \in Tasks : AwaitedBy(d, u)' <=> AwaitedBy(d, u)
    BY <2>1 DEF AwaitedBy, Blocked
  <2>4. QED
    BY <2>1, <2>2, <2>3, <1>c DEF ArcsHandle
<1>12. ASSUME NEW s \in Tasks, ScanDone(s)
      PROVE  ArcsHandle'
  <2>1. UNCHANGED <<owner, todo>> /\ \A d \in Threads : pc'[d] \in Blocked <=> pc[d] \in Blocked
    BY <1>12, <1>a, <1>b DEF Blocked, ScanDone
  <2>2. \A u \in Tasks : "handle" \in refs'[u] <=> "handle" \in refs[u]
    BY <1>12, <1>a DEF ScanDone
  <2>3. \A d \in Threads, u \in Tasks : AwaitedBy(d, u)' <=> AwaitedBy(d, u)
    BY <2>1 DEF AwaitedBy, Blocked
  <2>4. QED
    BY <2>1, <2>2, <2>3, <1>c DEF ArcsHandle
<1>13. ASSUME NEW s \in Tasks, ScanSubscribe(s)
      PROVE  ArcsHandle'
  <2>1. UNCHANGED <<owner, todo>> /\ \A d \in Threads : pc'[d] \in Blocked <=> pc[d] \in Blocked
    BY <1>13, <1>a, <1>b DEF Blocked, ScanSubscribe
  <2>2. \A u \in Tasks : "handle" \in refs'[u] <=> "handle" \in refs[u]
    BY <1>13, <1>a DEF ScanSubscribe
  <2>3. \A d \in Threads, u \in Tasks : AwaitedBy(d, u)' <=> AwaitedBy(d, u)
    BY <2>1 DEF AwaitedBy, Blocked
  <2>4. QED
    BY <2>1, <2>2, <2>3, <1>c DEF ArcsHandle
<1>14. ASSUME NEW s \in Tasks, DispatcherRecv(s)
      PROVE  ArcsHandle'
  <2>1. UNCHANGED <<owner, todo>> /\ \A d \in Threads : pc'[d] \in Blocked <=> pc[d] \in Blocked
    BY <1>14, <1>a, <1>b DEF Blocked, DispatcherRecv
  <2>2. \A u \in Tasks : "handle" \in refs'[u] <=> "handle" \in refs[u]
    BY <1>14, <1>a DEF DispatcherRecv
  <2>3. \A d \in Threads, u \in Tasks : AwaitedBy(d, u)' <=> AwaitedBy(d, u)
    BY <2>1 DEF AwaitedBy, Blocked
  <2>4. QED
    BY <2>1, <2>2, <2>3, <1>c DEF ArcsHandle
<1>15. ASSUME NEW s \in Tasks, DispatcherPublish(s)
      PROVE  ArcsHandle'
  <2>1. UNCHANGED <<owner, todo>> /\ \A d \in Threads : pc'[d] \in Blocked <=> pc[d] \in Blocked
    BY <1>15, <1>a, <1>b DEF Blocked, DispatcherPublish
  <2>2. \A u \in Tasks : "handle" \in refs'[u] <=> "handle" \in refs[u]
    BY <1>15, <1>a DEF DispatcherPublish
  <2>3. \A d \in Threads, u \in Tasks : AwaitedBy(d, u)' <=> AwaitedBy(d, u)
    BY <2>1 DEF AwaitedBy, Blocked
  <2>4. QED
    BY <2>1, <2>2, <2>3, <1>c DEF ArcsHandle
<1>16. ASSUME NEW s \in Tasks, DispatcherDrop(s)
      PROVE  ArcsHandle'
  <2>1. UNCHANGED <<owner, todo>> /\ \A d \in Threads : pc'[d] \in Blocked <=> pc[d] \in Blocked
    BY <1>16, <1>a, <1>b DEF Blocked, DispatcherDrop
  <2>2. \A u \in Tasks : "handle" \in refs'[u] <=> "handle" \in refs[u]
    BY <1>16, <1>a DEF DispatcherDrop
  <2>3. \A d \in Threads, u \in Tasks : AwaitedBy(d, u)' <=> AwaitedBy(d, u)
    BY <2>1 DEF AwaitedBy, Blocked
  <2>4. QED
    BY <2>1, <2>2, <2>3, <1>c DEF ArcsHandle
<1>17. ASSUME NEW w \in Workers, WorkerRecv(w)
      PROVE  ArcsHandle'
  <2>1. UNCHANGED <<owner, todo>> /\ \A d \in Threads : pc'[d] \in Blocked <=> pc[d] \in Blocked
    BY <1>17, <1>a, <1>b, QueueFacts DEF Blocked, Channel, WorkerRecv
  <2>2. \A u \in Tasks : "handle" \in refs'[u] <=> "handle" \in refs[u]
    BY <1>17, <1>a DEF WorkerRecv
  <2>3. \A d \in Threads, u \in Tasks : AwaitedBy(d, u)' <=> AwaitedBy(d, u)
    BY <2>1 DEF AwaitedBy, Blocked
  <2>4. QED
    BY <2>1, <2>2, <2>3, <1>c DEF ArcsHandle
<1>18. ASSUME Exit
      PROVE  ArcsHandle'
  <2>1. UNCHANGED <<owner, todo>> /\ \A d \in Threads : pc'[d] \in Blocked <=> pc[d] \in Blocked
    BY <1>18, <1>a, <1>b DEF Main, Threads, Blocked, Exit
  <2>2. \A u \in Tasks : "handle" \in refs'[u] <=> "handle" \in refs[u]
    BY <1>18, <1>a DEF Exit
  <2>3. \A d \in Threads, u \in Tasks : AwaitedBy(d, u)' <=> AwaitedBy(d, u)
    BY <2>1 DEF AwaitedBy, Blocked
  <2>4. QED
    BY <2>1, <2>2, <2>3, <1>c DEF ArcsHandle
<1>19. ASSUME UNCHANGED <<owner, todo, pc, refs>>
      PROVE  ArcsHandle'
  BY <1>19 DEF Arcs, ArcsHandle, AwaitedBy
<1>20. ASSUME NEW c \in Threads, NEW h \in Tasks, Forget(c, h)
      PROVE  ArcsHandle'
  <2>1. UNCHANGED <<todo, pc, refs>> /\ \A u \in Tasks : owner'[u] = {} <=> owner[u] = {}
    BY <1>20, LosingFacts DEF Forget
  <2>2. \A d \in Threads, u \in Tasks : AwaitedBy(d, u)' <=> AwaitedBy(d, u)
    BY <2>1 DEF AwaitedBy
  <2>3. QED
    BY <2>1, <2>2, <1>c DEF ArcsHandle
<1> QED
  <2>1. ASSUME NEW c \in Threads, Code(c)
        PROVE  ArcsHandle'
    BY <2>1, <1>1, <1>2, <1>3, <1>4, <1>5, <1>6, <1>7, <1>8, <1>9, <1>10, <1>11, <1>12, <1>13, <1>14, <1>15, <1>16, <1>17, <1>18, <1>19, <1>20 DEF Code
  <2>2. ASSUME NEW c \in Threads, AwaitStep(c) \/ SpuriousWake(c)
        PROVE  ArcsHandle'
    BY <2>2, <1>1, <1>2, <1>3, <1>4, <1>5, <1>6, <1>7, <1>8, <1>9, <1>10, <1>11, <1>12, <1>13, <1>14, <1>15, <1>16, <1>17, <1>18, <1>19 DEF AwaitStep
  <2>3. ASSUME NEW t \in Tasks, WorkerStep(t) \/ PublishStep(t)
        PROVE  ArcsHandle'
    BY <2>3, <1>1, <1>2, <1>3, <1>4, <1>5, <1>6, <1>7, <1>8, <1>9, <1>10, <1>11, <1>12, <1>13, <1>14, <1>15, <1>16, <1>17, <1>18, <1>19 DEF WorkerStep, PublishStep
  <2>4. ASSUME NEW s \in Tasks, DispatchStep(s)
        PROVE  ArcsHandle'
    BY <2>4, <1>1, <1>2, <1>3, <1>4, <1>5, <1>6, <1>7, <1>8, <1>9, <1>10, <1>11, <1>12, <1>13, <1>14, <1>15, <1>16, <1>17, <1>18, <1>19 DEF DispatchStep
  <2>5. CASE PoolStep \/ Exit \/ Exited \/ UNCHANGED vars
    BY <2>5, <1>1, <1>2, <1>3, <1>4, <1>5, <1>6, <1>7, <1>8, <1>9, <1>10, <1>11, <1>12, <1>13, <1>14, <1>15, <1>16, <1>17, <1>18, <1>19 DEF PoolStep, Exited, vars
  <2>6. QED
    BY <2>1, <2>2, <2>3, <2>4, <2>5 DEF Next, ThreadStep, Threads

\* Only creating a task and the end of a publisher change who is publishing,
\* which publishers' Arcs exist and what the dispatchers hold.
Quiet == /\ UNCHANGED <<clones, srcs>>
         /\ \A t \in Tasks : Publishing(t)' <=> Publishing(t)
         /\ \A t \in Tasks : "thread" \in refs'[t] <=> "thread" \in refs[t]

Publishers == \/ \E c \in Threads, t \in Tasks : \E give \in SUBSET Owned(c) : Spawn(c, t, give)
              \/ \E c \in Threads, s \in Tasks : \E l \in Lists(c) : Select(c, s, l)
              \/ \E t \in Tasks : WorkerDrop(t) \/ DispatcherDrop(t)

LEMMA QuietStep == TypeOK /\ Control /\ Channel /\ [Next]_vars => Quiet \/ Publishers
<1> SUFFICES ASSUME TypeOK, Control, Channel, [Next]_vars PROVE Quiet \/ Publishers
  OBVIOUS
<1>a. /\ pc \in [Threads -> Labels] /\ Tasks \subseteq Threads
      /\ refs \in [Tasks -> SUBSET {"handle", "thread"}]
  BY DEF TypeOK, Threads
<1>1. ASSUME NEW c \in Threads, NEW h \in Tasks, Await(c, h)
      PROVE  Quiet
  <2>1. \A u \in Tasks : Publishing(u)' <=> Publishing(u)
    BY <1>1, <1>a DEF Publishing, Await, Block
  <2>2. UNCHANGED <<clones, srcs>> /\ \A u \in Tasks : "thread" \in refs'[u] <=> "thread" \in refs[u]
    BY <1>1, <1>a DEF Await, Block
  <2>3. QED
    BY <2>1, <2>2 DEF Quiet
<1>2. ASSUME NEW c \in Threads, NEW l \in Lists(c), JoinAll(c, l)
      PROVE  Quiet
  <2>1. \A u \in Tasks : Publishing(u)' <=> Publishing(u)
    BY <1>2, <1>a DEF Publishing, JoinAll, Block
  <2>2. UNCHANGED <<clones, srcs>> /\ \A u \in Tasks : "thread" \in refs'[u] <=> "thread" \in refs[u]
    BY <1>2, <1>a DEF JoinAll, Block
  <2>3. QED
    BY <2>1, <2>2 DEF Quiet
<1>3. ASSUME NEW c \in Threads, SpuriousWake(c)
      PROVE  Quiet
  <2>1. \A u \in Tasks : Publishing(u)' <=> Publishing(u)
    BY <1>3, <1>a DEF Publishing, SpuriousWake
  <2>2. UNCHANGED <<clones, srcs>> /\ \A u \in Tasks : "thread" \in refs'[u] <=> "thread" \in refs[u]
    BY <1>3, <1>a DEF SpuriousWake
  <2>3. QED
    BY <2>1, <2>2 DEF Quiet
<1>4. ASSUME NEW c \in Threads, AwaitReturn(c)
      PROVE  Quiet
  <2>1. \A u \in Tasks : Publishing(u)' <=> Publishing(u)
    BY <1>4, <1>a, AwaitFacts DEF Publishing, AwaitReturn, Blocked
  <2>2. UNCHANGED <<clones, srcs>> /\ \A u \in Tasks : "thread" \in refs'[u] <=> "thread" \in refs[u]
    BY <1>4, <1>a, AwaitFacts DEF AwaitReturn, Blocked
  <2>3. QED
    BY <2>1, <2>2 DEF Quiet
<1>5. ASSUME NEW c \in Threads, AwaitPark(c)
      PROVE  Quiet
  <2>1. \A u \in Tasks : Publishing(u)' <=> Publishing(u)
    BY <1>5, <1>a DEF Publishing, AwaitPark
  <2>2. UNCHANGED <<clones, srcs>> /\ \A u \in Tasks : "thread" \in refs'[u] <=> "thread" \in refs[u]
    BY <1>5, <1>a DEF AwaitPark
  <2>3. QED
    BY <2>1, <2>2 DEF Quiet
<1>6. ASSUME NEW t \in Tasks, ThunkReturn(t)
      PROVE  Quiet
  <2>1. \A u \in Tasks : Publishing(u)' <=> Publishing(u)
    BY <1>6, <1>a DEF Publishing, ThunkReturn
  <2>2. UNCHANGED <<clones, srcs>> /\ \A u \in Tasks : "thread" \in refs'[u] <=> "thread" \in refs[u]
    BY <1>6, <1>a DEF ThunkReturn
  <2>3. QED
    BY <2>1, <2>2 DEF Quiet
<1>7. ASSUME NEW t \in Tasks, PublishSend(t)
      PROVE  Quiet
  <2>1. \A u \in Tasks : Publishing(u)' <=> Publishing(u)
    BY <1>7, <1>a DEF Publishing, PublishSend
  <2>2. UNCHANGED <<clones, srcs>> /\ \A u \in Tasks : "thread" \in refs'[u] <=> "thread" \in refs[u]
    BY <1>7, <1>a DEF PublishSend
  <2>3. QED
    BY <2>1, <2>2 DEF Quiet
<1>8. ASSUME NEW t \in Tasks, PublishNotify(t)
      PROVE  Quiet
  <2>1. \A u \in Tasks : Publishing(u)' <=> Publishing(u)
    BY <1>8, <1>a DEF Publishing, PublishNotify
  <2>2. UNCHANGED <<clones, srcs>> /\ \A u \in Tasks : "thread" \in refs'[u] <=> "thread" \in refs[u]
    BY <1>8, <1>a DEF PublishNotify
  <2>3. QED
    BY <2>1, <2>2 DEF Quiet
<1>9. ASSUME NEW s \in Tasks, ScanDone(s)
      PROVE  Quiet
  <2>1. \A u \in Tasks : Publishing(u)' <=> Publishing(u)
    BY <1>9, <1>a DEF Publishing, ScanDone
  <2>2. UNCHANGED <<clones, srcs>> /\ \A u \in Tasks : "thread" \in refs'[u] <=> "thread" \in refs[u]
    BY <1>9, <1>a DEF ScanDone
  <2>3. QED
    BY <2>1, <2>2 DEF Quiet
<1>10. ASSUME NEW s \in Tasks, ScanSubscribe(s)
      PROVE  Quiet
  <2>1. \A u \in Tasks : Publishing(u)' <=> Publishing(u)
    BY <1>10, <1>a DEF Publishing, ScanSubscribe
  <2>2. UNCHANGED <<clones, srcs>> /\ \A u \in Tasks : "thread" \in refs'[u] <=> "thread" \in refs[u]
    BY <1>10, <1>a DEF ScanSubscribe
  <2>3. QED
    BY <2>1, <2>2 DEF Quiet
<1>11. ASSUME NEW s \in Tasks, DispatcherRecv(s)
      PROVE  Quiet
  <2>1. \A u \in Tasks : Publishing(u)' <=> Publishing(u)
    BY <1>11, <1>a DEF Publishing, DispatcherRecv
  <2>2. UNCHANGED <<clones, srcs>> /\ \A u \in Tasks : "thread" \in refs'[u] <=> "thread" \in refs[u]
    BY <1>11, <1>a DEF DispatcherRecv
  <2>3. QED
    BY <2>1, <2>2 DEF Quiet
<1>12. ASSUME NEW s \in Tasks, DispatcherPublish(s)
      PROVE  Quiet
  <2>1. \A u \in Tasks : Publishing(u)' <=> Publishing(u)
    BY <1>12, <1>a DEF Publishing, DispatcherPublish
  <2>2. UNCHANGED <<clones, srcs>> /\ \A u \in Tasks : "thread" \in refs'[u] <=> "thread" \in refs[u]
    BY <1>12, <1>a DEF DispatcherPublish
  <2>3. QED
    BY <2>1, <2>2 DEF Quiet
<1>13. ASSUME NEW w \in Workers, WorkerRecv(w)
      PROVE  Quiet
  <2>1. \A u \in Tasks : Publishing(u)' <=> Publishing(u)
    BY <1>13, <1>a, QueueFacts DEF Publishing, WorkerRecv, Channel
  <2>2. UNCHANGED <<clones, srcs>> /\ \A u \in Tasks : "thread" \in refs'[u] <=> "thread" \in refs[u]
    BY <1>13, <1>a DEF WorkerRecv
  <2>3. QED
    BY <2>1, <2>2 DEF Quiet
<1>14. ASSUME Exit
      PROVE  Quiet
  <2>1. \A u \in Tasks : Publishing(u)' <=> Publishing(u)
    BY <1>14, <1>a DEF Publishing, Exit, Main, Tasks
  <2>2. UNCHANGED <<clones, srcs>> /\ \A u \in Tasks : "thread" \in refs'[u] <=> "thread" \in refs[u]
    BY <1>14, <1>a DEF Exit
  <2>3. QED
    BY <2>1, <2>2 DEF Quiet
<1>15. CASE UNCHANGED vars
  BY <1>15 DEF Quiet, Publishing, vars
<1>16. ASSUME NEW c \in Threads, NEW h \in Tasks, Forget(c, h)
      PROVE  Quiet
  BY <1>16 DEF Quiet, Publishing, Forget
<1> QED
  <2>1. ASSUME NEW c \in Threads, Code(c) \/ SpuriousWake(c) \/ AwaitStep(c)
        PROVE  Quiet \/ Publishers
    BY <2>1, <1>1, <1>2, <1>3, <1>4, <1>5, <1>16 DEF Code, AwaitStep, Publishers
  <2>2. ASSUME NEW t \in Tasks, WorkerStep(t) \/ PublishStep(t) \/ DispatchStep(t)
        PROVE  Quiet \/ Publishers
    BY <2>2, <1>6, <1>7, <1>8, <1>9, <1>10, <1>11, <1>12
    DEF WorkerStep, PublishStep, DispatchStep, Publishers
  <2>3. CASE PoolStep \/ Exit \/ Exited \/ UNCHANGED vars
    BY <2>3, <1>13, <1>14, <1>15 DEF PoolStep, Exited
  <2>4. QED
    BY <2>1, <2>2, <2>3 DEF Next, ThreadStep, Threads

\* The publisher's Arc lives from the creation of the task to the end of the
\* worker's or the dispatcher's body.
LEMMA ArcsThreadStep == TypeOK /\ Control /\ Channel /\ Arcs /\ [Next]_vars => ArcsThread'
<1> SUFFICES ASSUME TypeOK, Control, Channel, Arcs, [Next]_vars PROVE ArcsThread'
  OBVIOUS
<1>a. /\ pc \in [Threads -> Labels] /\ created \in 0..MaxTasks /\ Tasks \subseteq Threads
      /\ refs \in [Tasks -> SUBSET {"handle", "thread"}]
      /\ clones \in [Tasks -> SUBSET Tasks] /\ srcs \in [Tasks -> Seq(Tasks)]
  BY DEF TypeOK, Threads
<1>b. ArcsThread
  BY DEF Arcs
<1>1. ASSUME NEW c \in Threads, NEW t \in Tasks, NEW give \in SUBSET Owned(c), Spawn(c, t, give)
      PROVE  ArcsThread'
  <2>1. \A u \in Tasks \ {t} : (Publishing(u)' <=> Publishing(u)) /\ refs'[u] = refs[u]
    BY <1>1, <1>a DEF Publishing, Spawn
  <2>2. "thread" \in refs'[t] <=> Publishing(t)'
    BY <1>1, <1>a DEF Publishing, Spawn
  <2>3. QED
    BY <2>1, <2>2, <1>b DEF ArcsThread
<1>2. ASSUME NEW c \in Threads, NEW s \in Tasks, NEW l \in Lists(c), Select(c, s, l)
      PROVE  ArcsThread'
  <2>1. \A u \in Tasks \ {s} : (Publishing(u)' <=> Publishing(u)) /\ refs'[u] = refs[u]
    BY <1>2, <1>a DEF Publishing, Select
  <2>2. "thread" \in refs'[s] <=> Publishing(s)'
    BY <1>2, <1>a DEF Publishing, Select
  <2>3. QED
    BY <2>1, <2>2, <1>b DEF ArcsThread
<1>3. ASSUME NEW t \in Tasks, WorkerDrop(t)
      PROVE  ArcsThread'
  <2>1. \A u \in Tasks \ {t} : (Publishing(u)' <=> Publishing(u)) /\ refs'[u] = refs[u]
    BY <1>3, <1>a DEF Publishing, WorkerDrop
  <2>2. "thread" \in refs'[t] <=> Publishing(t)'
    BY <1>3, <1>a DEF Publishing, WorkerDrop
  <2>3. QED
    BY <2>1, <2>2, <1>b DEF ArcsThread
<1>4. ASSUME NEW s \in Tasks, DispatcherDrop(s)
      PROVE  ArcsThread'
  <2>1. \A u \in Tasks \ {s} : (Publishing(u)' <=> Publishing(u)) /\ refs'[u] = refs[u]
    BY <1>4, <1>a DEF Publishing, DispatcherDrop
  <2>2. "thread" \in refs'[s] <=> Publishing(s)'
    BY <1>4, <1>a DEF Publishing, DispatcherDrop
  <2>3. QED
    BY <2>1, <2>2, <1>b DEF ArcsThread
<1>5. ASSUME Quiet
      PROVE  ArcsThread'
  BY <1>5, <1>b DEF ArcsThread, Quiet
<1>6. QED
  BY QuietStep, <1>1, <1>2, <1>3, <1>4, <1>5 DEF Publishers

\* A dispatcher has one Arc of each of its sources until it ends.
LEMMA ArcsClonesStep == TypeOK /\ Control /\ Channel /\ Arcs /\ [Next]_vars => ArcsClones'
<1> SUFFICES ASSUME TypeOK, Control, Channel, Arcs, [Next]_vars PROVE ArcsClones'
  OBVIOUS
<1>a. /\ pc \in [Threads -> Labels] /\ created \in 0..MaxTasks /\ Tasks \subseteq Threads
      /\ refs \in [Tasks -> SUBSET {"handle", "thread"}]
      /\ clones \in [Tasks -> SUBSET Tasks] /\ srcs \in [Tasks -> Seq(Tasks)]
  BY DEF TypeOK, Threads
<1>b. ArcsClones
  BY DEF Arcs
<1>1. ASSUME NEW c \in Threads, NEW t \in Tasks, NEW give \in SUBSET Owned(c), Spawn(c, t, give)
      PROVE  ArcsClones'
  <2>1. UNCHANGED <<clones, srcs>> /\ srcs[t] = <<>>
    BY <1>1, <1>a, FreshTask DEF Spawn, IsSelect, Control, ControlTask
  <2>2. \A u \in Tasks \ {t} : Publishing(u)' <=> Publishing(u)
    BY <1>1, <1>a DEF Publishing, Spawn
  <2>3. \A u, v \in Tasks : SelectedBy(v, u)' <=> SelectedBy(v, u)
    BY <2>1, <2>2 DEF SelectedBy
  <2>4. QED
    BY <2>1, <2>3, <1>b DEF ArcsClones
<1>2. ASSUME NEW c \in Threads, NEW s \in Tasks, NEW l \in Lists(c), Select(c, s, l)
      PROVE  ArcsClones'
  <2>1. /\ srcs' = [srcs EXCEPT ![s] = l]
        /\ clones' = [u \in Tasks |-> IF \E i \in DOMAIN l : l[i] = u THEN clones[u] \cup {s} ELSE clones[u]]
        /\ pc' = [pc EXCEPT ![s] = "scan"]
    BY <1>2 DEF Select
  <2>2. Publishing(s)' /\ ~Publishing(s) /\ \A u \in Tasks \ {s} : Publishing(u)' <=> Publishing(u)
    BY <1>2, <2>1, <1>a, FreshTask DEF Publishing, Select
  <2>3. \A u, v \in Tasks : v # s => (v \in clones'[u] <=> SelectedBy(v, u)')
    BY <2>1, <2>2, <1>a, <1>b DEF ArcsClones, SelectedBy
  <2>4. \A u \in Tasks : s \in clones'[u] <=> SelectedBy(s, u)'
    BY <2>1, <2>2, <1>a, <1>b DEF ArcsClones, SelectedBy
  <2>5. QED
    BY <2>3, <2>4 DEF ArcsClones
<1>3. ASSUME NEW t \in Tasks, WorkerDrop(t)
      PROVE  ArcsClones'
  <2>1. UNCHANGED <<clones, srcs>> /\ srcs[t] = <<>>
    BY <1>3, <1>a DEF WorkerDrop, IsSelect, Control, ControlTask
  <2>2. \A u \in Tasks \ {t} : Publishing(u)' <=> Publishing(u)
    BY <1>3, <1>a DEF Publishing, WorkerDrop
  <2>3. \A u, v \in Tasks : SelectedBy(v, u)' <=> SelectedBy(v, u)
    BY <2>1, <2>2 DEF SelectedBy
  <2>4. QED
    BY <2>1, <2>3, <1>b DEF ArcsClones
<1>4. ASSUME NEW s \in Tasks, DispatcherDrop(s)
      PROVE  ArcsClones'
  <2>1. srcs' = srcs /\ \A u \in Tasks : clones'[u] = clones[u] \ {s}
    BY <1>4 DEF DispatcherDrop
  <2>2. ~Publishing(s)' /\ \A u \in Tasks \ {s} : Publishing(u)' <=> Publishing(u)
    BY <1>4, <1>a DEF Publishing, DispatcherDrop
  <2>3. QED
    BY <2>1, <2>2, <1>b DEF ArcsClones, SelectedBy
<1>5. ASSUME Quiet
      PROVE  ArcsClones'
  BY <1>5, <1>b DEF ArcsClones, SelectedBy, Quiet
<1>6. QED
  BY QuietStep, <1>1, <1>2, <1>3, <1>4, <1>5 DEF Publishers

-----------------------------------------------------------------------------
\* The program starts in a state that satisfies every part.
LEMMA InitIInv == Init => IInv
<1> SUFFICES ASSUME Init PROVE IInv
  OBVIOUS
<1>1. TypeOK
  <2>1. <<>> \in Seq(Tasks) /\ 0 \in 0..MaxTasks
    BY MaxTasksAssumption
  <2>2. pc \in [Threads -> Labels]
    BY DEF Init, Labels
  <2>3. QED
    BY <2>1, <2>2 DEF Init, TypeOK, None
<1>2. Control
  BY DEF Init, Control, ControlMain, ControlTodo, ControlTask, Blocked, IsSelect, Done, Threads, Main, Tasks
<1>3. Channel /\ Handles /\ Subscribed /\ Order
  BY DEF Init, Channel, Handles, Subscribed, Order, Threads, Main, Tasks
<1>4. Arcs
  <2>1. \A t \in Tasks : ~Publishing(t)
    BY DEF Init, Publishing, Threads, Main, Tasks
  <2>2. \A t \in Tasks : \A c \in Threads : ~AwaitedBy(c, t)
    BY DEF Init, AwaitedBy
  <2>3. QED
    BY <2>1, <2>2 DEF Init, Arcs, ArcsHandle, ArcsThread, ArcsClones, SelectedBy
<1>5. NoLostWakeup
  BY DEF Init, NoLostWakeup
<1>6. QED
  BY <1>1, <1>2, <1>3, <1>4, <1>5 DEF IInv

\* Every step keeps every part.
LEMMA NextIInv == IInv /\ [Next]_vars => IInv'
<1> SUFFICES ASSUME IInv, [Next]_vars PROVE IInv'
  OBVIOUS
<1>a. TypeOK /\ Control /\ Channel /\ Handles /\ Arcs /\ Subscribed /\ Order /\ NoLostWakeup
  BY DEF IInv
<1>1. TypeOK'
  BY <1>a, TypeStep
<1>2. Control'
  BY <1>a, ControlMainStep, ControlTodoStep, ControlTaskStep DEF Control
<1>3. Channel'
  BY <1>a, ChannelStep
<1>4. Handles'
  BY <1>a, HandlesStep
<1>5. Arcs'
  BY <1>a, ArcsHandleStep, ArcsThreadStep, ArcsClonesStep DEF Arcs
<1>6. Subscribed'
  BY <1>a, SubscribedStep
<1>7. Order'
  <2>1. CASE Nesting
    BY <2>1 DEF Order
  <2>2. CASE ~Nesting
    BY <2>2, <1>a, OrderStep
  <2>3. QED
    BY <2>1, <2>2
<1>8. NoLostWakeup'
  BY <1>a, WakeupStep
<1>9. QED
  BY <1>1, <1>2, <1>3, <1>4, <1>5, <1>6, <1>7, <1>8 DEF IInv

\* The inductive invariant of the task runtime: where each thread can be, what
\* the channel holds, where each handle is, which Arcs exist and who subscribes.
THEOREM Invariance == Spec => []IInv
BY InitIInv, NextIInv, PTL DEF Spec

\* The runtime's variables always have their types: in particular no handle
\* ever has two owners.
THEOREM TypeCorrect == Spec => []TypeOK
<1>1. IInv => TypeOK
  BY DEF IInv
<1>2. QED
  BY <1>1, Invariance, PTL

\* A thread parked in tyra_task_await is never left behind by the publisher:
\* for every pool and every interleaving, notify_all is still to come.
THEOREM WakeupsAreKept == Spec => []NoLostWakeup
<1>1. IInv => NoLostWakeup
  BY DEF IInv
<1>2. QED
  BY <1>1, Invariance, PTL

\* A task is in use exactly when it has an Arc besides that of a lost handle.
LEMMA ArcsAreUses ==
  ASSUME IInv, NEW t \in Tasks
  PROVE  /\ InUse(t) => Allocated(t)
         /\ Allocated(t) /\ ~InUse(t) => owner[t] = {Lost} /\ refs[t] = {"handle"} /\ clones[t] = {}
<1>a. TypeOK /\ ArcsHandle /\ ArcsThread /\ ArcsClones
  BY DEF IInv, Arcs
<1>1. /\ "handle" \in refs[t] <=> owner[t] # {} \/ \E c \in Threads : AwaitedBy(c, t)
      /\ "thread" \in refs[t] <=> Publishing(t)
      /\ \A s \in Tasks : s \in clones[t] <=> SelectedBy(s, t)
  BY <1>a DEF ArcsHandle, ArcsThread, ArcsClones
<1>2. refs[t] \subseteq {"handle", "thread"} /\ clones[t] \subseteq Tasks
  BY <1>a DEF TypeOK
<1>3. InUse(t) <=> \/ owner[t] \notin {{}, {Lost}} \/ \E c \in Threads : AwaitedBy(c, t)
                   \/ "thread" \in refs[t] \/ \E s \in Tasks : s \in clones[t]
  BY <1>1 DEF InUse
<1>4. InUse(t) => Allocated(t)
  BY <1>1, <1>3 DEF Allocated
<1>5. ASSUME Allocated(t), ~InUse(t)
      PROVE  owner[t] = {Lost} /\ refs[t] = {"handle"} /\ clones[t] = {}
  <2>1. clones[t] = {} /\ "thread" \notin refs[t]
    BY <1>2, <1>3, <1>5
  <2>2. refs[t] = {"handle"}
    BY <1>2, <1>5, <2>1 DEF Allocated
  <2>3. owner[t] = {Lost}
    BY <1>1, <1>3, <1>5, <2>2
  <2>4. QED
    BY <2>1, <2>2, <2>3
<1>6. QED
  BY <1>4, <1>5

\* The raw pointers spawn, await, join_all and select convert back into Arcs
\* never dangle: whoever can still touch a task finds it allocated.
THEOREM MemorySafe == Spec => []NoUseAfterFree
<1>1. IInv => NoUseAfterFree
  BY ArcsAreUses DEF NoUseAfterFree
<1>2. QED
  BY <1>1, Invariance, PTL

\* All that a job, an await or a dispatcher took of a task is given back: what
\* leaks is one Arc of each task whose handle left its scope un-awaited, in
\* however many selects it was, and of no other task.
THEOREM MemoryReleased == Spec => []NoLeak
<1>1. IInv => NoLeak
  BY ArcsAreUses DEF NoLeak
<1>2. QED
  BY <1>1, Invariance, PTL

\* The expect("task channel disconnected") of a select's dispatcher never
\* fires: the sender of a subscription outlives the wait for a message.
THEOREM DispatcherIsHeard == Spec => []RecvNeverDisconnected
<1>1. IInv => RecvNeverDisconnected
  <2> SUFFICES ASSUME IInv, NEW s \in Tasks, pc[s] = "recv", inbox[s] = None
               PROVE  \E t \in Tasks : s \in waiters[t]
    BY DEF RecvNeverDisconnected
  <2>1. srcs[s] \in Seq(Tasks) /\ srcs[s] # <<>> /\ scan[s] = Len(srcs[s])
    BY DEF IInv, TypeOK, Control, ControlTask, IsSelect
  <2>2. 1 \in 1..scan[s] /\ srcs[s][1] \in Tasks
    BY <2>1
  <2>3. s \in waiters[srcs[s][1]]
    BY <2>2 DEF IInv, Subscribed
  <2>4. QED
    BY <2>2, <2>3
<1>2. QED
  BY <1>1, Invariance, PTL

\* When spawned functions do not spawn, a worker that blocks in an await never
\* waits for a job that is still behind it in the channel, whatever the pool.
THEOREM AwaitsLookBack == Spec => []AwaitedHasStarted
<1>1. IInv => AwaitedHasStarted
  <2> SUFFICES ASSUME IInv, ~Nesting, NEW c \in Tasks, NEW t \in Tasks, AwaitedBy(c, t),
                      NEW i \in DOMAIN queue, queue[i] = t
               PROVE  FALSE
    BY DEF AwaitedHasStarted
  <2>1. PICK j \in DOMAIN todo[c] : todo[c][j] = t
    BY DEF AwaitedBy
  <2>2. pc[t] = "queued" /\ ~IsSelect(t)
    BY DEF IInv, Channel, Control, ControlTask
  <2>3. t < c
    BY <2>1, <2>2 DEF IInv, Order
  <2>4. c < t
    BY DEF IInv, Order, AwaitedBy
  <2>5. QED
    BY <2>3, <2>4 DEF Tasks
<1>2. QED
  BY <1>1, Invariance, PTL

-----------------------------------------------------------------------------
(* The results of tasks: whose value a task resolves with, that the runtime *)
(* implements the write-once futures of TaskFutures, and which of its       *)
(* sources a select reports.                                                *)

\* v is a value that a source of s has.
FromSource(s, v) == \E i \in DOMAIN srcs[s] : state[srcs[s][i]] = v

\* Wherever a value of a source is on its way to a select, in the message of
\* the dispatcher's channel or in its hands, it is a value a source published;
\* and only sources of a dispatcher can send it one.
Genuine ==
  /\ \A t \in Tasks : Done(t) /\ ~IsSelect(t) => state[t] = t
  /\ \A s \in Tasks : Done(s) /\ IsSelect(s) => FromSource(s, state[s])
  /\ \A s \in Tasks : winner[s] # None => FromSource(s, winner[s])
  /\ \A s \in Tasks : inbox[s] # None => FromSource(s, inbox[s])
  /\ \A t, s \in Tasks : s \in waiters[t] => \E i \in DOMAIN srcs[s] : srcs[s][i] = t

\* The result of a handle is delivered together with the end of its Arc.
Delivered == \A t \in Tasks : got[t] # None => t <= created /\ "handle" \notin refs[t]

\* A task is resolved once: no step changes a result.
LEMMA WriteOnce ==
  TypeOK /\ Control /\ [Next]_vars => \A t \in Tasks : Done(t) => state'[t] = state[t]
<1> SUFFICES ASSUME TypeOK, Control, [Next]_vars, NEW t \in Tasks, Done(t)
             PROVE  state'[t] = state[t]
  OBVIOUS
<1>a. state \in [Tasks -> Tasks \cup {None}] /\ pc[t] \in {"send", "drop", "done"}
  BY DEF TypeOK, Control, ControlTask
<1>1. ASSUME NEW u \in Tasks, ThunkReturn(u) \/ DispatcherPublish(u)
      PROVE  state'[t] = state[t]
  BY <1>1, <1>a DEF ThunkReturn, DispatcherPublish
<1>2. ASSUME NEW c \in Threads, Code(c) \/ SpuriousWake(c) \/ AwaitStep(c)
      PROVE  state' = state
  BY <1>2 DEF Code, Spawn, Forget, Await, JoinAll, Block, Select, SpuriousWake, AwaitStep, AwaitReturn, AwaitPark
<1>3. ASSUME NEW u \in Tasks, \/ WorkerDrop(u) \/ PublishStep(u) \/ ScanDone(u) \/ ScanSubscribe(u)
                              \/ DispatcherRecv(u) \/ DispatcherDrop(u)
      PROVE  state' = state
  BY <1>3 DEF WorkerDrop, PublishStep, PublishSend, PublishNotify, ScanDone, ScanSubscribe,
              DispatcherRecv, DispatcherDrop
<1>4. CASE PoolStep \/ Exit \/ UNCHANGED vars
  BY <1>4 DEF PoolStep, WorkerRecv, Exit, vars
<1> QED
  BY <1>1, <1>2, <1>3, <1>4 DEF Next, ThreadStep, WorkerStep, DispatchStep, Exited, Threads

\* The sources of a task are those it was created with.
LEMMA SourcesStay ==
  TypeOK /\ Control /\ [Next]_vars => \A s \in Tasks : pc[s] # "none" => srcs'[s] = srcs[s]
<1> SUFFICES ASSUME TypeOK, Control, [Next]_vars, NEW s \in Tasks, pc[s] # "none"
             PROVE  srcs'[s] = srcs[s]
  OBVIOUS
<1>a. srcs \in [Tasks -> Seq(Tasks)]
  BY DEF TypeOK
<1>1. ASSUME NEW c \in Threads, NEW u \in Tasks, NEW l \in Lists(c), Select(c, u, l)
      PROVE  srcs'[s] = srcs[s]
  BY <1>1, <1>a, FreshTask DEF Select
<1>2. ASSUME NEW c \in Threads, NEW u \in Tasks, NEW give \in SUBSET Owned(c), Spawn(c, u, give)
      PROVE  srcs' = srcs
  BY <1>2 DEF Spawn
<1>3. ASSUME NEW c \in Threads, NEW l, Block(c, l)
      PROVE  srcs' = srcs
  BY <1>3 DEF Block
<1>4. ASSUME NEW c \in Threads, SpuriousWake(c) \/ AwaitStep(c) \/ \E h \in Tasks : Forget(c, h)
      PROVE  srcs' = srcs
  BY <1>4 DEF Forget, SpuriousWake, AwaitStep, AwaitReturn, AwaitPark
<1>5. ASSUME NEW u \in Tasks, WorkerStep(u) \/ PublishStep(u) \/ DispatchStep(u)
      PROVE  srcs' = srcs
  BY <1>5 DEF WorkerStep, ThunkReturn, WorkerDrop, PublishStep, PublishSend, PublishNotify, DispatchStep,
              ScanDone, ScanSubscribe, DispatcherRecv, DispatcherPublish, DispatcherDrop
<1>6. CASE PoolStep \/ Exit \/ UNCHANGED vars
  BY <1>6 DEF PoolStep, WorkerRecv, Exit, vars
<1> QED
  BY <1>1, <1>2, <1>3, <1>4, <1>5, <1>6 DEF Next, Code, Await, JoinAll, ThreadStep, Exited, Threads

\* So a value that a source has, a source goes on having.
LEMMA FromSourceStays ==
  ASSUME TypeOK, Control, [Next]_vars, NEW s \in Tasks, NEW v, v # None, FromSource(s, v)
  PROVE  FromSource(s, v)'
<1>1. PICK i \in DOMAIN srcs[s] : state[srcs[s][i]] = v
  BY DEF FromSource
<1>2. srcs[s] \in Seq(Tasks)
  BY DEF TypeOK
<1>3. IsSelect(s) /\ srcs[s][i] \in Tasks
  BY <1>2 DEF IsSelect
<1>4. srcs'[s] = srcs[s]
  BY <1>3, SourcesStay DEF Control, ControlTask
<1>5. state'[srcs[s][i]] = v
  BY <1>1, <1>3, WriteOnce DEF Done
<1>6. QED
  BY <1>1, <1>4, <1>5 DEF FromSource

\* Every step keeps the results genuine.
LEMMA GenuineStep == TypeOK /\ Control /\ Genuine /\ [Next]_vars => Genuine'
<1> SUFFICES ASSUME TypeOK, Control, Genuine, [Next]_vars PROVE Genuine'
  OBVIOUS
<1>a. /\ state \in [Tasks -> Tasks \cup {None}] /\ winner \in [Tasks -> Tasks \cup {None}]
      /\ inbox \in [Tasks -> Tasks \cup {None}] /\ waiters \in [Tasks -> SUBSET Tasks]
      /\ srcs \in [Tasks -> Seq(Tasks)] /\ pc \in [Threads -> Labels] /\ Tasks \subseteq Threads
  BY DEF TypeOK, Threads
<1>b. \A s \in Tasks : \A v : (v # None /\ FromSource(s, v)) => FromSource(s, v)'
  BY FromSourceStays
<1>c. \A t \in Tasks : Done(t) => state'[t] = state[t] /\ Done(t)'
  BY WriteOnce DEF Done
<1>d. \A s \in Tasks : IsSelect(s) => srcs'[s] = srcs[s] /\ IsSelect(s)'
  BY SourcesStay DEF IsSelect, Control, ControlTask
<1>e. \A s \in Tasks : srcs[s] # <<>> \/ DOMAIN srcs[s] = {}
  BY <1>a
\* What is kept by a step that publishes nothing, and sets no winner or message.
<1>f. ASSUME UNCHANGED <<state, winner, inbox, waiters>>, UNCHANGED srcs
      PROVE  Genuine'
  BY <1>f DEF Genuine, FromSource, Done, IsSelect
<1>1. ASSUME NEW c \in Threads, NEW s \in Tasks, NEW l \in Lists(c), Select(c, s, l)
      PROVE  Genuine'
  <2>1. /\ UNCHANGED <<state, winner, inbox, waiters>> /\ srcs' = [srcs EXCEPT ![s] = l]
        /\ ~Done(s) /\ ~IsSelect(s) /\ l # <<>>
    BY <1>1, FreshTask, ListFacts DEF Select, Control, ControlTask
  <2>2. \A t \in Tasks : Done(t)' /\ ~IsSelect(t)' => state'[t] = t
    BY <2>1, <1>a DEF Genuine, Done, IsSelect
  <2>3. \A t \in Tasks : Done(t)' /\ IsSelect(t)' => FromSource(t, state[t])'
    BY <2>1, <1>a, <1>b DEF Genuine, Done, IsSelect
  <2>4. \A t \in Tasks : winner'[t] # None => FromSource(t, winner[t])'
    BY <2>1, <1>b DEF Genuine
  <2>5. \A t \in Tasks : inbox'[t] # None => FromSource(t, inbox[t])'
    BY <2>1, <1>b DEF Genuine
  <2>6. \A t, u \in Tasks : u \in waiters'[t] => \E i \in DOMAIN srcs'[u] : srcs'[u][i] = t
    BY <2>1, <1>a, <1>e DEF Genuine, IsSelect
  <2>7. QED
    BY <2>1, <2>2, <2>3, <2>4, <2>5, <2>6 DEF Genuine
<1>2. ASSUME NEW t \in Tasks, ThunkReturn(t)
      PROVE  Genuine'
  <2>1. UNCHANGED <<winner, inbox, waiters, srcs>> /\ state' = [state EXCEPT ![t] = t] /\ ~IsSelect(t)
    BY <1>2 DEF ThunkReturn, Control, ControlTask
  <2>2. \A u \in Tasks : Done(u)' /\ ~IsSelect(u)' => state'[u] = u
    BY <2>1, <1>a DEF Genuine, Done, IsSelect
  <2>3. \A u \in Tasks : Done(u)' /\ IsSelect(u)' => FromSource(u, state[u])'
    <3> SUFFICES ASSUME NEW u \in Tasks, Done(u)', IsSelect(u)' PROVE FromSource(u, state[u])'
      OBVIOUS
    <3>1. IsSelect(u) /\ u # t /\ state'[u] = state[u] /\ Done(u)
      BY <2>1, <1>a DEF IsSelect, Done
    <3>2. QED
      BY <3>1, <1>b DEF Genuine, Done
  <2>4. QED
    BY <2>1, <2>2, <2>3, <1>b DEF Genuine
<1>3. ASSUME NEW s \in Tasks, DispatcherPublish(s)
      PROVE  Genuine'
  <2>1. /\ UNCHANGED <<winner, inbox, waiters, srcs>> /\ state' = [state EXCEPT ![s] = winner[s]]
        /\ IsSelect(s) /\ winner[s] # None
    BY <1>3 DEF DispatcherPublish, Control, ControlTask
  <2>2. \A u \in Tasks : Done(u)' /\ ~IsSelect(u)' => state'[u] = u
    BY <2>1, <1>a DEF Genuine, Done, IsSelect
  <2>3. \A u \in Tasks : Done(u)' /\ IsSelect(u)' => FromSource(u, state[u])'
    <3> SUFFICES ASSUME NEW u \in Tasks, Done(u)', IsSelect(u)' PROVE FromSource(u, state[u])'
      OBVIOUS
    <3>1. CASE u = s
      <4>1. FromSource(s, winner[s])' /\ state'[s] = winner'[s]
        BY <2>1, <1>a, <1>b DEF Genuine
      <4>2. QED
        BY <3>1, <4>1 DEF FromSource
    <3>2. CASE u # s
      <4>1. IsSelect(u) /\ state'[u] = state[u] /\ Done(u)
        BY <2>1, <3>2, <1>a DEF IsSelect, Done
      <4>2. QED
        BY <4>1, <1>b DEF Genuine, Done
    <3>3. QED
      BY <3>1, <3>2
  <2>4. QED
    BY <2>1, <2>2, <2>3, <1>b DEF Genuine
<1>4. ASSUME NEW t \in Tasks, PublishSend(t)
      PROVE  Genuine'
  <2>1. UNCHANGED <<state, winner, srcs>> /\ Done(t)
    BY <1>4 DEF PublishSend, Control, ControlTask
  <2>2. PICK s \in waiters[t] : PublishTo(t, s)
    BY <1>4 DEF PublishSend
  <2>3. s \in Tasks /\ state[t] # None /\ FromSource(s, state[t])
    BY <2>1, <2>2, <1>a DEF Genuine, FromSource, Done
  <2>4. \A u \in Tasks : waiters'[u] \subseteq waiters[u]
    BY <2>2, <1>a DEF PublishTo
  <2>5. \A u \in Tasks : inbox'[u] = inbox[u] \/ (u = s /\ inbox'[u] = state[t])
    BY <2>2, <1>a DEF PublishTo
  <2>6. \A u \in Tasks : inbox'[u] # None => FromSource(u, inbox'[u])
    BY <2>3, <2>5 DEF Genuine
  <2>7. QED
    BY <2>1, <2>4, <2>6 DEF Genuine, FromSource, Done, IsSelect
<1>5. ASSUME NEW s \in Tasks, ScanDone(s)
      PROVE  Genuine'
  <2>1. UNCHANGED <<state, inbox, waiters, srcs>> /\ winner' = [winner EXCEPT ![s] = state[Source(s)]]
    BY <1>5 DEF ScanDone
  <2>2. FromSource(s, state[Source(s)])
    BY <1>5, SourceFacts DEF ScanDone, FromSource, Source
  <2>3. \A u \in Tasks : winner'[u] # None => FromSource(u, winner'[u])
    BY <2>1, <2>2, <1>a DEF Genuine
  <2>4. QED
    BY <2>1, <2>3 DEF Genuine, FromSource, Done, IsSelect
<1>6. ASSUME NEW s \in Tasks, ScanSubscribe(s)
      PROVE  Genuine'
  <2>1. UNCHANGED <<state, inbox, winner, srcs>> /\ waiters' = [waiters EXCEPT ![Source(s)] = @ \cup {s}]
    BY <1>6 DEF ScanSubscribe
  <2>2. \E i \in DOMAIN srcs[s] : srcs[s][i] = Source(s)
    BY <1>6, SourceFacts DEF ScanSubscribe, Source
  <2>3. \A t, u \in Tasks : u \in waiters'[t] => \E i \in DOMAIN srcs[u] : srcs[u][i] = t
    BY <2>1, <2>2, <1>a DEF Genuine
  <2>4. QED
    BY <2>1, <2>3 DEF Genuine, FromSource, Done, IsSelect
<1>7. ASSUME NEW s \in Tasks, DispatcherRecv(s)
      PROVE  Genuine'
  <2>1. UNCHANGED <<state, inbox, waiters, srcs>> /\ winner' = [winner EXCEPT ![s] = inbox[s]]
    BY <1>7 DEF DispatcherRecv
  <2>2. \A u \in Tasks : winner'[u] # None => FromSource(u, winner'[u])
    BY <2>1, <1>a DEF Genuine
  <2>3. QED
    BY <2>1, <2>2 DEF Genuine, FromSource, Done, IsSelect
<1>8. ASSUME NEW s \in Tasks, DispatcherDrop(s)
      PROVE  Genuine'
  <2>1. /\ UNCHANGED <<state, waiters, srcs>> /\ winner' = [winner EXCEPT ![s] = None]
        /\ inbox' = [inbox EXCEPT ![s] = None]
    BY <1>8 DEF DispatcherDrop
  <2>2. \A u \in Tasks : /\ winner'[u] # None => FromSource(u, winner'[u])
                         /\ inbox'[u] # None => FromSource(u, inbox'[u])
    BY <2>1, <1>a DEF Genuine
  <2>3. QED
    BY <2>1, <2>2 DEF Genuine, FromSource, Done, IsSelect
<1>9. ASSUME NEW c \in Threads, NEW t \in Tasks, NEW give \in SUBSET Owned(c), Spawn(c, t, give)
      PROVE  Genuine'
  BY <1>9, <1>f DEF Spawn
<1>10. ASSUME NEW c \in Threads, NEW l, Block(c, l)
       PROVE  Genuine'
  BY <1>10, <1>f DEF Block
<1>11. ASSUME NEW c \in Threads, SpuriousWake(c) \/ AwaitStep(c) \/ \E h \in Tasks : Forget(c, h)
       PROVE  Genuine'
  BY <1>11, <1>f DEF Forget, SpuriousWake, AwaitStep, AwaitReturn, AwaitPark
<1>12. ASSUME NEW t \in Tasks, WorkerDrop(t) \/ PublishNotify(t)
       PROVE  Genuine'
  BY <1>12, <1>f DEF WorkerDrop, PublishNotify
<1>13. CASE PoolStep \/ Exit \/ UNCHANGED vars
  BY <1>13, <1>f DEF PoolStep, WorkerRecv, Exit, vars
<1> QED
  BY <1>1, <1>2, <1>3, <1>4, <1>5, <1>6, <1>7, <1>8, <1>9, <1>10, <1>11, <1>12, <1>13
  DEF Next, Code, Await, JoinAll, ThreadStep, WorkerStep, PublishStep, DispatchStep, Exited, Threads

\* Nothing is resolved, subscribed or sent at the start.
LEMMA InitGenuine == Init => Genuine
BY DEF Init, Genuine, Done, None

\* Genuine holds in every state of the runtime.
LEMMA GenuineAlways == Spec => []Genuine
<1>1. IInv /\ Genuine /\ [Next]_vars => Genuine'
  BY GenuineStep DEF IInv
<1>2. QED
  BY <1>1, InitGenuine, Invariance, PTL DEF Spec

\* A spawned task resolves with the value of its own function, and a select
\* with a value that one of its sources has published, whatever the pool and
\* however scan, subscription and publication interleave.
THEOREM GenuineResults == Spec => []ResultsAreGenuine
<1>1. Genuine => ResultsAreGenuine
  BY DEF Genuine, ResultsAreGenuine, FromSource
<1>2. QED
  BY <1>1, GenuineAlways, PTL

-----------------------------------------------------------------------------
(* The runtime implements the futures of TaskFutures.                      *)

\* Every step keeps the delivered results with the handles that are gone.
LEMMA DeliveredStep ==
  TypeOK /\ Control /\ Delivered /\ [Next]_vars => Delivered'
<1> SUFFICES ASSUME TypeOK, Control, Delivered, [Next]_vars PROVE Delivered'
  OBVIOUS
<1>a. /\ got \in [Tasks -> Tasks \cup {None}] /\ created \in 0..MaxTasks
      /\ refs \in [Tasks -> SUBSET {"handle", "thread"}]
  BY DEF TypeOK
<1>b. MaxTasks \in Nat /\ Tasks = 1..MaxTasks
  BY MaxTasksAssumption DEF Tasks
<1>1. ASSUME NEW c \in Threads, NEW t \in Tasks, NEW give \in SUBSET Owned(c), Spawn(c, t, give)
      PROVE  Delivered'
  BY <1>1, <1>a, <1>b DEF Spawn, Delivered
<1>2. ASSUME NEW c \in Threads, NEW s \in Tasks, NEW l \in Lists(c), Select(c, s, l)
      PROVE  Delivered'
  BY <1>2, <1>a, <1>b DEF Select, Delivered
<1>3. ASSUME NEW c \in Threads, AwaitReturn(c)
      PROVE  Delivered'
  <2>1. Head(todo[c]) \in Tasks /\ Head(todo[c]) <= created
    <3>1. Head(todo[c]) \in Tasks /\ Done(Head(todo[c]))
      BY <1>3, AwaitFacts DEF AwaitReturn, Blocked
    <3>2. ~(Head(todo[c]) > created)
      BY <3>1 DEF Control, ControlTask
    <3>3. QED
      BY <3>1, <3>2, <1>a, <1>b
  <2>2. QED
    BY <1>3, <2>1, <1>a DEF AwaitReturn, Delivered
<1>4. ASSUME NEW t \in Tasks, WorkerDrop(t) \/ DispatcherDrop(t)
      PROVE  Delivered'
  BY <1>4, <1>a DEF WorkerDrop, DispatcherDrop, Delivered
<1>5. ASSUME UNCHANGED <<got, created, refs>>
      PROVE  Delivered'
  BY <1>5 DEF Delivered
<1>6. ASSUME NEW c \in Threads, NEW l, Block(c, l)
      PROVE  Delivered'
  BY <1>6, <1>5 DEF Block
<1>7. ASSUME NEW c \in Threads, SpuriousWake(c) \/ AwaitPark(c) \/ \E h \in Tasks : Forget(c, h)
      PROVE  Delivered'
  BY <1>7, <1>5 DEF Forget, SpuriousWake, AwaitPark
<1>8. ASSUME NEW t \in Tasks, \/ ThunkReturn(t) \/ PublishStep(t) \/ ScanDone(t) \/ ScanSubscribe(t)
                              \/ DispatcherRecv(t) \/ DispatcherPublish(t)
      PROVE  Delivered'
  BY <1>8, <1>5 DEF ThunkReturn, PublishStep, PublishSend, PublishNotify, ScanDone, ScanSubscribe,
                    DispatcherRecv, DispatcherPublish
<1>9. CASE PoolStep \/ Exit \/ UNCHANGED vars
  BY <1>9, <1>5 DEF PoolStep, WorkerRecv, Exit, vars
<1> QED
  BY <1>1, <1>2, <1>3, <1>4, <1>6, <1>7, <1>8, <1>9
  DEF Next, Code, Await, JoinAll, AwaitStep, ThreadStep, WorkerStep, DispatchStep, Exited, Threads

\* A handle that is awaited has not delivered yet.
LEMMA AwaitedIsUndelivered ==
  ASSUME TypeOK, Control, Arcs, Delivered, NEW c \in Threads, pc[c] \in Blocked
  PROVE  got[Head(todo[c])] = None
<1>1. Head(todo[c]) \in Tasks /\ AwaitedBy(c, Head(todo[c]))
  BY AwaitFacts DEF AwaitedBy, Blocked
<1>2. "handle" \in refs[Head(todo[c])]
  BY <1>1 DEF Arcs, ArcsHandle
<1>3. QED
  BY <1>1, <1>2 DEF Delivered

\* The sources of a task, as the futures see them.
Deps(l) == {l[i] : i \in DOMAIN l}

\* Every step of the runtime creates, resolves or delivers one future, or
\* changes nothing a program can see.
LEMMA FuturesStep ==
  IInv /\ Genuine /\ Delivered /\ [Next]_vars => [Futures!Next]_(Futures!vars)
<1> SUFFICES ASSUME IInv, Genuine, Delivered, [Next]_vars
             PROVE  [Futures!Next]_(Futures!vars)
  OBVIOUS
<1>a. TypeOK /\ Control /\ Handles /\ Arcs
  BY DEF IInv
<1>b. /\ state \in [Tasks -> Tasks \cup {None}] /\ got \in [Tasks -> Tasks \cup {None}]
      /\ srcs \in [Tasks -> Seq(Tasks)] /\ created \in 0..MaxTasks
      /\ winner \in [Tasks -> Tasks \cup {None}]
  BY <1>a DEF TypeOK
<1>c. MaxTasks \in Nat /\ Tasks = 1..MaxTasks /\ Futures!Futures = Tasks
  BY MaxTasksAssumption DEF Tasks, Futures!Futures
<1>1. ASSUME NEW c \in Threads, NEW t \in Tasks, NEW give \in SUBSET Owned(c), Spawn(c, t, give)
      PROVE  Futures!Next
  <2>1. UNCHANGED <<state, got, srcs>> /\ t = created + 1 /\ created' = t /\ srcs[t] = <<>>
    BY <1>1, <1>a, FreshTask DEF Spawn, Control, ControlTask, IsSelect
  <2>2. Deps(srcs[t]) = {} /\ {} \subseteq 1..created
    BY <2>1 DEF Deps
  <2>3. [u \in Tasks |-> Deps(srcs'[u])] = [[u \in Tasks |-> Deps(srcs[u])] EXCEPT ![t] = {}]
    BY <2>1, <2>2
  <2>4. Futures!Create(t, {})
    BY <2>1, <2>2, <2>3 DEF Futures!Create, Deps
  <2>5. QED
    BY <2>2, <2>4, <1>c DEF Futures!Next
<1>2. ASSUME NEW c \in Threads, NEW s \in Tasks, NEW l \in Lists(c), Select(c, s, l)
      PROVE  Futures!Next
  <2>1. UNCHANGED <<state, got>> /\ s = created + 1 /\ created' = s /\ srcs' = [srcs EXCEPT ![s] = l]
    BY <1>2 DEF Select
  <2>2. Deps(l) \subseteq 1..created
    <3>1. \A i \in DOMAIN l : l[i] \in Tasks /\ owner[l[i]] = {c}
      BY <1>a, ListFacts
    <3>2. \A i \in DOMAIN l : owner[l[i]] # {}
      BY <3>1
    <3>3. \A i \in DOMAIN l : l[i] <= created
      BY <3>1, <3>2, <1>a DEF Handles
    <3>4. QED
      BY <3>1, <3>3, <1>b, <1>c DEF Deps
  <2>3. Futures!Create(s, Deps(l))
    BY <2>1, <2>2, <1>b DEF Futures!Create, Deps
  <2>4. QED
    BY <2>2, <2>3, <1>c DEF Futures!Next
<1>3. ASSUME NEW t \in Tasks, ThunkReturn(t)
      PROVE  Futures!Next
  <2>1. UNCHANGED <<created, got, srcs>> /\ state' = [state EXCEPT ![t] = t]
    BY <1>3 DEF ThunkReturn
  <2>2. srcs[t] = <<>> /\ state[t] = None /\ ~(t > created)
    BY <1>3, <1>a DEF ThunkReturn, Control, ControlTask, IsSelect, Done
  <2>3. Futures!ResolveSpawned(t)
    BY <2>1, <2>2, <1>b, <1>c DEF Futures!ResolveSpawned, Futures!Unresolved, None
  <2>4. QED
    BY <2>3, <1>c DEF Futures!Next
<1>4. ASSUME NEW s \in Tasks, DispatcherPublish(s)
      PROVE  Futures!Next
  <2>1. UNCHANGED <<created, got, srcs>> /\ state' = [state EXCEPT ![s] = winner[s]]
    BY <1>4 DEF DispatcherPublish
  <2>2. state[s] = None /\ winner[s] # None
    BY <1>4, <1>a DEF DispatcherPublish, Control, ControlTask, Done
  <2>3. PICK i \in DOMAIN srcs[s] : state[srcs[s][i]] = winner[s]
    BY <2>2 DEF Genuine, FromSource
  <2>4. srcs[s][i] \in Deps(srcs[s])
    BY DEF Deps
  <2>5. Futures!ResolveSelect(s)
    BY <2>1, <2>2, <2>3, <2>4, <1>b DEF Futures!ResolveSelect, Futures!Unresolved, None, Deps
  <2>6. QED
    BY <2>5, <1>c DEF Futures!Next
<1>5. ASSUME NEW c \in Threads, AwaitReturn(c)
      PROVE  Futures!Next
  <2>1. /\ UNCHANGED <<created, state, srcs>> /\ Done(Head(todo[c]))
        /\ got' = [got EXCEPT ![Head(todo[c])] = state[Head(todo[c])]]
    BY <1>5 DEF AwaitReturn
  <2>2. Head(todo[c]) \in Tasks /\ got[Head(todo[c])] = None
    BY <1>5, <1>a, AwaitFacts, AwaitedIsUndelivered DEF AwaitReturn, Blocked
  <2>3. Futures!Deliver(Head(todo[c]))
    BY <2>1, <2>2 DEF Futures!Deliver, Futures!Unresolved, Done, None
  <2>4. QED
    BY <2>2, <2>3, <1>c DEF Futures!Next
<1>6. ASSUME UNCHANGED <<created, state, got, srcs>>
      PROVE  UNCHANGED Futures!vars
  BY <1>6 DEF Futures!vars
<1>7. ASSUME NEW c \in Threads, NEW l, Block(c, l)
      PROVE  UNCHANGED Futures!vars
  BY <1>7, <1>6 DEF Block
<1>8. ASSUME NEW c \in Threads, SpuriousWake(c) \/ AwaitPark(c) \/ \E h \in Tasks : Forget(c, h)
      PROVE  UNCHANGED Futures!vars
  BY <1>8, <1>6 DEF Forget, SpuriousWake, AwaitPark
<1>9. ASSUME NEW t \in Tasks, \/ WorkerDrop(t) \/ PublishStep(t) \/ ScanDone(t) \/ ScanSubscribe(t)
                              \/ DispatcherRecv(t) \/ DispatcherDrop(t)
      PROVE  UNCHANGED Futures!vars
  BY <1>9, <1>6 DEF WorkerDrop, PublishStep, PublishSend, PublishNotify, ScanDone, ScanSubscribe,
                    DispatcherRecv, DispatcherDrop
<1>10. CASE PoolStep \/ Exit \/ UNCHANGED vars
  BY <1>10, <1>6 DEF PoolStep, WorkerRecv, Exit, vars
<1> QED
  BY <1>1, <1>2, <1>3, <1>4, <1>5, <1>7, <1>8, <1>9, <1>10
  DEF Next, Code, Await, JoinAll, AwaitStep, ThreadStep, WorkerStep, DispatchStep, Exited, Threads

\* To a Tyra program the runtime is a store of write-once futures: a spawned
\* one resolves with its own value, a select's with the value of a source that
\* has resolved, and awaiting a handle delivers its value, once.
THEOREM ImplementsFutures == Spec => FuturesSpec
<1>1. Init => Futures!Init
  BY DEF Init, Futures!Init, Futures!Futures, Futures!Unresolved, Tasks, None
<1>2. Init => Delivered
  BY DEF Init, Delivered
<1>3. IInv /\ Delivered /\ [Next]_vars => Delivered'
  BY DeliveredStep DEF IInv
<1>4. QED
  BY <1>1, <1>2, <1>3, FuturesStep, Invariance, GenuineAlways, PTL DEF Spec, FuturesSpec, Futures!Spec

-----------------------------------------------------------------------------
(* Which source a select reports.                                          *)

\* No source that was Done at the call of s comes before the first that has v.
ListedFirst(s, v) ==
  \A i \in DOMAIN srcs[s] : srcs[s][i] \in doneAtCall[s] => \E j \in 1..i : state[srcs[s][j]] = v

\* The scan has passed no source that was Done at the call, so what it stops at,
\* or what a dispatcher that has passed them all is sent, is listed before them.
OrderInv ==
  /\ doneAtCall \in [Tasks -> SUBSET Tasks]
  /\ \A s \in Tasks : \A t \in doneAtCall[s] : Done(t)
  /\ \A s \in Tasks : pc[s] \in {"scan", "recv"} => \A i \in 1..scan[s] : srcs[s][i] \notin doneAtCall[s]
  /\ \A s \in Tasks : winner[s] # None => ListedFirst(s, winner[s])
  /\ \A s \in Tasks : Done(s) => ListedFirst(s, state[s])

\* What the history variable records stays true of the list and the results.
LEMMA HistoryStep ==
  ASSUME TypeOK, Control, Genuine, OrderInv, OrderNext
  PROVE  /\ doneAtCall' \in [Tasks -> SUBSET Tasks]
         /\ \A s \in Tasks : \A t \in doneAtCall'[s] : Done(t) /\ Done(t)'
         /\ \A s \in Tasks : IsSelect(s) => srcs'[s] = srcs[s] /\ doneAtCall'[s] = doneAtCall[s]
         /\ \A s \in Tasks : \A v : (v # None /\ IsSelect(s) /\ ListedFirst(s, v)) => ListedFirst(s, v)'
         /\ \A s \in Tasks : ~IsSelect(s)' => DOMAIN srcs'[s] = {}
<1>a. [Next]_vars /\ srcs' \in [Tasks -> Seq(Tasks)]
  BY TypeStep DEF OrderNext, TypeOK
<1>b. /\ state \in [Tasks -> Tasks \cup {None}] /\ srcs \in [Tasks -> Seq(Tasks)]
  BY DEF TypeOK
<1>c. doneAtCall' = [s \in Tasks |-> DoneAtCall(s)]
  BY DEF OrderNext
<1>1. \A t \in Tasks : Done(t) => state'[t] = state[t] /\ Done(t)'
  BY <1>a, WriteOnce DEF Done
<1>2. \A s \in Tasks : IsSelect(s) => srcs'[s] = srcs[s]
  BY <1>a, SourcesStay DEF Control, ControlTask
<1>3. \A s \in Tasks : DoneAtCall(s) \in SUBSET Tasks /\ \A t \in DoneAtCall(s) : Done(t)
  BY DEF DoneAtCall, OrderInv
<1>4. \A s \in Tasks : IsSelect(s) => doneAtCall'[s] = doneAtCall[s]
  BY <1>c DEF DoneAtCall, IsSelect
<1>5. \A s \in Tasks : \A v : (v # None /\ IsSelect(s) /\ ListedFirst(s, v)) => ListedFirst(s, v)'
  <2> SUFFICES ASSUME NEW s \in Tasks, NEW v, v # None, IsSelect(s), ListedFirst(s, v),
                      NEW i \in DOMAIN srcs'[s], srcs'[s][i] \in doneAtCall'[s]
               PROVE  \E j \in 1..i : state'[srcs'[s][j]] = v
    BY DEF ListedFirst
  <2>1. srcs'[s] = srcs[s] /\ i \in DOMAIN srcs[s] /\ srcs[s][i] \in doneAtCall[s]
    BY <1>2, <1>4
  <2>2. PICK j \in 1..i : state[srcs[s][j]] = v
    BY <2>1 DEF ListedFirst
  <2>3. j \in DOMAIN srcs[s] /\ srcs[s][j] \in Tasks
    BY <2>1, <2>2, <1>b
  <2>4. state'[srcs[s][j]] = v
    BY <2>2, <2>3, <1>1 DEF Done
  <2>5. QED
    BY <2>1, <2>4
<1>6. \A s \in Tasks : ~IsSelect(s)' => DOMAIN srcs'[s] = {}
  BY <1>a DEF IsSelect
<1>7. QED
  BY <1>c, <1>1, <1>2, <1>3, <1>4, <1>5, <1>6

\* How a dispatcher gets on: past a source that is Pending, to a winner that it
\* found Done or was sent, and to its result.
ScanMoves(s) ==
  pc'[s] \in {"scan", "recv"} =>
    \/ scan'[s] = 0
    \/ pc[s] \in {"scan", "recv"} /\ scan'[s] = scan[s]
    \/ pc[s] = "scan" /\ ~Done(Source(s)) /\ scan'[s] = scan[s] + 1

WinnerMoves(s) ==
  winner'[s] # None =>
    \/ winner'[s] = winner[s]
    \/ pc[s] = "scan" /\ Done(Source(s)) /\ winner'[s] = state[Source(s)]
    \/ pc[s] = "recv" /\ winner'[s] = inbox[s]

ResultMoves(s) ==
  Done(s)' => state'[s] = state[s] \/ state'[s] = winner[s] \/ ~IsSelect(s)'

LEMMA DispatcherMoves ==
  ASSUME TypeOK, Control, [Next]_vars
  PROVE  \A s \in Tasks : ScanMoves(s) /\ WinnerMoves(s) /\ ResultMoves(s)
<1> SUFFICES ASSUME NEW s \in Tasks PROVE ScanMoves(s) /\ WinnerMoves(s) /\ ResultMoves(s)
  OBVIOUS
<1>a. /\ state \in [Tasks -> Tasks \cup {None}] /\ winner \in [Tasks -> Tasks \cup {None}]
      /\ pc \in [Threads -> Labels] /\ scan \in [Tasks -> Nat] /\ Tasks \subseteq Threads
  BY DEF TypeOK, Threads
<1> DEFINE Moves == ScanMoves(s) /\ WinnerMoves(s) /\ ResultMoves(s)
<1>1. ASSUME NEW c \in Threads, NEW u \in Tasks, NEW l \in Lists(c), Select(c, u, l)
      PROVE  Moves
  <2>1. /\ UNCHANGED <<scan, winner, state>> /\ pc' = [pc EXCEPT ![u] = "scan"] /\ scan[u] = 0
    BY <1>1, FreshTask DEF Select, Control, ControlTask
  <2>2. QED
    BY <2>1, <1>a DEF ScanMoves, WinnerMoves, ResultMoves
<1>2. ASSUME NEW u \in Tasks, ThunkReturn(u)
      PROVE  Moves
  <2>1. /\ UNCHANGED <<scan, winner, srcs>> /\ pc' = [pc EXCEPT ![u] = "send"] /\ ~IsSelect(u)
        /\ state' = [state EXCEPT ![u] = u]
    BY <1>2 DEF ThunkReturn, Control, ControlTask
  <2>2. QED
    BY <2>1, <1>a DEF ScanMoves, WinnerMoves, ResultMoves, IsSelect
<1>3. ASSUME NEW u \in Tasks, DispatcherPublish(u)
      PROVE  Moves
  BY <1>3, <1>a DEF DispatcherPublish, ScanMoves, WinnerMoves, ResultMoves
<1>4. ASSUME NEW u \in Tasks, DispatcherDrop(u)
      PROVE  Moves
  BY <1>4, <1>a DEF DispatcherDrop, ScanMoves, WinnerMoves, ResultMoves
<1>5. ASSUME NEW u \in Tasks, ScanDone(u)
      PROVE  Moves
  BY <1>5, <1>a DEF ScanDone, ScanMoves, WinnerMoves, ResultMoves
<1>6. ASSUME NEW u \in Tasks, ScanSubscribe(u)
      PROVE  Moves
  BY <1>6, <1>a DEF ScanSubscribe, ScanMoves, WinnerMoves, ResultMoves
<1>7. ASSUME NEW u \in Tasks, DispatcherRecv(u)
      PROVE  Moves
  BY <1>7, <1>a DEF DispatcherRecv, ScanMoves, WinnerMoves, ResultMoves
\* The other steps move no dispatcher.
<1>8. ASSUME UNCHANGED <<scan, winner, state>>,
             \A u \in Tasks : pc'[u] \in {"scan", "recv"} => pc'[u] = pc[u]
      PROVE  Moves
  BY <1>8, <1>a DEF ScanMoves, WinnerMoves, ResultMoves
<1>9. ASSUME NEW c \in Threads, NEW u \in Tasks, NEW give \in SUBSET Owned(c), Spawn(c, u, give)
      PROVE  Moves
  BY <1>9, <1>8, <1>a DEF Spawn
<1>10. ASSUME NEW c \in Threads, NEW l, Block(c, l)
       PROVE  Moves
  BY <1>10, <1>8, <1>a DEF Block
<1>11. ASSUME NEW c \in Threads, SpuriousWake(c) \/ AwaitStep(c) \/ \E h \in Tasks : Forget(c, h)
       PROVE  Moves
  BY <1>11, <1>8, <1>a DEF Forget, SpuriousWake, AwaitStep, AwaitReturn, AwaitPark
<1>12. ASSUME NEW u \in Tasks, WorkerDrop(u) \/ PublishStep(u)
       PROVE  Moves
  BY <1>12, <1>8, <1>a DEF WorkerDrop, PublishStep, PublishSend, PublishNotify
<1>13. CASE PoolStep \/ Exit \/ UNCHANGED vars
  BY <1>13, <1>8, <1>a, QueueFacts DEF PoolStep, WorkerRecv, Exit, vars, Main
<1> QED
  BY <1>1, <1>2, <1>3, <1>4, <1>5, <1>6, <1>7, <1>9, <1>10, <1>11, <1>12, <1>13
  DEF Next, Code, Await, JoinAll, ThreadStep, WorkerStep, DispatchStep, Exited, Threads

\* Every step keeps the order of the list.
LEMMA OrderInvStep ==
  TypeOK /\ Control /\ Genuine /\ OrderInv /\ [OrderNext]_orderVars => OrderInv'
<1> SUFFICES ASSUME TypeOK, Control, Genuine, OrderInv, [OrderNext]_orderVars PROVE OrderInv'
  OBVIOUS
<1>1. CASE UNCHANGED orderVars
  BY <1>1 DEF orderVars, vars, OrderInv, ListedFirst, Done
<1>2. CASE OrderNext
  <2>a. /\ state \in [Tasks -> Tasks \cup {None}] /\ winner \in [Tasks -> Tasks \cup {None}]
        /\ inbox \in [Tasks -> Tasks \cup {None}] /\ pc \in [Threads -> Labels]
        /\ srcs \in [Tasks -> Seq(Tasks)] /\ scan \in [Tasks -> Nat] /\ Tasks \subseteq Threads
    BY DEF TypeOK, Threads
  <2>b. [Next]_vars
    BY <1>2 DEF OrderNext
  <2>h. /\ doneAtCall' \in [Tasks -> SUBSET Tasks]
        /\ \A s \in Tasks : \A t \in doneAtCall'[s] : Done(t) /\ Done(t)'
        /\ \A s \in Tasks : IsSelect(s) => srcs'[s] = srcs[s] /\ doneAtCall'[s] = doneAtCall[s]
        /\ \A s \in Tasks : \A v : (v # None /\ IsSelect(s) /\ ListedFirst(s, v)) => ListedFirst(s, v)'
        /\ \A s \in Tasks : ~IsSelect(s)' => DOMAIN srcs'[s] = {}
    BY <1>2, HistoryStep
  <2>m. \A s \in Tasks : ScanMoves(s) /\ WinnerMoves(s) /\ ResultMoves(s)
    BY <2>b, DispatcherMoves
\* A dispatcher passes a source only when it is Pending.
  <2>1. \A s \in Tasks : pc'[s] \in {"scan", "recv"} => \A i \in 1..scan'[s] : srcs'[s][i] \notin doneAtCall'[s]
    <3> SUFFICES ASSUME NEW s \in Tasks, pc'[s] \in {"scan", "recv"}, NEW i \in 1..scan'[s]
                 PROVE  srcs'[s][i] \notin doneAtCall'[s]
      OBVIOUS
    <3>1. CASE scan'[s] = 0
      BY <3>1
    <3>2. CASE pc[s] \in {"scan", "recv"} /\ scan'[s] = scan[s]
      <4>1. IsSelect(s)
        BY <3>2 DEF Control, ControlTask
      <4>2. QED
        BY <3>2, <4>1, <2>h DEF OrderInv
    <3>3. CASE pc[s] = "scan" /\ ~Done(Source(s)) /\ scan'[s] = scan[s] + 1
      <4>1. IsSelect(s)
        BY <3>3 DEF Control, ControlTask
      <4>2. CASE i \in 1..scan[s]
        BY <3>3, <4>1, <4>2, <2>h DEF OrderInv
      <4>3. CASE i = scan[s] + 1
        BY <3>3, <4>1, <4>3, <2>h DEF OrderInv, Source
      <4>4. QED
        BY <3>3, <4>2, <4>3, <2>a
    <3>4. QED
      BY <2>m, <3>1, <3>2, <3>3 DEF ScanMoves
\* The scan stops at the first source that is Done; a message reaches a
\* dispatcher that has passed them all.
  <2>2. \A s \in Tasks : winner'[s] # None => ListedFirst(s, winner[s])'
    <3> SUFFICES ASSUME NEW s \in Tasks, NEW v, v = winner'[s], v # None
                 PROVE  ListedFirst(s, v)'
      BY DEF ListedFirst
    <3>1. CASE v = winner[s]
      <4>1. ListedFirst(s, v) /\ FromSource(s, v)
        BY <3>1 DEF OrderInv, Genuine
      <4>2. IsSelect(s)
        BY <4>1, <2>a DEF FromSource, IsSelect
      <4>3. QED
        BY <4>1, <4>2, <2>h
    <3>2. CASE pc[s] = "scan" /\ Done(Source(s)) /\ v = state[Source(s)]
      <4>1. IsSelect(s) /\ scan[s] + 1 \in DOMAIN srcs[s]
        BY <3>2, SourceFacts DEF Control, ControlTask
      <4>2. ListedFirst(s, v)
        <5> SUFFICES ASSUME NEW i \in DOMAIN srcs[s], srcs[s][i] \in doneAtCall[s]
                     PROVE  \E j \in 1..i : state[srcs[s][j]] = v
          BY DEF ListedFirst
        <5>1. i \notin 1..scan[s]
          BY <3>2 DEF OrderInv
        <5>2. scan[s] + 1 \in 1..i
          BY <5>1, <2>a
        <5>3. QED
          BY <5>2, <3>2 DEF Source
      <4>3. QED
        BY <4>1, <4>2, <2>h
    <3>3. CASE pc[s] = "recv"
      <4>1. IsSelect(s) /\ scan[s] = Len(srcs[s])
        BY <3>3 DEF Control, ControlTask
      <4>2. \A i \in DOMAIN srcs[s] : srcs[s][i] \notin doneAtCall[s]
        BY <3>3, <4>1, <2>a DEF OrderInv
      <4>3. ListedFirst(s, v)
        BY <4>2 DEF ListedFirst
      <4>4. QED
        BY <4>1, <4>3, <2>h
    <3>4. QED
      BY <2>m, <3>1, <3>2, <3>3 DEF WinnerMoves
  <2>3. \A s \in Tasks : Done(s)' => ListedFirst(s, state[s])'
    <3> SUFFICES ASSUME NEW s \in Tasks, NEW v, v = state'[s], v # None
                 PROVE  ListedFirst(s, v)'
      BY DEF ListedFirst, Done
    <3>1. CASE ~IsSelect(s)'
      BY <3>1, <2>h DEF ListedFirst
    <3>2. CASE v = state[s] /\ IsSelect(s)'
      <4>1. ListedFirst(s, v) /\ pc[s] # "none"
        BY <3>2 DEF OrderInv, Done, Control, ControlTask
      <4>2. IsSelect(s)
        BY <3>2, <4>1, <2>b, SourcesStay DEF IsSelect
      <4>3. QED
        BY <4>1, <4>2, <2>h
    <3>3. CASE v = winner[s]
      <4>1. ListedFirst(s, v) /\ FromSource(s, v)
        BY <3>3 DEF OrderInv, Genuine
      <4>2. IsSelect(s)
        BY <4>1, <2>a DEF FromSource, IsSelect
      <4>3. QED
        BY <4>1, <4>2, <2>h
    <3>4. QED
      BY <2>m, <3>1, <3>2, <3>3 DEF ResultMoves, Done
  <2>4. QED
    BY <2>h, <2>1, <2>2, <2>3 DEF OrderInv
<1>3. QED
  BY <1>1, <1>2

\* The specification with the history variable is the runtime's.
LEMMA OrderSpecIsSpec == OrderSpec => Spec
<1>1. OrderInit => Init
  BY DEF OrderInit
<1>2. [OrderNext]_orderVars => [Next]_vars
  BY DEF OrderNext, orderVars
<1>3. QED
  BY <1>1, <1>2, PTL DEF OrderSpec, Spec

\* A select reports no source that is listed after one that was already Done
\* when it was called, for every pool, list length and interleaving.
THEOREM SelectInListOrder == OrderSpec => []WinnerNotListedAfterDone
<1>1. OrderInit => OrderInv
  BY DEF OrderInit, Init, OrderInv, Done, None, Tasks, Threads, Main
<1>2. IInv /\ Genuine /\ OrderInv /\ [OrderNext]_orderVars => OrderInv'
  BY OrderInvStep DEF IInv
<1>3. OrderInv => WinnerNotListedAfterDone
  BY DEF OrderInv, WinnerNotListedAfterDone, ListedFirst
<1>4. QED
  BY <1>1, <1>2, <1>3, OrderSpecIsSpec, Invariance, GenuineAlways, PTL DEF OrderSpec
=============================================================================
