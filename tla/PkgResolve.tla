----------------------------- MODULE PkgResolve -----------------------------
(***************************************************************************)
(* The dependency resolver (tools/tyra-pkg/src/lib.rs): `tyra mod sync`    *)
(* walks the manifests depth first, fetches git dependencies as it meets   *)
(* them and writes Tyra.lock when it is through; `--locked` and `--check`  *)
(* judge the project against the lock and the cache.  Meanwhile manifests  *)
(* are edited, branches move, the cache is cleaned, syncs are killed.      *)
(*                                                                         *)
(* A source tree is the directory of a path dependency (the project's own  *)
(* too, and those inside a git checkout) or a git URL at a rev.  Its       *)
(* manifest maps an import name to a dependency.  The depth limit of 32    *)
(* cannot be reached with fewer trees: no source is entered twice.         *)
(***************************************************************************)
EXTENDS Naturals, Sequences, FiniteSets, SequencesExt

CONSTANTS NameOrder,  \* import names, in the order of their spelling
          Paths,      \* directories, by their path from the project
          Root,       \* the project's
          Urls, Revs, Branches,
          None,       \* no rev, no branch, no dependency, no entry
          Package,    \* tree -> [package] name, or None where validate_dep_root fails
          Worlds,     \* what the manifests of all trees may be
          InitRev,    \* the rev every branch starts at
          MaxSyncs,   \* bound: syncs started
          MaxOutside  \* bound: edits, moves of a branch and cleans

Names == Range(NameOrder)
Trees == Paths \cup (Urls \X Revs)
Deps  == [source : Paths, rev : {None}, branch : {None}]
           \cup [source : Urls, rev : Revs, branch : {None}]
           \cup [source : Urls, rev : {None}, branch : Branches]
Manifests == [Names -> Deps \cup {None}]

Entries   == [name : Names, rev : Revs \cup {None}, branch : Branches \cup {None}]
Locks     == [Paths \cup Urls -> Entries \cup {None}]

ASSUME RootAssumption   == Root \in Paths /\ Paths \cap Urls = {} /\ InitRev \in Revs
ASSUME NamesAssumption  == NameOrder \in Seq(Names)
ASSUME WorldsAssumption == /\ \A w \in Worlds : w \in [Trees -> Manifests]
                           /\ Package \in [Trees -> Names \cup {None}]
ASSUME NoneAssumption   == None \notin Names \cup Revs \cup Branches \cup Deps \cup Entries \cup Locks
ASSUME DepthAssumption  == Cardinality(Trees) < 32

VARIABLES
  manifests,  \* Tyra.toml of every tree
  heads,      \* the rev a branch is at
  stack,      \* the walk: the manifests entered, with the names left
  resolved,   \* source -> entry
  lock,       \* Tyra.lock, or None
  cache,      \* the git dependencies fetched: name, URL, rev
  hollow,     \* slots that a clean was stopped in: Tyra.toml is there, the root module not
  wrecks,     \* others: something is there, Tyra.toml not
  last,       \* how the last sync ended
  drift,      \* history: what happened since the last sync began
  seen,       \* history: the dependencies the walk has met
  lockedDeps, \* history: those the lock was written for
  count       \* how many syncs, and how many things outside, there were

vars == <<manifests, heads, stack, resolved, lock, cache, hollow, wrecks, last, drift, seen, lockedDeps, count>>
torn    == <<hollow, wrecks>>
outside == <<manifests, heads, drift, count, torn>>

Unresolved == [s \in Paths \cup Urls |-> None]
Frame(t)   == [deps |-> manifests[t], rest |-> NameOrder]

Init == /\ manifests \in Worlds
        /\ heads      = [u \in Urls |-> [b \in Branches |-> InitRev]]
        /\ stack      = <<>>
        /\ resolved   = Unresolved
        /\ lock       = None
        /\ cache      = {}
        /\ hollow     = {}
        /\ wrecks     = {}
        /\ last       = "none"
        /\ drift      = {}
        /\ seen       = {}
        /\ lockedDeps = {}
        /\ count      = [syncs |-> 0, outside |-> 0]

-----------------------------------------------------------------------------
(* tyra mod sync.                                                          *)

SyncBegin ==
  /\ last # "running" /\ count.syncs < MaxSyncs
  /\ stack'    = <<Frame(Root)>>
  /\ resolved' = Unresolved
  /\ last'     = "running"
  /\ drift'    = {}
  /\ seen'     = {}
  /\ count'    = [count EXCEPT !.syncs = @ + 1]
  /\ UNCHANGED <<manifests, heads, lock, cache, torn, lockedDeps>>

Top      == Head(stack)
NextName == Head(Top.rest)
NextDep  == Top.deps[NextName]
Working  == last = "running" /\ stack # <<>>
Below    == <<[Top EXCEPT !.rest = Tail(@)]>> \o Tail(stack)

\* The walk is at a dependency, of one of the two kinds.
Meets(sources) == /\ Working /\ Top.rest # <<>>
                  /\ NextDep # None
                  /\ NextDep.source \in sources
                  /\ seen' = seen \cup {<<NextName, NextDep>>}
                  /\ UNCHANGED <<lock, lockedDeps, outside>>

\* Branch constraints are resolved against the remote, every time.
WantedRev == IF NextDep.branch = None THEN NextDep.rev ELSE heads[NextDep.source][NextDep.branch]
NewEntry  == [name   |-> NextName,
              rev    |-> IF NextDep.source \in Paths THEN None ELSE WantedRev,
              branch |-> NextDep.branch]
NameTaken == \E s \in DOMAIN resolved : resolved[s] # None /\ resolved[s].name = NextName

GoOn     == stack' = Below /\ UNCHANGED <<resolved, last>>
Reject   == stack' = <<>> /\ last' = "rejected" /\ UNCHANGED resolved
Fail     == stack' = <<>> /\ last' = "aborted" /\ UNCHANGED resolved
Enter(t) == /\ stack'    = <<Frame(t)>> \o Below
            /\ resolved' = [resolved EXCEPT ![NextDep.source] = NewEntry]
            /\ UNCHANGED last

Skip ==
  /\ Working /\ Top.rest # <<>> /\ NextDep = None
  /\ GoOn
  /\ UNCHANGED <<lock, cache, seen, lockedDeps, outside>>

Return ==
  /\ Working /\ Top.rest = <<>>
  /\ stack' = Tail(stack)
  /\ UNCHANGED <<resolved, last, lock, cache, seen, lockedDeps, outside>>

\* Variants named X_... stand for a bug in X that a property has to notice.
PathDep_AnyName ==
  /\ Meets(Paths)
  /\ IF resolved[NextDep.source] # None THEN GoOn
     ELSE IF Package[NextDep.source] # NextName THEN Reject ELSE Enter(NextDep.source)
  /\ UNCHANGED cache

PathDep ==
  /\ Meets(Paths)
  /\ LET known == resolved[NextDep.source] IN
     IF known # None
       THEN IF known.name = NextName THEN GoOn ELSE Reject
       ELSE IF NameTaken \/ Package[NextDep.source] # NextName THEN Reject ELSE Enter(NextDep.source)
  /\ UNCHANGED cache

\* A dependency met again must be wanted under the same name, at the same rev,
\* by the same kind of constraint.
GitDepAgain_SameRevIsEnough ==
  /\ Meets(Urls)
  /\ resolved[NextDep.source] # None
  /\ IF [resolved[NextDep.source] EXCEPT !.branch = NewEntry.branch] = NewEntry THEN GoOn ELSE Reject
  /\ UNCHANGED cache

GitDepAgain ==
  /\ Meets(Urls)
  /\ resolved[NextDep.source] # None
  /\ IF resolved[NextDep.source] = NewEntry THEN GoOn ELSE Reject
  /\ UNCHANGED cache

\* A new one is fetched, checked, and only then is its name looked for.  A slot
\* without its root module is refused; one without Tyra.toml is in the way.
GitDep ==
  LET tree == <<NextDep.source, WantedRev>>
      slot == <<NextName, NextDep.source, WantedRev>> IN
  /\ Meets(Urls)
  /\ resolved[NextDep.source] = None
  /\ IF Package[tree] # NextName
       THEN Reject /\ UNCHANGED cache
     ELSE IF slot \in hollow \cup wrecks
       THEN Fail /\ UNCHANGED cache
       ELSE /\ cache' = cache \cup {slot}
            /\ IF NameTaken THEN Reject ELSE Enter(tree)

\* git fails, the network is gone, the process is killed.
Abort ==
  /\ last = "running"
  /\ stack' = <<>> /\ last' = "aborted"
  /\ UNCHANGED <<resolved, lock, cache, seen, lockedDeps, outside>>

WriteLock ==
  /\ last = "running" /\ stack = <<>>
  /\ lock'       = resolved
  /\ last'       = "synced"
  /\ lockedDeps' = seen
  /\ UNCHANGED <<stack, resolved, cache, seen, outside>>

Sync == SyncBegin \/ Skip \/ Return \/ PathDep \/ GitDepAgain \/ GitDep \/ Abort \/ WriteLock

-----------------------------------------------------------------------------
(* The world outside.                                                      *)

\* Before the first sync, a change is another initial state.
Happens(what) ==
  /\ 0 < count.syncs /\ count.outside < MaxOutside
  /\ drift' = drift \cup {what}
  /\ count' = [count EXCEPT !.outside = @ + 1]
  /\ UNCHANGED <<stack, resolved, lock, last, seen, lockedDeps>>

Offers == [p \in Paths |-> {w[p] : w \in Worlds}]

Edit(p) ==
  /\ Happens("edit")
  /\ \E m \in Offers[p] \ {manifests[p]} : manifests' = [manifests EXCEPT ![p] = m]
  /\ UNCHANGED <<heads, cache, torn>>

MoveBranch(u, b) ==
  /\ Happens("move")
  /\ \E r \in Revs \ {heads[u][b]} : heads' = [heads EXCEPT ![u][b] = r]
  /\ UNCHANGED <<manifests, cache, torn>>

\* tyra mod clean, between two syncs; PkgCache has the races.  It goes slot by
\* slot, and may be stopped in one of them.
Clean ==
  /\ last # "running"
  /\ Happens("clean")
  /\ \/ cache' = {} /\ hollow' = {} /\ wrecks' = {}
     \/ \E slot \in cache \cup hollow : \E gone \in SUBSET ((cache \cup hollow \cup wrecks) \ {slot}) :
          /\ cache' = cache \ (gone \cup {slot})
          /\ \/ hollow' = (hollow \ gone) \cup {slot}   /\ wrecks' = wrecks \ gone
             \/ hollow' = hollow \ (gone \cup {slot})   /\ wrecks' = (wrecks \ gone) \cup {slot}
  /\ UNCHANGED <<manifests, heads>>

Next == \/ Sync
        \/ \E p \in Paths : Edit(p)
        \/ \E u \in Urls, b \in Branches : MoveBranch(u, b)
        \/ Clean

Spec == Init /\ [][Next]_vars

-----------------------------------------------------------------------------
(* The two judges of a project: functions of its manifests, its lock and   *)
(* the cache.                                                              *)

DepsOf(t) == {<<n, manifests[t][n]>> : n \in {n \in Names : manifests[t][n] # None}}
Direct    == DepsOf(Root)

\* Everything that can be reached from start: the least set that is closed.
Closure(start, next) ==
  LET Closed == {S \in SUBSET Trees : start \subseteq S /\ \A t \in S : next[t] \subseteq S}
  IN  {t \in Trees : \A S \in Closed : t \in S}

\* collect_path_dep_sources: the directories reached by path dependencies only.
PathsOf(t) == {d[2].source : d \in DepsOf(t)} \cap Paths
LivePaths  == Closure(PathsOf(Root), [t \in Trees |-> PathsOf(t)])

Locked == {s \in DOMAIN lock : lock[s] # None}

\* --locked looks for the slot's Tyra.toml only.
IsCached(s) == <<lock[s].name, s, lock[s].rev>> \in cache \cup hollow

\* run_sync_locked, on the direct dependencies: the lock has the source, at the
\* same rev or branch, by the same kind of constraint, under the same name.
Agrees_RevOrBranch(n, dep) ==
  /\ lock[dep.source] # None
  /\ dep.rev # None => lock[dep.source].rev = dep.rev
  /\ dep.branch # None => lock[dep.source].branch = dep.branch
  /\ lock[dep.source].name = n
  /\ dep.source \in Paths => Package[dep.source] = n

Agrees(n, dep) ==
  /\ lock[dep.source] # None
  /\ dep.rev # None => lock[dep.source].rev = dep.rev /\ lock[dep.source].branch = None
  /\ dep.branch # None => lock[dep.source].branch = dep.branch
  /\ lock[dep.source].name = n
  /\ dep.source \in Paths => Package[dep.source] = n

\* ... then on the whole lock.
AcceptsLocked_NotTheCache ==
  /\ lock # None
  /\ \A d \in Direct : Agrees(d[1], d[2])
  /\ Locked \cap Paths = LivePaths

AcceptsLocked ==
  /\ lock # None
  /\ \A d \in Direct : Agrees(d[1], d[2])
  /\ Locked \cap Paths = LivePaths
  /\ \A s \in Locked : IF s \in Urls THEN IsCached(s) ELSE Package[s] = lock[s].name

PassesCheck_AsksTheRemote ==
  \A d \in Direct :
    LET n == d[1] dep == d[2] IN
    IF dep.source \in Paths THEN Package[dep.source] = n
    ELSE IF dep.rev # None THEN <<n, dep.source, dep.rev>> \in cache
    ELSE <<n, dep.source, heads[dep.source][dep.branch]>> \in cache

PassesCheck_TomlOnly ==
  \A d \in Direct :
    LET n == d[1] dep == d[2] IN
    IF dep.source \in Paths THEN Package[dep.source] = n
    ELSE IF dep.rev # None THEN <<n, dep.source, dep.rev>> \in cache \cup hollow
    ELSE IF lock = None THEN FALSE
    ELSE lock[dep.source] # None /\ <<n, dep.source, lock[dep.source].rev>> \in cache \cup hollow

\* run_sync_check, on the direct dependencies: validate_dep_root must pass, on a
\* slot of the cache too.
PassesCheck ==
  \A d \in Direct :
    LET n == d[1] dep == d[2] IN
    IF dep.source \in Paths THEN Package[dep.source] = n
    ELSE IF dep.rev # None THEN <<n, dep.source, dep.rev>> \in cache
    ELSE IF lock = None THEN FALSE
    ELSE lock[dep.source] # None /\ <<n, dep.source, lock[dep.source].rev>> \in cache

-----------------------------------------------------------------------------

\* The reference: what a project depends on, whatever the order it is found in.
TreeOf(dep) == IF dep.source \in Paths THEN dep.source
               ELSE <<dep.source, IF dep.branch = None THEN dep.rev ELSE heads[dep.source][dep.branch]>>
Reached == Closure({Root}, [t \in Trees |-> {TreeOf(d[2]) : d \in DepsOf(t)}])
Edges   == UNION {DepsOf(t) : t \in Reached}

\* A name has one source, a source has one name and one constraint, and every
\* tree is a valid package of that name.
Consistent(edges) ==
  /\ \A e, f \in edges : (e[1] = f[1] \/ e[2].source = f[2].source) => e = f
  /\ \A e \in edges : Package[TreeOf(e[2])] = e[1]

WantedLock(edges) ==
  [s \in Paths \cup Urls |->
     IF \E e \in edges : e[2].source = s
       THEN LET e == CHOOSE e \in edges : e[2].source = s IN
            [name   |-> e[1],
             rev    |-> IF s \in Paths THEN None ELSE TreeOf(e[2])[2],
             branch |-> e[2].branch]
       ELSE None]

\* A sync that nothing disturbs succeeds exactly on the consistent projects,
\* and locks exactly what the project depends on, in whatever order the names
\* of its manifests make it walk; cycles included.
SyncOutcomeIsRight ==
  drift \cap {"edit", "move"} = {} =>
    /\ last = "synced"   => LET E == Edges IN Consistent(E) /\ lock = WantedLock(E)
    /\ last = "rejected" => LET E == Edges IN ~Consistent(E)

\* Even when manifests and branches change under the walk, a lock gives every
\* dependency the walk has met what its manifest asked for, and no import name
\* two packages.
LockHonoursAll ==
  lock # None =>
    /\ \A e \in lockedDeps :
         /\ lock[e[2].source] # None
         /\ lock[e[2].source].name = e[1] /\ lock[e[2].source].branch = e[2].branch
         /\ e[2].rev # None => lock[e[2].source].rev = e[2].rev
    /\ \A s, t \in Locked : lock[s].name = lock[t].name => s = t

GitTreesHavePaths == \E s \in Locked \cap Urls : PathsOf(<<s, lock[s].rev>>) # {}

\* Right after a sync, --locked and --check accept the project, even when the
\* branches have moved on, unless a git dependency has a path dependency.
FreshLockIsGood ==
  last = "synced" /\ drift \subseteq {"move"} =>
    PassesCheck /\ (GitTreesHavePaths \/ AcceptsLocked)

\* Once edited, a project passes --locked only if each of its dependencies is
\* one the lock was written for, constraint included, and the directories it
\* reaches are those of the lock's.
EditsAreNoticed ==
  lock # None /\ AcceptsLocked =>
    Direct \subseteq lockedDeps /\ LivePaths = {e[2].source : e \in lockedDeps} \cap Paths

\* What --locked accepts, --check refuses exactly when a clean was stopped in the
\* slot of a direct dependency and left its Tyra.toml: only --check looks further.
IsHollow(d) == d[2].source \in Urls /\ <<d[1], d[2].source, lock[d[2].source].rev>> \in hollow
LockedThenChecked ==
  lock # None /\ AcceptsLocked => (PassesCheck <=> ~\E d \in Direct : IsHollow(d))

\* What --locked and --check say of a lock: they accept a fresh one, --locked
\* notices an edit, and accepts what --check refuses for one reason only.  Each
\* of the three commands walks the graph in its own way.
LockIsJudgedRightly == FreshLockIsGood /\ EditsAreNoticed /\ LockedThenChecked
=============================================================================
