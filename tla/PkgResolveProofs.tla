-------------------------- MODULE PkgResolveProofs --------------------------
(***************************************************************************)
(* Proofs about the dependency resolver, for any names, trees, manifests   *)
(* and packages, and any number of syncs and of events outside.            *)
(***************************************************************************)
EXTENDS PkgResolve, TLAPS

Sources == Paths \cup Urls
Frames  == [deps : Manifests, rest : Seq(Names)]
Ends    == {"none", "running", "rejected", "aborted", "synced"}

TypeInv ==
  /\ manifests  \in [Trees -> Manifests]
  /\ heads      \in [Urls -> [Branches -> Revs]]
  /\ stack      \in Seq(Frames)
  /\ resolved   \in Locks
  /\ lock       \in Locks \cup {None}
  /\ last       \in Ends
  /\ drift      \subseteq {"edit", "move", "clean"}
  /\ seen       \subseteq (Names \X Deps)
  /\ lockedDeps \subseteq (Names \X Deps)
  /\ count      \in [syncs : Nat, outside : Nat]

-----------------------------------------------------------------------------
(* What an entry of a lock says of a dependency, and of a tree.            *)

\* The entry of e's source in r is what e asks for.
Honours(r, e) ==
  /\ r[e[2].source] # None
  /\ r[e[2].source].name = e[1] /\ r[e[2].source].branch = e[2].branch
  /\ e[2].rev # None => r[e[2].source].rev = e[2].rev

Has(r)       == {s \in Sources : r[s] # None}
TreeIn(r, s) == IF s \in Paths THEN s ELSE <<s, r[s].rev>>
Entered(r)   == {Root} \cup {TreeIn(r, s) : s \in Has(r)}

\* A set of dependencies and the lock it makes, whoever asked for them.
Matches(r, deps) ==
  /\ \A e \in deps : Honours(r, e)
  /\ \A s \in Has(r) : \E e \in deps : e[2].source = s
  /\ \A s, t \in Has(r) : r[s].name = r[t].name => s = t
  /\ \A s \in Has(r) : Package[TreeIn(r, s)] = r[s].name
  /\ \A s \in Has(r) : IF s \in Paths THEN r[s].rev = None ELSE r[s].rev # None

\* Branches are where the entries say they were.
UpToDate(r) == \A s \in Has(r) \cap Urls : r[s].branch # None => r[s].rev = heads[s][r[s].branch]

HasGitPaths(r) == \E s \in Has(r) \cap Urls : PathsOf(<<s, r[s].rev>>) # {}

Still(what) == drift \cap what = {}

\* While the walk runs, or has come to its end.
Walked == last \in {"running", "synced"}

\* A name of the manifest m is still to come, and the manifests entered and not left.
Pending(st, m, n) == \E i \in DOMAIN st : st[i].deps = m /\ \E j \in DOMAIN st[i].rest : st[i].rest[j] = n
Open(st)          == {st[i].deps : i \in DOMAIN st}

\* Every dependency of a manifest that was entered has been met, or will be.
Covered ==
  \A t \in Entered(resolved) : \A n \in Names :
    manifests[t][n] # None => <<n, manifests[t][n]>> \in seen \/ Pending(stack, manifests[t], n)

FramesAreEntered == Open(stack) \subseteq {manifests[t] : t \in Entered(resolved)}

\* What the walk has found, as long as nobody edits a manifest.
PathsAreLive == \A p \in Has(resolved) \cap Paths : p \in LivePaths \/ HasGitPaths(resolved)

\* ... or moves a branch.
NothingElse == seen \subseteq Edges /\ Entered(resolved) \subseteq Reached /\ UpToDate(resolved)

WalkInv ==
  Walked =>
    /\ Matches(resolved, seen)
    /\ Still({"edit"}) => Covered /\ FramesAreEntered /\ PathsAreLive
    /\ Still({"clean"}) => \A s \in Has(resolved) \cap Urls : <<resolved[s].name, s, resolved[s].rev>> \in cache
    /\ Still({"edit", "move"}) => NothingElse

EndInv ==
  /\ last = "synced" => stack = <<>> /\ lock = resolved /\ lockedDeps = seen
  /\ last = "rejected" /\ Still({"edit", "move"}) => ~Consistent(Edges)

LockInv == lock # None => Matches(lock, lockedDeps)

\* A slot is whole or it is not.
Apart == cache \cap hollow = {}

IInv == TypeInv /\ WalkInv /\ EndInv /\ LockInv /\ Apart

-----------------------------------------------------------------------------
(* Dependencies, trees and what can be reached.                            *)

LEMMA DepFacts ==
  ASSUME NEW d \in Deps
  PROVE  /\ d # None /\ d.source \in Sources
         /\ d.source \in Paths => d.rev = None /\ d.branch = None
         /\ d.source \in Urls => \/ d.rev \in Revs /\ d.rev # None /\ d.branch = None
                                 \/ d.rev = None /\ d.branch \in Branches /\ d.branch # None
         /\ d.source \in Paths => d.source \notin Urls
<1>1. Paths \cap Urls = {}
  BY RootAssumption
<1>2. None \notin Deps /\ None \notin Revs /\ None \notin Branches
  BY NoneAssumption
<1>3. QED
  BY <1>1, <1>2 DEF Deps, Sources

\* Dependencies with the same source and the same constraint are the same.
LEMMA DepsEqual ==
  ASSUME NEW d \in Deps, NEW f \in Deps, d.source = f.source, d.branch = f.branch,
         d.source \in Urls /\ d.branch = None => d.rev = f.rev
  PROVE  d = f
<1>1. d.rev = f.rev
  BY DepFacts DEF Sources
<1>2. /\ d = [source |-> d.source, rev |-> d.rev, branch |-> d.branch]
      /\ f = [source |-> f.source, rev |-> f.rev, branch |-> f.branch]
  BY DEF Deps
<1>3. QED
  BY <1>1, <1>2

LEMMA DepsOfFacts ==
  ASSUME TypeInv, NEW t \in Trees
  PROVE  /\ \A e \in DepsOf(t) : e[1] \in Names /\ e[2] \in Deps /\ manifests[t][e[1]] = e[2] /\ e = <<e[1], e[2]>>
         /\ \A n \in Names : manifests[t][n] # None => <<n, manifests[t][n]>> \in DepsOf(t)
         /\ \A n \in Names : manifests[t][n] \in Deps \cup {None}
<1>1. \A n \in Names : manifests[t][n] \in Deps \cup {None}
  BY DEF TypeInv, Manifests
<1>2. QED
  BY <1>1 DEF DepsOf

LEMMA TreeFacts ==
  ASSUME TypeInv
  PROVE  /\ Root \in Trees
         /\ \A d \in Deps : TreeOf(d) \in Trees
         /\ \A d \in Deps : d.source \in Paths => TreeOf(d) = d.source
         /\ \A d \in Deps : d.source \in Urls =>
              TreeOf(d) = <<d.source, IF d.branch = None THEN d.rev ELSE heads[d.source][d.branch]>>
<1>1. Paths \cap Urls = {} /\ Root \in Paths
  BY RootAssumption
<1>2. ASSUME NEW d \in Deps, d.source \in Urls
      PROVE  (IF d.branch = None THEN d.rev ELSE heads[d.source][d.branch]) \in Revs
  BY <1>2, DepFacts DEF TypeInv
<1>3. ASSUME NEW d \in Deps
      PROVE  d.source \in Paths \/ d.source \in Urls
  BY DepFacts DEF Sources
<1>4. QED
  BY <1>1, <1>2, <1>3 DEF TreeOf, Trees

\* A closure has its start, is closed, and is in every such set.
LEMMA ClosureHolds ==
  ASSUME NEW start, start \subseteq Trees, NEW next, \A t \in Trees : next[t] \subseteq Trees
  PROVE  /\ start \subseteq Closure(start, next) /\ Closure(start, next) \subseteq Trees
         /\ \A t \in Closure(start, next) : next[t] \subseteq Closure(start, next)
BY DEF Closure

LEMMA ClosureLeast ==
  ASSUME NEW start, NEW next, NEW S, S \subseteq Trees, start \subseteq S, \A t \in S : next[t] \subseteq S
  PROVE  Closure(start, next) \subseteq S
BY DEF Closure

LEMMA ReachedHolds ==
  ASSUME TypeInv
  PROVE  /\ Root \in Reached /\ Reached \subseteq Trees
         /\ \A t \in Reached : \A e \in DepsOf(t) : TreeOf(e[2]) \in Reached
<1> DEFINE next == [t \in Trees |-> {TreeOf(d[2]) : d \in DepsOf(t)}]
<1>1. \A t \in Trees : next[t] = {TreeOf(d[2]) : d \in DepsOf(t)}
  OBVIOUS
<1>2. \A t \in Trees : next[t] \subseteq Trees
  BY TreeFacts, DepsOfFacts
<1>3. {Root} \subseteq Trees /\ Reached = Closure({Root}, next)
  BY TreeFacts DEF Reached
<1> HIDE DEF next
<1>4. {Root} \subseteq Reached /\ Reached \subseteq Trees /\ \A t \in Reached : next[t] \subseteq Reached
  BY <1>2, <1>3, ClosureHolds
<1>5. \A t \in Trees : \A e \in DepsOf(t) : TreeOf(e[2]) \in next[t]
  BY <1>1
<1>6. QED
  BY <1>4, <1>5

LEMMA ReachedLeast ==
  ASSUME NEW S, S \subseteq Trees, Root \in S, \A t \in S : \A e \in DepsOf(t) : TreeOf(e[2]) \in S
  PROVE  Reached \subseteq S
<1> DEFINE next == [t \in Trees |-> {TreeOf(d[2]) : d \in DepsOf(t)}]
<1>1. \A t \in S : next[t] \subseteq S
  OBVIOUS
<1>2. Reached = Closure({Root}, next) /\ {Root} \subseteq S
  BY DEF Reached
<1> HIDE DEF next
<1>3. QED
  BY <1>1, <1>2, ClosureLeast

LEMMA LiveHolds ==
  ASSUME TypeInv
  PROVE  /\ PathsOf(Root) \subseteq LivePaths /\ LivePaths \subseteq Trees
         /\ \A t \in LivePaths : PathsOf(t) \subseteq LivePaths
<1> DEFINE next == [t \in Trees |-> PathsOf(t)]
<1>1. \A t : PathsOf(t) \subseteq Trees
  BY DEF PathsOf, Trees
<1>2. (\A t \in Trees : next[t] = PathsOf(t)) /\ LivePaths = Closure(PathsOf(Root), next)
  BY DEF LivePaths
<1> HIDE DEF next
<1>3. QED
  BY <1>1, <1>2, ClosureHolds

LEMMA LiveLeast ==
  ASSUME NEW S, S \subseteq Trees, PathsOf(Root) \subseteq S, \A t \in S : PathsOf(t) \subseteq S
  PROVE  LivePaths \subseteq S
<1> DEFINE next == [t \in Trees |-> PathsOf(t)]
<1>1. (\A t \in S : next[t] \subseteq S) /\ LivePaths = Closure(PathsOf(Root), next)
  BY DEF LivePaths
<1> HIDE DEF next
<1>2. QED
  BY <1>1, ClosureLeast

-----------------------------------------------------------------------------
(* The walk is at a dependency.                                            *)

\* The stack below a manifest from which one name has been taken.
LEMMA StackFacts ==
  ASSUME TypeInv, Working, Top.rest # <<>>
  PROVE  /\ stack # <<>> /\ Top \in Frames /\ NextName \in Names /\ NextDep \in Deps \cup {None}
         /\ NextDep = Top.deps[NextName] /\ Top.deps \in Open(stack)
         /\ Below \in Seq(Frames) /\ Open(Below) = Open(stack)
         /\ \A m, n : Pending(stack, m, n) => Pending(Below, m, n) \/ (m = Top.deps /\ n = NextName)
<1>1. stack \in Seq(Frames) /\ stack # <<>>
  BY DEF TypeInv, Working
<1>2. Top \in Frames /\ Top = stack[1] /\ 1 \in DOMAIN stack
  BY <1>1 DEF Top
<1>3. PICK r \in Seq(Names) : r = Top.rest /\ r # <<>>
  BY <1>2 DEF Frames
<1>4. NextName \in Names /\ NextName = r[1] /\ Tail(r) \in Seq(Names) /\ Len(Tail(r)) = Len(r) - 1
      /\ \A j \in 2 .. Len(r) : j - 1 \in DOMAIN Tail(r) /\ Tail(r)[j - 1] = r[j]
  BY <1>3 DEF NextName
<1>5. NextDep \in Deps \cup {None}
  BY <1>2, <1>4 DEF NextDep, Frames, Manifests
<1>6. PICK f \in Frames : f = [Top EXCEPT !.rest = Tail(@)] /\ f.deps = Top.deps /\ f.rest = Tail(r)
  <2>1. PICK m \in Manifests : Top = [deps |-> m, rest |-> r]
    BY <1>2, <1>3 DEF Frames
  <2>2. PICK o \in Seq(Names) : o = Tail(r)
    BY <1>4
  <2>3. [deps |-> m, rest |-> o] \in Frames
    BY DEF Frames
  <2>4. [Top EXCEPT !.rest = Tail(@)] = [deps |-> m, rest |-> o]
    <3>1. \A p, q, s : [[deps |-> p, rest |-> q] EXCEPT !.rest = s] = [deps |-> p, rest |-> s]
      OBVIOUS
    <3>2. [Top EXCEPT !.rest = Tail(@)] = [[deps |-> m, rest |-> r] EXCEPT !.rest = o]
      BY <2>1, <2>2, Zenon
    <3>3. QED
      BY <3>1, <3>2
  <2>5. QED
    BY <2>1, <2>2, <2>3, <2>4
<1>7. Below = <<f>> \o Tail(stack)
  BY <1>6 DEF Below
<1>8. /\ Below \in Seq(Frames) /\ DOMAIN Below = DOMAIN stack /\ Below[1] = f
      /\ \A i \in DOMAIN stack : i # 1 => Below[i] = stack[i]
  BY <1>1, <1>7
<1>9. \A i \in DOMAIN stack : Below[i].deps = stack[i].deps
  BY <1>2, <1>6, <1>8
<1>10. ASSUME NEW m, NEW n, Pending(stack, m, n)
       PROVE  Pending(Below, m, n) \/ (m = Top.deps /\ n = NextName)
  <2>1. PICK i \in DOMAIN stack : stack[i].deps = m /\ \E j \in DOMAIN stack[i].rest : stack[i].rest[j] = n
    BY <1>10 DEF Pending
  <2>2. CASE i # 1
    BY <1>8, <2>1, <2>2 DEF Pending
  <2>3. CASE i = 1
    <3>1. PICK j \in DOMAIN r : r[j] = n
      BY <1>2, <1>3, <2>1, <2>3
    <3>2. CASE j = 1
      BY <1>2, <1>4, <2>1, <2>3, <3>1, <3>2
    <3>3. CASE j # 1
      <4>1. j - 1 \in DOMAIN Tail(r) /\ Tail(r)[j - 1] = n
        BY <1>3, <1>4, <3>1, <3>3
      <4>2. f.deps = m /\ \E k \in DOMAIN f.rest : f.rest[k] = n
        BY <1>2, <1>6, <2>1, <2>3, <4>1
      <4>3. QED
        BY <1>2, <1>8, <4>2 DEF Pending
    <3>4. QED
      BY <3>2, <3>3
  <2>4. QED
    BY <2>2, <2>3
<1>11. QED
  BY <1>1, <1>2, <1>4, <1>5, <1>8, <1>9, <1>10 DEF Open, NextDep

\* A manifest that is entered.
LEMMA PushFacts ==
  ASSUME TypeInv, NEW t \in Trees, NEW st \in Seq(Frames)
  PROVE  /\ Frame(t) \in Frames /\ <<Frame(t)>> \o st \in Seq(Frames)
         /\ Open(<<Frame(t)>> \o st) = Open(st) \cup {manifests[t]}
         /\ \A m, n : Pending(st, m, n) => Pending(<<Frame(t)>> \o st, m, n)
         /\ \A n \in Names : Pending(<<Frame(t)>> \o st, manifests[t], n)
<1>1. PICK f \in Frames : f = Frame(t) /\ f.deps = manifests[t] /\ f.rest = NameOrder
  <2>1. PICK m \in Manifests : m = manifests[t]
    BY DEF TypeInv
  <2>2. PICK o \in Seq(Names) : o = NameOrder
    BY NamesAssumption
  <2>3. [deps |-> m, rest |-> o] \in Frames /\ Frame(t) = [deps |-> m, rest |-> o]
    BY <2>1, <2>2 DEF Frame, Frames
  <2>4. QED
    BY <2>1, <2>2, <2>3
<1>2. PICK q : q = <<Frame(t)>> \o st
  OBVIOUS
<1>3. q \in Seq(Frames) /\ q[1] = f /\ 1 \in DOMAIN q /\ Len(q) = Len(st) + 1
      /\ \A i \in DOMAIN st : i + 1 \in DOMAIN q /\ q[i + 1] = st[i]
  BY <1>1, <1>2
<1>4. \A i \in DOMAIN q : i = 1 \/ (i - 1 \in DOMAIN st /\ q[i] = st[i - 1])
  BY <1>3
<1>5. \A n \in Names : \E j \in DOMAIN NameOrder : NameOrder[j] = n
  BY DEF Names, Range
<1>6. Open(q) = Open(st) \cup {manifests[t]}
  BY <1>1, <1>3, <1>4 DEF Open
<1>7. \A m, n : Pending(st, m, n) => Pending(q, m, n)
  BY <1>3 DEF Pending
<1>8. \A n \in Names : Pending(q, manifests[t], n)
  BY <1>1, <1>3, <1>5 DEF Pending
<1>9. QED
  BY <1>1, <1>2, <1>3, <1>6, <1>7, <1>8

\* A manifest that is through.
LEMMA PopFacts ==
  ASSUME TypeInv, stack # <<>>, Top.rest = <<>>
  PROVE  /\ Tail(stack) \in Seq(Frames) /\ Open(Tail(stack)) \subseteq Open(stack)
         /\ \A m, n : Pending(stack, m, n) => Pending(Tail(stack), m, n)
<1>1. stack \in Seq(Frames) /\ stack[1].rest = <<>>
  BY DEF TypeInv, Top
<1>2. /\ Tail(stack) \in Seq(Frames)
      /\ \A i \in DOMAIN stack : i # 1 => i - 1 \in DOMAIN Tail(stack) /\ Tail(stack)[i - 1] = stack[i]
      /\ \A i \in DOMAIN Tail(stack) : i + 1 \in DOMAIN stack /\ Tail(stack)[i] = stack[i + 1]
  BY <1>1
<1>3. Open(Tail(stack)) \subseteq Open(stack)
  BY <1>2 DEF Open
<1>4. \A m, n : Pending(stack, m, n) => Pending(Tail(stack), m, n)
  BY <1>1, <1>2 DEF Pending
<1>5. QED
  BY <1>2, <1>3, <1>4

\* What the walk would write down for the dependency it is at.
LEMMA EntryFacts ==
  ASSUME TypeInv, Working, Top.rest # <<>>, NextDep # None
  PROVE  /\ NextName \in Names /\ NextDep \in Deps /\ NewEntry \in Entries /\ NewEntry # None
         /\ NewEntry.name = NextName /\ NewEntry.branch = NextDep.branch
         /\ NextDep.source \in Paths => NewEntry.rev = None /\ TreeOf(NextDep) = NextDep.source
         /\ NextDep.source \in Urls => /\ WantedRev \in Revs /\ NewEntry.rev = WantedRev /\ WantedRev # None
                                       /\ TreeOf(NextDep) = <<NextDep.source, WantedRev>>
         /\ NextDep.rev # None => NewEntry.rev = NextDep.rev
         /\ NextDep.source \in Urls /\ NextDep.branch # None => NewEntry.rev = heads[NextDep.source][NextDep.branch]
<1>1. NextName \in Names /\ NextDep \in Deps
  BY StackFacts
<1>2. PICK d \in Deps : d = NextDep
  BY <1>1
<1>3. PICK rev : rev = IF d.source \in Paths THEN None ELSE WantedRev
  OBVIOUS
<1>4. WantedRev = IF d.branch = None THEN d.rev ELSE heads[d.source][d.branch]
  BY <1>2 DEF WantedRev
<1>5. d.source \in Urls => WantedRev \in Revs
  BY <1>4, DepFacts DEF TypeInv
<1>6. NewEntry = [name |-> NextName, rev |-> rev, branch |-> d.branch]
  BY <1>2, <1>3 DEF NewEntry
<1>7. rev \in Revs \cup {None} /\ d.branch \in Branches \cup {None}
  BY <1>3, <1>5, DepFacts DEF Sources
<1>8. NewEntry \in Entries /\ NewEntry # None /\ NewEntry.name = NextName /\ NewEntry.branch = d.branch /\ NewEntry.rev = rev
  BY <1>1, <1>6, <1>7, NoneAssumption DEF Entries
<1>9. d.source \in Paths => rev = None /\ d.rev = None /\ TreeOf(d) = d.source
  BY <1>3, DepFacts, TreeFacts
<1>10. d.source \in Urls => rev = WantedRev /\ TreeOf(d) = <<d.source, WantedRev>>
  BY <1>3, <1>4, DepFacts, TreeFacts
<1>11. WantedRev \in Revs => WantedRev # None
  BY NoneAssumption
<1>12. d.source \in Urls /\ d.branch # None => rev = heads[d.source][d.branch]
  BY <1>4, <1>10
<1>13. d.rev # None => rev = d.rev
  BY <1>4, <1>9, <1>10, DepFacts DEF Sources
<1>14. QED
  BY <1>1, <1>2, <1>5, <1>8, <1>9, <1>10, <1>11, <1>12, <1>13

LEMMA LockFacts ==
  ASSUME NEW r \in Locks
  PROVE  /\ \A s \in Sources : r[s] \in Entries \cup {None}
         /\ \A s \in Has(r) : s \in Sources /\ r[s] \in Entries /\ r[s] # None
         /\ \A s \in Sources : s \in Has(r) <=> r[s] # None
BY DEF Locks, Sources, Has

LEMMA EnteredFacts ==
  ASSUME NEW r \in Locks, NEW deps, Matches(r, deps)
  PROVE  Entered(r) \subseteq Trees
<1>1. ASSUME NEW s \in Has(r)
      PROVE  TreeIn(r, s) \in Trees
  <2>1. CASE s \in Paths
    BY <2>1 DEF TreeIn, Trees
  <2>2. CASE s \notin Paths
    <3>1. s \in Urls /\ r[s] \in Entries /\ r[s].rev # None
      BY <2>2, LockFacts DEF Matches, Sources
    <3>2. r[s].rev \in Revs
      BY <3>1 DEF Entries
    <3>3. QED
      BY <2>2, <3>1, <3>2 DEF TreeIn, Trees
  <2>3. QED
    BY <2>1, <2>2
<1>2. QED
  BY <1>1, RootAssumption DEF Entered, Trees

\* The dependency the walk is at is one of a manifest it has entered.
LEMMA MetIsThere ==
  ASSUME TypeInv, WalkInv, Working, Top.rest # <<>>, NextDep # None
  PROVE  /\ Still({"edit"}) => \E t \in Entered(resolved) :
              /\ t \in Trees /\ manifests[t] = Top.deps
              /\ <<NextName, NextDep>> \in DepsOf(t)
         /\ Still({"edit", "move"}) => <<NextName, NextDep>> \in Edges /\ TreeOf(NextDep) \in Reached
<1>1. Matches(resolved, seen) /\ (Still({"edit"}) => FramesAreEntered) /\ (Still({"edit", "move"}) => NothingElse)
  BY DEF WalkInv, Walked, Working
<1>2. Entered(resolved) \subseteq Trees
  BY <1>1, EnteredFacts DEF TypeInv
<1>3. Top.deps \in Open(stack) /\ NextDep = Top.deps[NextName] /\ NextName \in Names
  BY StackFacts
<1>4. ASSUME Still({"edit"})
      PROVE  \E t \in Entered(resolved) : t \in Trees /\ manifests[t] = Top.deps /\ <<NextName, NextDep>> \in DepsOf(t)
  <2>1. PICK t \in Entered(resolved) : manifests[t] = Top.deps
    BY <1>1, <1>3, <1>4 DEF FramesAreEntered
  <2>2. <<NextName, manifests[t][NextName]>> \in DepsOf(t)
    BY <1>2, <1>3, <2>1, DepsOfFacts
  <2>3. QED
    BY <1>2, <1>3, <2>1, <2>2
<1>5. ASSUME Still({"edit", "move"})
      PROVE  <<NextName, NextDep>> \in Edges /\ TreeOf(NextDep) \in Reached
  <2>1. Still({"edit"})
    BY <1>5 DEF Still
  <2>2. PICK t \in Entered(resolved) : <<NextName, NextDep>> \in DepsOf(t)
    BY <1>4, <2>1
  <2>3. t \in Reached
    BY <1>1, <1>5 DEF NothingElse
  <2>4. QED
    BY <2>2, <2>3, ReachedHolds DEF Edges
<1>6. QED
  BY <1>4, <1>5

\* The project is what it was.
LEMMA SameProject ==
  ASSUME manifests' = manifests
  PROVE  /\ LivePaths' = LivePaths /\ \A t : PathsOf(t)' = PathsOf(t) /\ DepsOf(t)' = DepsOf(t)
         /\ heads' = heads => Edges' = Edges /\ Reached' = Reached /\ \A d : TreeOf(d)' = TreeOf(d)
<1>1. \A t : PathsOf(t)' = PathsOf(t) /\ DepsOf(t)' = DepsOf(t)
  BY DEF PathsOf, DepsOf
<1>2. LivePaths' = LivePaths
  BY <1>1 DEF LivePaths
<1>3. ASSUME heads' = heads
      PROVE  Edges' = Edges /\ Reached' = Reached /\ \A d : TreeOf(d)' = TreeOf(d)
  <2>1. \A d : TreeOf(d)' = TreeOf(d)
    BY <1>3 DEF TreeOf
  <2>2. Reached' = Reached
    BY <1>1, <2>1 DEF Reached
  <2>3. Edges' = Edges
    BY <1>1, <2>2 DEF Edges
  <2>4. QED
    BY <2>1, <2>2, <2>3
<1>4. QED
  BY <1>1, <1>2, <1>3

-----------------------------------------------------------------------------
(* What each kind of step makes of the walk.                               *)

\* The walk goes on with the rest of a manifest.
LEMMA GoOnStep ==
  ASSUME TypeInv, WalkInv, Working, Top.rest # <<>>,
         UNCHANGED <<manifests, heads, resolved, last, drift>>, cache \subseteq cache', stack' = Below,
         \/ NextDep = None /\ seen' = seen
         \/ NextDep # None /\ seen' = seen \cup {<<NextName, NextDep>>} /\ Honours(resolved, <<NextName, NextDep>>)
  PROVE  WalkInv'
<1>1. /\ Matches(resolved, seen)
      /\ Still({"edit"}) => Covered /\ FramesAreEntered /\ PathsAreLive
      /\ Still({"clean"}) => \A s \in Has(resolved) \cap Urls : <<resolved[s].name, s, resolved[s].rev>> \in cache
      /\ Still({"edit", "move"}) => NothingElse
  BY DEF WalkInv, Walked, Working
<1>2. Matches(resolved, seen')
  BY <1>1 DEF Matches
<1>3. Matches(resolved, seen)'
  BY <1>2
<1>4. ASSUME Still({"edit"})
      PROVE  Covered' /\ FramesAreEntered' /\ PathsAreLive'
  <2>1. Covered /\ FramesAreEntered /\ PathsAreLive
    BY <1>1, <1>4
  <2>2. Entered(resolved)' = Entered(resolved)
    BY DEF Entered, TreeIn, Has
  <2>3. ASSUME NEW t \in Entered(resolved), NEW n \in Names, manifests[t][n] # None
        PROVE  <<n, manifests[t][n]>> \in seen' \/ Pending(Below, manifests[t], n)
    <3>1. <<n, manifests[t][n]>> \in seen \/ Pending(stack, manifests[t], n)
      BY <2>1, <2>3 DEF Covered
    <3>2. Pending(stack, manifests[t], n) => Pending(Below, manifests[t], n) \/ (manifests[t] = Top.deps /\ n = NextName)
      BY StackFacts
    <3>3. NextDep = Top.deps[NextName]
      BY StackFacts
    <3>4. QED
      BY <2>3, <3>1, <3>2, <3>3
  <2>4. Covered'
    BY <2>2, <2>3 DEF Covered
  <2>5. FramesAreEntered'
    BY <2>1, <2>2, StackFacts DEF FramesAreEntered, Open
  <2>6. PathsAreLive'
    BY <2>1, SameProject DEF PathsAreLive, HasGitPaths, Has
  <2>7. QED
    BY <2>4, <2>5, <2>6
<1>5. ASSUME Still({"edit", "move"})
      PROVE  NothingElse'
  <2>1. NothingElse
    BY <1>1, <1>5
  <2>2. seen' \subseteq Edges
    BY <1>5, <2>1, MetIsThere DEF NothingElse
  <2>3. Entered(resolved)' = Entered(resolved) /\ UpToDate(resolved)' = UpToDate(resolved)
    BY DEF Entered, TreeIn, Has, UpToDate
  <2>4. QED
    BY <2>1, <2>2, <2>3, SameProject DEF NothingElse
<1>6. /\ Still({"edit"})' = Still({"edit"}) /\ Still({"clean"})' = Still({"clean"})
      /\ Still({"edit", "move"})' = Still({"edit", "move"})
  BY DEF Still
<1>7. Still({"clean"})' => (\A s \in Has(resolved) \cap Urls : <<resolved[s].name, s, resolved[s].rev>> \in cache)'
  BY <1>1, <1>6 DEF Has
<1>8. QED
  BY <1>3, <1>4, <1>5, <1>6, <1>7 DEF WalkInv

\* The walk has come to the end of a manifest, or to its own end.
LEMMA ReturnStep ==
  ASSUME TypeInv, WalkInv, Walked, UNCHANGED <<manifests, heads, resolved, drift, seen, cache>>,
         \/ UNCHANGED stack
         \/ stack # <<>> /\ Top.rest = <<>> /\ stack' = Tail(stack)
  PROVE  WalkInv'
<1>1. /\ Matches(resolved, seen)
      /\ Still({"edit"}) => Covered /\ FramesAreEntered /\ PathsAreLive
      /\ Still({"clean"}) => \A s \in Has(resolved) \cap Urls : <<resolved[s].name, s, resolved[s].rev>> \in cache
      /\ Still({"edit", "move"}) => NothingElse
  BY DEF WalkInv
<1>2. Open(stack') \subseteq Open(stack) /\ \A m, n : Pending(stack, m, n) => Pending(stack', m, n)
  BY PopFacts
<1>3. Entered(resolved)' = Entered(resolved) /\ UpToDate(resolved)' = UpToDate(resolved) /\ Has(resolved)' = Has(resolved)
  BY DEF Entered, TreeIn, Has, UpToDate
<1>4. Matches(resolved, seen)'
  BY <1>1
<1>5. ASSUME Still({"edit"})
      PROVE  Covered' /\ FramesAreEntered' /\ PathsAreLive'
  <2>1. Covered'
    BY <1>1, <1>2, <1>3, <1>5 DEF Covered
  <2>2. FramesAreEntered'
    BY <1>1, <1>2, <1>3, <1>5 DEF FramesAreEntered
  <2>3. PathsAreLive'
    BY <1>1, <1>5, SameProject DEF PathsAreLive, HasGitPaths, Has
  <2>4. QED
    BY <2>1, <2>2, <2>3
<1>6. ASSUME Still({"edit", "move"})
      PROVE  NothingElse'
  BY <1>1, <1>3, <1>6, SameProject DEF NothingElse
<1>7. /\ Still({"edit"})' = Still({"edit"}) /\ Still({"clean"})' = Still({"clean"})
      /\ Still({"edit", "move"})' = Still({"edit", "move"})
  BY DEF Still
<1>8. QED
  BY <1>1, <1>3, <1>4, <1>5, <1>6, <1>7 DEF WalkInv

\* A dependency met for the first time is written down and entered.
LEMMA EnterStep ==
  ASSUME TypeInv, WalkInv, Working, Top.rest # <<>>, NextDep # None,
         UNCHANGED <<manifests, heads, last, drift>>, cache \subseteq cache',
         NextDep.source \in Urls => <<NextName, NextDep.source, WantedRev>> \in cache',
         seen' = seen \cup {<<NextName, NextDep>>},
         resolved[NextDep.source] = None, ~NameTaken, Package[TreeOf(NextDep)] = NextName,
         resolved' = [resolved EXCEPT ![NextDep.source] = NewEntry],
         stack' = <<Frame(TreeOf(NextDep))>> \o Below
  PROVE  WalkInv'
<1> DEFINE new  == NextDep.source
           tree == TreeOf(NextDep)
           e    == <<NextName, NextDep>>
<1>1. /\ Matches(resolved, seen)
      /\ Still({"edit"}) => Covered /\ FramesAreEntered /\ PathsAreLive
      /\ Still({"clean"}) => \A s \in Has(resolved) \cap Urls : <<resolved[s].name, s, resolved[s].rev>> \in cache
      /\ Still({"edit", "move"}) => NothingElse
  BY DEF WalkInv, Walked, Working
<1>2. /\ NextName \in Names /\ NextDep \in Deps /\ NewEntry \in Entries /\ NewEntry # None
      /\ NewEntry.name = NextName /\ NewEntry.branch = NextDep.branch
      /\ new \in Paths => NewEntry.rev = None /\ tree = new
      /\ new \in Urls => WantedRev \in Revs /\ NewEntry.rev = WantedRev /\ WantedRev # None /\ tree = <<new, WantedRev>>
      /\ NextDep.rev # None => NewEntry.rev = NextDep.rev
      /\ new \in Urls /\ NextDep.branch # None => NewEntry.rev = heads[new][NextDep.branch]
  BY EntryFacts
<1>3. new \in Sources /\ tree \in Trees /\ (new \in Paths => new \notin Urls) /\ (new \notin Paths => new \in Urls)
  BY <1>2, DepFacts, TreeFacts DEF Sources
<1> HIDE DEF new, tree
<1>4. /\ resolved \in Locks /\ DOMAIN resolved = Sources
      /\ resolved'[new] = NewEntry /\ \A s \in Sources : s # new => resolved'[s] = resolved[s]
  BY <1>3 DEF TypeInv, Locks, new, Sources
<1>5. Has(resolved') = Has(resolved) \cup {new} /\ new \notin Has(resolved)
  BY <1>2, <1>3, <1>4 DEF Has, new
<1>6. \A s \in Has(resolved) : resolved'[s] = resolved[s] /\ TreeIn(resolved', s) = TreeIn(resolved, s)
  BY <1>4, <1>5 DEF TreeIn, Has
<1>7. TreeIn(resolved', new) = tree
  BY <1>2, <1>3, <1>4 DEF TreeIn
<1>8. Entered(resolved') = Entered(resolved) \cup {tree}
  <2>1. \A s \in Has(resolved) : TreeIn(resolved', s) \in Entered(resolved) /\ TreeIn(resolved, s) \in Entered(resolved')
    BY <1>5, <1>6 DEF Entered
  <2>2. tree \in Entered(resolved')
    BY <1>5, <1>7 DEF Entered
  <2>3. \A t \in Entered(resolved') : t \in Entered(resolved) \cup {tree}
    BY <1>5, <1>7, <2>1 DEF Entered
  <2>4. \A t \in Entered(resolved) : t \in Entered(resolved')
    BY <2>1 DEF Entered
  <2>5. QED
    BY <2>2, <2>3, <2>4
<1>9. \A s \in Has(resolved) : resolved[s].name # NextName
  BY <1>4 DEF NameTaken, Has
<1>10. Matches(resolved', seen')
  <2>1. ASSUME NEW f \in seen'
        PROVE  Honours(resolved', f)
    <3>1. CASE f \in seen
      <4>1. Honours(resolved, f) /\ f[2].source \in Sources
        BY <1>1, <3>1, DepFacts DEF Matches, TypeInv
      <4>2. f[2].source \in Has(resolved)
        BY <4>1 DEF Honours, Has
      <4>3. QED
        BY <1>6, <4>1, <4>2 DEF Honours
    <3>2. CASE f = e
      <4>1. f[1] = NextName /\ f[2] = NextDep
        BY <3>2
      <4>2. QED
        BY <1>2, <1>4, <4>1 DEF Honours, new
    <3>3. QED
      BY <2>1, <3>1, <3>2
  <2>2. \A s \in Has(resolved') : \E f \in seen' : f[2].source = s
    <3>1. \A s \in Has(resolved) : \E f \in seen' : f[2].source = s
      BY <1>1 DEF Matches
    <3>2. e \in seen' /\ e[2].source = new
      BY DEF new
    <3>3. QED
      BY <1>5, <3>1, <3>2
  <2>3. \A s, t \in Has(resolved') : resolved'[s].name = resolved'[t].name => s = t
    BY <1>1, <1>2, <1>4, <1>5, <1>6, <1>9 DEF Matches
  <2>4. \A s \in Has(resolved') : Package[TreeIn(resolved', s)] = resolved'[s].name
    <3>1. \A s \in Has(resolved) : Package[TreeIn(resolved', s)] = resolved'[s].name
      BY <1>1, <1>6 DEF Matches
    <3>2. Package[TreeIn(resolved', new)] = resolved'[new].name
      <4>1. Package[tree] = NextName
        BY DEF tree
      <4>2. QED
        BY <1>2, <1>4, <1>7, <4>1
    <3>3. QED
      BY <1>5, <3>1, <3>2
  <2>5. \A s \in Has(resolved') : IF s \in Paths THEN resolved'[s].rev = None ELSE resolved'[s].rev # None
    BY <1>1, <1>2, <1>3, <1>4, <1>5, <1>6 DEF Matches
  <2>6. QED
    BY <2>1, <2>2, <2>3, <2>4, <2>5 DEF Matches
<1>11. Matches(resolved, seen)'
  BY <1>10
<1>12. ASSUME Still({"edit"})
       PROVE  Covered' /\ FramesAreEntered' /\ PathsAreLive'
  <2>1. Covered /\ FramesAreEntered /\ PathsAreLive
    BY <1>1, <1>12
  <2>2. /\ Below \in Seq(Frames) /\ Open(Below) = Open(stack) /\ NextDep = Top.deps[NextName]
        /\ \A m, n : Pending(stack, m, n) => Pending(Below, m, n) \/ (m = Top.deps /\ n = NextName)
    BY StackFacts
  <2>3. /\ Open(stack') = Open(Below) \cup {manifests[tree]}
        /\ \A m, n : Pending(Below, m, n) => Pending(stack', m, n)
        /\ \A n \in Names : Pending(stack', manifests[tree], n)
    BY <1>3, <2>2, PushFacts DEF tree
  <2>4. ASSUME NEW t \in Entered(resolved'), NEW n \in Names, manifests[t][n] # None
        PROVE  <<n, manifests[t][n]>> \in seen' \/ Pending(stack', manifests[t], n)
    <3>1. CASE t = tree
      BY <2>3, <3>1
    <3>2. CASE t \in Entered(resolved)
      <4>1. <<n, manifests[t][n]>> \in seen \/ Pending(stack, manifests[t], n)
        BY <2>1, <2>4, <3>2 DEF Covered
      <4>2. QED
        BY <2>2, <2>3, <4>1
    <3>3. QED
      BY <1>8, <2>4, <3>1, <3>2
  <2>5. Covered'
    BY <2>4 DEF Covered
  <2>6. FramesAreEntered'
    BY <1>8, <2>1, <2>2, <2>3 DEF FramesAreEntered
  <2>7. HasGitPaths(resolved) => HasGitPaths(resolved')
    BY <1>5, <1>6 DEF HasGitPaths
  <2>8. ASSUME new \in Paths
        PROVE  new \in LivePaths \/ HasGitPaths(resolved')
    <3>1. PICK t \in Entered(resolved) : t \in Trees /\ e \in DepsOf(t)
      BY <1>12, MetIsThere
    <3>2. new \in PathsOf(t)
      BY <2>8, <3>1 DEF PathsOf, new
    <3>3. CASE t = Root
      BY <3>2, <3>3, LiveHolds
    <3>4. ASSUME NEW s \in Has(resolved), t = TreeIn(resolved, s)
          PROVE  new \in LivePaths \/ HasGitPaths(resolved')
      <4>1. CASE s \in Paths
        <5>1. t = s /\ (s \in LivePaths \/ HasGitPaths(resolved))
          BY <2>1, <3>4, <4>1 DEF TreeIn, PathsAreLive
        <5>2. QED
          BY <2>7, <3>2, <5>1, LiveHolds
      <4>2. CASE s \notin Paths
        <5>1. s \in Urls /\ t = <<s, resolved[s].rev>>
          BY <3>4, <4>2 DEF TreeIn, Has, Sources
        <5>2. HasGitPaths(resolved)
          BY <3>2, <5>1 DEF HasGitPaths
        <5>3. QED
          BY <2>7, <5>2
      <4>3. QED
        BY <4>1, <4>2
    <3>5. QED
      BY <3>1, <3>3, <3>4 DEF Entered
  <2>9. \A p \in Has(resolved') \cap Paths : p \in LivePaths \/ HasGitPaths(resolved')
    BY <1>5, <2>1, <2>7, <2>8 DEF PathsAreLive
  <2>10. HasGitPaths(resolved)' = HasGitPaths(resolved')
    BY SameProject DEF HasGitPaths
  <2>11. PathsAreLive'
    BY <2>9, <2>10, SameProject DEF PathsAreLive
  <2>12. QED
    BY <2>5, <2>6, <2>11
<1>13. ASSUME Still({"edit", "move"})
       PROVE  NothingElse'
  <2>1. NothingElse /\ e \in Edges /\ tree \in Reached
    BY <1>1, <1>13, MetIsThere DEF tree
  <2>2. seen' \subseteq Edges /\ Entered(resolved') \subseteq Reached
    BY <1>8, <2>1 DEF NothingElse
  <2>3. UpToDate(resolved')
    BY <1>2, <1>4, <1>5, <1>6, <2>1 DEF UpToDate, NothingElse
  <2>4. UpToDate(resolved)' = UpToDate(resolved')
    BY DEF UpToDate
  <2>5. QED
    BY <2>2, <2>3, <2>4, SameProject DEF NothingElse
<1>14. ASSUME Still({"clean"}), NEW s \in Has(resolved') \cap Urls
       PROVE  <<resolved'[s].name, s, resolved'[s].rev>> \in cache'
  <2>1. CASE s = new
    BY <1>2, <1>4, <2>1 DEF new
  <2>2. CASE s \in Has(resolved)
    BY <1>1, <1>6, <1>14, <2>2
  <2>3. QED
    BY <1>5, <2>1, <2>2
<1>15. /\ Still({"edit"})' = Still({"edit"}) /\ Still({"clean"})' = Still({"clean"})
       /\ Still({"edit", "move"})' = Still({"edit", "move"})
  BY DEF Still
<1>16. QED
  BY <1>11, <1>12, <1>13, <1>14, <1>15 DEF WalkInv

\* Every step keeps what the walk has found right.
LEMMA WalkStep ==
  ASSUME TypeInv, WalkInv, EndInv, [Next]_vars
  PROVE  WalkInv'
<1>1. ASSUME last' \notin {"running", "synced"}
      PROVE  WalkInv'
  BY <1>1 DEF WalkInv, Walked
<1>2. CASE UNCHANGED vars
  <2>1. Walked => UNCHANGED <<manifests, heads, resolved, drift, seen, cache, stack>>
    BY <1>2 DEF vars
  <2>2. Walked' = Walked
    BY <1>2 DEF vars, Walked
  <2>3. QED
    BY <2>1, <2>2, ReturnStep DEF WalkInv
<1>3. CASE SyncBegin
  <2>1. /\ UNCHANGED <<manifests, heads, cache>> /\ stack' = <<Frame(Root)>> /\ resolved' = Unresolved
        /\ seen' = {} /\ drift' = {}
    BY <1>3 DEF SyncBegin
  <2>2. Has(resolved') = {}
    BY <2>1 DEF Has, Unresolved, Sources
  <2>3. Entered(resolved') = {Root}
    BY <2>2 DEF Entered
  <2>4. Root \in Trees
    BY TreeFacts
  <2>5. /\ Open(stack') = {manifests[Root]}
        /\ \A n \in Names : Pending(stack', manifests[Root], n)
    <3>1. <<>> \in Seq(Frames)
      OBVIOUS
    <3>2. PICK st \in Seq(Frames) : st = <<>>
      BY <3>1
    <3>3. /\ Open(<<Frame(Root)>> \o st) = Open(st) \cup {manifests[Root]}
          /\ \A n \in Names : Pending(<<Frame(Root)>> \o st, manifests[Root], n)
      BY <2>4, PushFacts
    <3>4. stack' = <<Frame(Root)>> \o st /\ Open(st) = {}
      BY <2>1, <3>2 DEF Open
    <3>5. QED
      BY <3>3, <3>4
  <2>6. Covered'
    BY <2>1, <2>3, <2>5 DEF Covered
  <2>7. FramesAreEntered'
    BY <2>1, <2>3, <2>5 DEF FramesAreEntered
  <2>8. PathsAreLive'
    BY <2>2 DEF PathsAreLive
  <2>9. NothingElse'
    <3>1. UpToDate(resolved)'
      BY <2>2 DEF UpToDate
    <3>2. Root \in Reached'
      BY <2>1, SameProject, ReachedHolds
    <3>3. QED
      BY <2>1, <2>3, <3>1, <3>2 DEF NothingElse
  <2>10. Matches(resolved, seen)'
    BY <2>1, <2>2 DEF Matches
  <2>11. (\A s \in Has(resolved) \cap Urls : <<resolved[s].name, s, resolved[s].rev>> \in cache)'
    BY <2>2
  <2>12. QED
    BY <2>6, <2>7, <2>8, <2>9, <2>10, <2>11 DEF WalkInv
<1>4. CASE Skip
  <2>1. Working /\ Top.rest # <<>> /\ NextDep = None /\ stack' = Below /\ seen' = seen
        /\ UNCHANGED <<manifests, heads, resolved, last, drift, cache>>
    BY <1>4 DEF Skip, GoOn, outside
  <2>2. QED
    BY <2>1, GoOnStep
<1>5. CASE Return
  <2>1. Working /\ Top.rest = <<>> /\ stack' = Tail(stack) /\ UNCHANGED <<manifests, heads, resolved, drift, seen, cache>>
    BY <1>5 DEF Return, outside
  <2>2. QED
    BY <2>1, ReturnStep DEF Working, Walked
<1>6. ASSUME NEW sources, Meets(sources)
      PROVE  /\ Working /\ Top.rest # <<>> /\ NextDep # None /\ NextDep.source \in sources
             /\ seen' = seen \cup {<<NextName, NextDep>>} /\ UNCHANGED <<manifests, heads, drift>>
             /\ NextDep \in Deps /\ NextName \in Names /\ Matches(resolved, seen) /\ resolved \in Locks
  <2>1. /\ Working /\ Top.rest # <<>> /\ NextDep # None /\ NextDep.source \in sources
        /\ seen' = seen \cup {<<NextName, NextDep>>} /\ UNCHANGED <<manifests, heads, drift>>
    BY <1>6 DEF Meets, outside
  <2>2. QED
    BY <2>1, StackFacts DEF WalkInv, Walked, Working, TypeInv
<1>7. CASE PathDep
  <2>1. /\ Working /\ Top.rest # <<>> /\ NextDep # None /\ NextDep.source \in Paths
        /\ seen' = seen \cup {<<NextName, NextDep>>} /\ UNCHANGED <<manifests, heads, drift, cache>>
        /\ NextDep \in Deps /\ NextName \in Names /\ Matches(resolved, seen) /\ resolved \in Locks
    BY <1>6, <1>7 DEF PathDep
  <2>2. CASE Reject
    BY <1>1, <2>2 DEF Reject
  <2>3. CASE GoOn /\ resolved[NextDep.source] # None /\ resolved[NextDep.source].name = NextName
    <3>1. NextDep.source \in Has(resolved)
      BY <2>1, <2>3 DEF Has, Sources
    <3>2. PICK f \in seen : f[2].source = NextDep.source
      BY <2>1, <3>1 DEF Matches
    <3>3. resolved[NextDep.source].branch = f[2].branch /\ f[2] \in Deps
      BY <2>1, <3>2 DEF Matches, Honours, TypeInv
    <3>4. f[2].branch = None /\ NextDep.branch = None /\ NextDep.rev = None
      BY <2>1, <3>2, <3>3, DepFacts
    <3>5. Honours(resolved, <<NextName, NextDep>>)
      BY <2>3, <3>3, <3>4 DEF Honours
    <3>6. stack' = Below /\ UNCHANGED <<resolved, last>>
      BY <2>3 DEF GoOn
    <3>7. QED
      BY <2>1, <3>5, <3>6, GoOnStep
  <2>4. CASE /\ Enter(NextDep.source) /\ resolved[NextDep.source] = None /\ ~NameTaken
             /\ Package[NextDep.source] = NextName
    <3>1. TreeOf(NextDep) = NextDep.source /\ NextDep.source \notin Urls
      BY <2>1, EntryFacts, DepFacts
    <3>2. /\ stack' = <<Frame(NextDep.source)>> \o Below /\ last' = last
          /\ resolved' = [resolved EXCEPT ![NextDep.source] = NewEntry]
      BY <2>4 DEF Enter
    <3>3. QED
      BY <2>1, <2>4, <3>1, <3>2, EnterStep
  <2>5. QED
    BY <1>7, <2>2, <2>3, <2>4 DEF PathDep
<1>8. CASE GitDepAgain
  <2>1. /\ Working /\ Top.rest # <<>> /\ NextDep # None /\ NextDep.source \in Urls
        /\ seen' = seen \cup {<<NextName, NextDep>>} /\ UNCHANGED <<manifests, heads, drift, cache>>
        /\ resolved[NextDep.source] # None
    BY <1>6, <1>8 DEF GitDepAgain
  <2>2. CASE Reject
    BY <1>1, <2>2 DEF Reject
  <2>3. CASE GoOn /\ resolved[NextDep.source] = NewEntry
    <3>1. Honours(resolved, <<NextName, NextDep>>)
      BY <2>1, <2>3, EntryFacts DEF Honours
    <3>2. stack' = Below /\ UNCHANGED <<resolved, last>>
      BY <2>3 DEF GoOn
    <3>3. QED
      BY <2>1, <3>1, <3>2, GoOnStep
  <2>4. QED
    BY <1>8, <2>2, <2>3 DEF GitDepAgain
<1>9. CASE GitDep
  <2>1. /\ Working /\ Top.rest # <<>> /\ NextDep # None /\ NextDep.source \in Urls
        /\ seen' = seen \cup {<<NextName, NextDep>>} /\ UNCHANGED <<manifests, heads, drift>>
        /\ resolved[NextDep.source] = None
    BY <1>6, <1>9 DEF GitDep
  <2>2. CASE Reject
    BY <1>1, <2>2 DEF Reject
  <2>3. CASE /\ Enter(<<NextDep.source, WantedRev>>) /\ ~NameTaken /\ Package[<<NextDep.source, WantedRev>>] = NextName
             /\ cache' = cache \cup {<<NextName, NextDep.source, WantedRev>>}
    <3>1. TreeOf(NextDep) = <<NextDep.source, WantedRev>>
      BY <2>1, EntryFacts
    <3>2. /\ stack' = <<Frame(<<NextDep.source, WantedRev>>)>> \o Below /\ last' = last
          /\ resolved' = [resolved EXCEPT ![NextDep.source] = NewEntry]
      BY <2>3 DEF Enter
    <3>3. QED
      BY <2>1, <2>3, <3>1, <3>2, EnterStep
  <2>4. CASE Fail
    BY <1>1, <2>4 DEF Fail
  <2>5. QED
    BY <1>9, <2>2, <2>3, <2>4 DEF GitDep
<1>10. CASE Abort
  BY <1>1, <1>10 DEF Abort
<1>11. CASE WriteLock
  <2>1. last = "running" /\ UNCHANGED <<manifests, heads, resolved, drift, seen, cache, stack>>
    BY <1>11 DEF WriteLock, outside
  <2>2. QED
    BY <2>1, ReturnStep DEF Walked
<1>12. ASSUME NEW what, drift' = drift \cup {what}, UNCHANGED <<stack, resolved, last, seen>>,
              \/ what = "edit" /\ UNCHANGED <<heads, cache>>
              \/ what = "move" /\ UNCHANGED <<manifests, cache>>
              \/ what = "clean" /\ UNCHANGED <<manifests, heads>>
       PROVE  WalkInv'
  <2>1. SUFFICES ASSUME Walked
                 PROVE  WalkInv'
    BY <1>12 DEF WalkInv, Walked
  <2>2. /\ Matches(resolved, seen)
        /\ Still({"edit"}) => Covered /\ FramesAreEntered /\ PathsAreLive
        /\ Still({"clean"}) => \A s \in Has(resolved) \cap Urls : <<resolved[s].name, s, resolved[s].rev>> \in cache
        /\ Still({"edit", "move"}) => NothingElse
    BY <2>1 DEF WalkInv
  <2>3. Matches(resolved, seen)'
    BY <1>12, <2>2
  <2>4. ASSUME Still({"edit"})'
        PROVE  Covered' /\ FramesAreEntered' /\ PathsAreLive'
    <3>1. Still({"edit"}) /\ manifests' = manifests
      BY <1>12, <2>4 DEF Still
    <3>2. UNCHANGED <<manifests, stack, resolved, seen>> /\ Covered /\ FramesAreEntered /\ PathsAreLive
      BY <1>12, <2>2, <3>1
    <3>3. Covered' /\ FramesAreEntered'
      BY <3>2 DEF Covered, FramesAreEntered, Pending, Open, Entered, Has, TreeIn
    <3>4. PathsAreLive'
      BY <3>2, SameProject DEF PathsAreLive, HasGitPaths, Has
    <3>5. QED
      BY <3>3, <3>4
  <2>5. ASSUME Still({"clean"})'
        PROVE  (\A s \in Has(resolved) \cap Urls : <<resolved[s].name, s, resolved[s].rev>> \in cache)'
    <3>1. Still({"clean"}) /\ cache' = cache
      BY <1>12, <2>5 DEF Still
    <3>2. QED
      BY <1>12, <2>2, <3>1 DEF Has
  <2>6. ASSUME Still({"edit", "move"})'
        PROVE  NothingElse'
    <3>1. Still({"edit", "move"}) /\ manifests' = manifests /\ heads' = heads
      BY <1>12, <2>6 DEF Still
    <3>2. NothingElse /\ Edges' = Edges /\ Reached' = Reached
      BY <2>2, <3>1, SameProject
    <3>3. Entered(resolved)' = Entered(resolved) /\ UpToDate(resolved)' = UpToDate(resolved)
      BY <1>12, <3>1 DEF Entered, TreeIn, Has, UpToDate
    <3>4. QED
      BY <1>12, <3>2, <3>3 DEF NothingElse
  <2>7. QED
    BY <2>3, <2>4, <2>5, <2>6 DEF WalkInv
<1>13. CASE (\E p \in Paths : Edit(p)) \/ (\E u \in Urls, b \in Branches : MoveBranch(u, b)) \/ Clean
  BY <1>12, <1>13 DEF Edit, MoveBranch, Clean, Happens
<1>14. QED
  BY <1>2, <1>3, <1>4, <1>5, <1>7, <1>8, <1>9, <1>10, <1>11, <1>13 DEF Next, Sync

-----------------------------------------------------------------------------
(* The types, and how a sync ends.                                         *)

\* Every step keeps the types.
LEMMA TypeStep ==
  ASSUME TypeInv, [Next]_vars
  PROVE  TypeInv'
<1>1. CASE UNCHANGED vars
  BY <1>1 DEF vars, TypeInv
<1>2. CASE SyncBegin
  <2>1. <<Frame(Root)>> \in Seq(Frames)
    <3>1. PICK f \in Frames : f = Frame(Root)
      <4>1. <<>> \in Seq(Frames)
        OBVIOUS
      <4>2. QED
        BY <4>1, TreeFacts, PushFacts
    <3>2. QED
      BY <3>1
  <2>2. Unresolved \in Locks
    BY DEF Unresolved, Locks
  <2>3. count' \in [syncs : Nat, outside : Nat]
    BY <1>2 DEF SyncBegin, TypeInv
  <2>4. QED
    BY <1>2, <2>1, <2>2, <2>3 DEF SyncBegin, TypeInv, Ends
<1>3. ASSUME Working, Top.rest # <<>>, UNCHANGED <<manifests, heads, drift, count, lock, lockedDeps>>,
             \/ NextDep = None /\ seen' = seen
             \/ NextDep # None /\ seen' = seen \cup {<<NextName, NextDep>>},
             GoOn \/ Reject \/ Fail \/ (NextDep # None /\ \E t \in Trees : Enter(t))
      PROVE  TypeInv'
  <2>1. NextDep # None => NextName \in Names /\ NextDep \in Deps /\ NewEntry \in Entries /\ NextDep.source \in Sources
    BY <1>3, EntryFacts, DepFacts
  <2>2. seen' \subseteq (Names \X Deps)
    BY <1>3, <2>1 DEF TypeInv
  <2>3. Below \in Seq(Frames)
    BY <1>3, StackFacts
  <2>4. stack' \in Seq(Frames)
    <3>1. CASE GoOn
      BY <2>3, <3>1 DEF GoOn
    <3>2. CASE Reject
      BY <3>2 DEF Reject
    <3>3. ASSUME NEW t \in Trees, Enter(t)
          PROVE  stack' \in Seq(Frames)
      BY <2>3, <3>3, PushFacts DEF Enter
    <3>4. CASE Fail
      BY <3>4 DEF Fail
    <3>5. QED
      BY <1>3, <3>1, <3>2, <3>3, <3>4
  <2>5. resolved' \in Locks
    BY <1>3, <2>1 DEF GoOn, Reject, Fail, Enter, TypeInv, Locks
  <2>6. last' \in Ends
    BY <1>3 DEF GoOn, Reject, Fail, Enter, TypeInv, Ends
  <2>7. QED
    BY <1>3, <2>2, <2>4, <2>5, <2>6 DEF TypeInv
<1>4. CASE Skip
  BY <1>3, <1>4 DEF Skip, outside
<1>5. CASE Return
  BY <1>5, PopFacts DEF Return, Working, outside, TypeInv
<1>6. CASE PathDep
  <2>1. Working /\ Top.rest # <<>> /\ UNCHANGED <<manifests, heads, drift, count, lock, lockedDeps>>
        /\ NextDep # None /\ seen' = seen \cup {<<NextName, NextDep>>} /\ NextDep.source \in Trees
    BY <1>6 DEF PathDep, Meets, outside, Trees
  <2>2. QED
    BY <1>3, <1>6, <2>1 DEF PathDep
<1>7. CASE GitDepAgain
  <2>1. Working /\ Top.rest # <<>> /\ UNCHANGED <<manifests, heads, drift, count, lock, lockedDeps>>
        /\ NextDep # None /\ seen' = seen \cup {<<NextName, NextDep>>}
    BY <1>7 DEF GitDepAgain, Meets, outside
  <2>2. QED
    BY <1>3, <1>7, <2>1 DEF GitDepAgain
<1>8. CASE GitDep
  <2>1. Working /\ Top.rest # <<>> /\ UNCHANGED <<manifests, heads, drift, count, lock, lockedDeps>>
        /\ NextDep # None /\ seen' = seen \cup {<<NextName, NextDep>>} /\ NextDep.source \in Urls
    BY <1>8 DEF GitDep, Meets, outside
  <2>2. <<NextDep.source, WantedRev>> \in Trees
    BY <2>1, EntryFacts DEF Trees
  <2>3. Reject \/ Fail \/ Enter(<<NextDep.source, WantedRev>>)
    BY <1>8 DEF GitDep
  <2>4. QED
    BY <1>3, <2>1, <2>2, <2>3
<1>9. CASE Abort
  BY <1>9 DEF Abort, outside, TypeInv, Ends
<1>10. CASE WriteLock
  BY <1>10 DEF WriteLock, outside, TypeInv, Ends
<1>11. ASSUME NEW what \in {"edit", "move", "clean"}, Happens(what)
       PROVE  /\ drift' \subseteq {"edit", "move", "clean"} /\ count' \in [syncs : Nat, outside : Nat]
              /\ UNCHANGED <<stack, resolved, lock, last, seen, lockedDeps>>
  BY <1>11 DEF Happens, TypeInv
<1>12. ASSUME NEW p \in Paths, Edit(p)
       PROVE  TypeInv'
  <2>1. PICK m \in Offers[p] : manifests' = [manifests EXCEPT ![p] = m]
    BY <1>12 DEF Edit
  <2>2. m \in Manifests
    BY <2>1, WorldsAssumption DEF Offers, Trees
  <2>3. QED
    BY <1>11, <1>12, <2>1, <2>2 DEF Edit, TypeInv
<1>13. ASSUME NEW u \in Urls, NEW b \in Branches, MoveBranch(u, b)
       PROVE  TypeInv'
  <2>1. heads' \in [Urls -> [Branches -> Revs]]
    BY <1>13 DEF MoveBranch, TypeInv
  <2>2. QED
    BY <1>11, <1>13, <2>1 DEF MoveBranch, TypeInv
<1>14. CASE Clean
  BY <1>11, <1>14 DEF Clean, TypeInv
<1>15. QED
  BY <1>1, <1>2, <1>4, <1>5, <1>6, <1>7, <1>8, <1>9, <1>10, <1>12, <1>13, <1>14 DEF Next, Sync

\* The walk rejects only what cannot be made consistent.
LEMMA RejectIsRight ==
  ASSUME TypeInv, WalkInv, Working, Top.rest # <<>>, NextDep # None, Still({"edit", "move"}),
         \/ Package[TreeOf(NextDep)] # NextName
         \/ NameTaken /\ resolved[NextDep.source] = None
         \/ resolved[NextDep.source] # None /\ resolved[NextDep.source].name # NextName
         \/ NextDep.source \in Urls /\ resolved[NextDep.source] # None /\ resolved[NextDep.source] # NewEntry
  PROVE  ~Consistent(Edges)
<1> DEFINE e == <<NextName, NextDep>>
<1>1. e \in Edges /\ e[1] = NextName /\ e[2] = NextDep
  BY MetIsThere
<1>2. Matches(resolved, seen) /\ seen \subseteq Edges /\ UpToDate(resolved)
  BY DEF WalkInv, Walked, Working, NothingElse
<1>3. NextDep \in Deps /\ NextDep.source \in Sources /\ resolved \in Locks
  BY EntryFacts, DepFacts DEF TypeInv
<1>4. ASSUME NEW f \in seen, f # e, f[1] = NextName \/ f[2].source = NextDep.source
      PROVE  ~Consistent(Edges)
  BY <1>1, <1>2, <1>4 DEF Consistent
<1>5. CASE Package[TreeOf(NextDep)] # NextName
  BY <1>1, <1>5 DEF Consistent
<1>6. CASE NameTaken /\ resolved[NextDep.source] = None
  <2>1. PICK s \in Has(resolved) : resolved[s].name = NextName
    BY <1>3, <1>6 DEF NameTaken, Has, Locks, Sources
  <2>2. PICK f \in seen : f[2].source = s /\ Honours(resolved, f)
    BY <1>2, <2>1 DEF Matches
  <2>3. f[1] = NextName /\ f # e
    BY <1>1, <1>6, <2>1, <2>2 DEF Honours, Has
  <2>4. QED
    BY <1>4, <2>3
<1>7. ASSUME resolved[NextDep.source] # None
      PROVE  \E f \in seen : f[2].source = NextDep.source /\ Honours(resolved, f)
  <2>1. NextDep.source \in Has(resolved)
    BY <1>3, <1>7 DEF Has
  <2>2. QED
    BY <1>2, <2>1 DEF Matches
<1>8. CASE resolved[NextDep.source] # None /\ resolved[NextDep.source].name # NextName
  <2>1. PICK f \in seen : f[2].source = NextDep.source /\ Honours(resolved, f)
    BY <1>7, <1>8
  <2>2. f # e
    BY <1>1, <1>8, <2>1 DEF Honours
  <2>3. QED
    BY <1>4, <2>1, <2>2
<1>9. CASE NextDep.source \in Urls /\ resolved[NextDep.source] # None /\ resolved[NextDep.source] # NewEntry
  <2>1. PICK f \in seen : f[2].source = NextDep.source /\ Honours(resolved, f)
    BY <1>7, <1>9
  <2>2. PICK x \in Entries : x = resolved[NextDep.source]
    BY <1>3, <1>9, LockFacts
  <2>3. ASSUME f = e
        PROVE  FALSE
    <3>1. x.name = NextName /\ x.branch = NextDep.branch /\ (NextDep.rev # None => x.rev = NextDep.rev)
      BY <1>1, <2>1, <2>2, <2>3 DEF Honours
    <3>2. NextDep.branch # None => x.rev = heads[NextDep.source][NextDep.branch]
      BY <1>2, <1>3, <1>9, <2>2, <3>1 DEF UpToDate, Has
    <3>3. NextDep.rev # None \/ NextDep.branch # None
      BY <1>3, <1>9, DepFacts
    <3>4. /\ NewEntry \in Entries /\ NewEntry.name = NextName /\ NewEntry.branch = NextDep.branch
          /\ NextDep.rev # None => NewEntry.rev = NextDep.rev
          /\ NextDep.branch # None => NewEntry.rev = heads[NextDep.source][NextDep.branch]
      BY <1>9, EntryFacts
    <3>5. PICK y \in Entries : y = NewEntry
      BY <3>4
    <3>6. x.name = y.name /\ x.rev = y.rev /\ x.branch = y.branch
      BY <3>1, <3>2, <3>3, <3>4, <3>5
    <3>7. x = y
      BY <3>6 DEF Entries
    <3>8. QED
      BY <1>9, <2>2, <3>5, <3>7
  <2>4. QED
    BY <1>4, <2>1, <2>3
<1>10. QED
  BY <1>5, <1>6, <1>8, <1>9

\* A sync that is rejected has met a project that is not consistent, and one
\* that has synced has walked to the end.
LEMMA EndStep ==
  ASSUME TypeInv, WalkInv, EndInv, [Next]_vars
  PROVE  EndInv'
<1>1. ASSUME UNCHANGED <<manifests, heads>>
      PROVE  Consistent(Edges)' = Consistent(Edges)
  <2>1. Edges' = Edges /\ \A d : TreeOf(d)' = TreeOf(d)
    BY <1>1, SameProject
  <2>2. QED
    BY <2>1 DEF Consistent
<1>2. Still({"edit", "move"}) => Still({"edit", "move"})
  OBVIOUS
<1>3. CASE UNCHANGED vars
  <2>1. UNCHANGED <<manifests, heads, last, drift, stack, lock, resolved, lockedDeps, seen>>
    BY <1>3 DEF vars
  <2>2. QED
    BY <1>1, <2>1 DEF EndInv, Still
<1>4. ASSUME last' = last, last = "running"
      PROVE  EndInv'
  BY <1>4 DEF EndInv
<1>5. ASSUME Working, Top.rest # <<>>, NextDep # None, UNCHANGED <<manifests, heads, drift>>, Reject,
             \/ Package[TreeOf(NextDep)] # NextName
             \/ NameTaken /\ resolved[NextDep.source] = None
             \/ resolved[NextDep.source] # None /\ resolved[NextDep.source].name # NextName
             \/ NextDep.source \in Urls /\ resolved[NextDep.source] # None /\ resolved[NextDep.source] # NewEntry
      PROVE  EndInv'
  <2>1. last' = "rejected" /\ (Still({"edit", "move"})' => Still({"edit", "move"}))
    BY <1>5 DEF Reject, Still
  <2>2. Still({"edit", "move"}) => ~Consistent(Edges)
    BY <1>5, RejectIsRight
  <2>3. QED
    BY <1>1, <1>5, <2>1, <2>2 DEF EndInv
<1>6. CASE SyncBegin
  BY <1>6 DEF SyncBegin, EndInv
<1>7. CASE Skip
  BY <1>4, <1>7 DEF Skip, GoOn, Working
<1>8. CASE Return
  BY <1>4, <1>8 DEF Return, Working
<1>9. CASE PathDep
  <2>1. /\ Working /\ Top.rest # <<>> /\ NextDep # None /\ NextDep.source \in Paths
        /\ UNCHANGED <<manifests, heads, drift>>
    BY <1>9 DEF PathDep, Meets, outside
  <2>2. TreeOf(NextDep) = NextDep.source
    BY <2>1, EntryFacts
  <2>3. CASE GoOn \/ Enter(NextDep.source)
    BY <1>4, <2>1, <2>3 DEF GoOn, Enter, Working
  <2>4. CASE /\ Reject
             /\ \/ resolved[NextDep.source] # None /\ resolved[NextDep.source].name # NextName
                \/ resolved[NextDep.source] = None /\ (NameTaken \/ Package[NextDep.source] # NextName)
    BY <1>5, <2>1, <2>2, <2>4
  <2>5. QED
    BY <1>9, <2>3, <2>4 DEF PathDep
<1>10. CASE GitDepAgain
  <2>1. /\ Working /\ Top.rest # <<>> /\ NextDep # None /\ NextDep.source \in Urls
        /\ UNCHANGED <<manifests, heads, drift>> /\ resolved[NextDep.source] # None
    BY <1>10 DEF GitDepAgain, Meets, outside
  <2>2. CASE GoOn
    BY <1>4, <2>1, <2>2 DEF GoOn, Working
  <2>3. CASE Reject /\ resolved[NextDep.source] # NewEntry
    BY <1>5, <2>1, <2>3
  <2>4. QED
    BY <1>10, <2>2, <2>3 DEF GitDepAgain
<1>11. CASE GitDep
  <2>1. /\ Working /\ Top.rest # <<>> /\ NextDep # None /\ NextDep.source \in Urls
        /\ UNCHANGED <<manifests, heads, drift>> /\ resolved[NextDep.source] = None
    BY <1>11 DEF GitDep, Meets, outside
  <2>2. TreeOf(NextDep) = <<NextDep.source, WantedRev>>
    BY <2>1, EntryFacts
  <2>3. CASE Enter(<<NextDep.source, WantedRev>>)
    BY <1>4, <2>1, <2>3 DEF Enter, Working
  <2>4. CASE Reject /\ (NameTaken \/ Package[<<NextDep.source, WantedRev>>] # NextName)
    BY <1>5, <2>1, <2>2, <2>4
  <2>5. CASE Fail
    BY <2>5 DEF Fail, EndInv
  <2>6. QED
    BY <1>11, <2>3, <2>4, <2>5 DEF GitDep
<1>12. CASE Abort
  BY <1>12 DEF Abort, EndInv
<1>13. CASE WriteLock
  BY <1>13 DEF WriteLock, EndInv
<1>14. ASSUME NEW what, drift' = drift \cup {what}, UNCHANGED <<stack, resolved, lock, last, seen, lockedDeps>>,
              \/ what \in {"edit", "move"}
              \/ what = "clean" /\ UNCHANGED <<manifests, heads>>
       PROVE  EndInv'
  <2>1. Still({"edit", "move"})' => Still({"edit", "move"}) /\ UNCHANGED <<manifests, heads>>
    BY <1>14 DEF Still
  <2>2. QED
    BY <1>1, <1>14, <2>1 DEF EndInv
<1>15. CASE (\E p \in Paths : Edit(p)) \/ (\E u \in Urls, b \in Branches : MoveBranch(u, b)) \/ Clean
  BY <1>14, <1>15 DEF Edit, MoveBranch, Clean, Happens
<1>16. QED
  BY <1>3, <1>6, <1>7, <1>8, <1>9, <1>10, <1>11, <1>12, <1>13, <1>15 DEF Next, Sync

\* Only a sync that has come to its end writes the lock.
LEMMA LockStep ==
  ASSUME TypeInv, WalkInv, LockInv, [Next]_vars
  PROVE  LockInv'
<1>1. CASE WriteLock
  <2>1. lock' = resolved /\ lockedDeps' = seen /\ Walked
    BY <1>1 DEF WriteLock, Walked
  <2>2. QED
    BY <2>1 DEF WalkInv, LockInv, Matches, Honours, Has, TreeIn
<1>2. CASE UNCHANGED <<lock, lockedDeps>>
  BY <1>2 DEF LockInv, Matches, Honours, Has, TreeIn
<1>3. QED
  BY <1>1, <1>2 DEF Next, Sync, SyncBegin, Skip, Return, PathDep, GitDepAgain, GitDep, Meets, Abort,
                    Edit, MoveBranch, Clean, Happens, vars

\* A sync fills no slot that a clean was stopped in, and a clean empties no
\* slot and leaves it whole.
LEMMA ApartStep ==
  ASSUME Apart, [Next]_vars
  PROVE  Apart'
<1>1. CASE GitDep
  <2>1. hollow' = hollow
    BY <1>1 DEF GitDep, Meets, outside, torn
  <2>2. \/ cache' = cache
        \/ \E slot : slot \notin hollow /\ cache' = cache \cup {slot}
    BY <1>1 DEF GitDep
  <2>3. QED
    BY <2>1, <2>2 DEF Apart
<1>2. CASE Clean
  BY <1>2 DEF Clean, Apart
<1>3. CASE UNCHANGED <<cache, hollow>>
  BY <1>3 DEF Apart
<1>4. QED
  BY <1>1, <1>2, <1>3 DEF Next, Sync, SyncBegin, Skip, Return, PathDep, GitDepAgain, Meets, Abort,
                          WriteLock, Edit, MoveBranch, vars, outside, torn

\* It holds before the first sync.
LEMMA InitIInv ==
  ASSUME Init
  PROVE  IInv
<1>1. manifests \in [Trees -> Manifests]
  BY WorldsAssumption DEF Init
<1>2. heads \in [Urls -> [Branches -> Revs]]
  BY RootAssumption DEF Init
<1>3. Unresolved \in Locks
  BY DEF Unresolved, Locks
<1>4. TypeInv
  BY <1>1, <1>2, <1>3 DEF Init, TypeInv, Ends
<1>5. WalkInv /\ EndInv /\ LockInv /\ Apart
  BY DEF Init, WalkInv, EndInv, LockInv, Walked, Apart
<1>6. QED
  BY <1>4, <1>5 DEF IInv

LEMMA IInvStep ==
  ASSUME IInv, [Next]_vars
  PROVE  IInv'
BY TypeStep, WalkStep, EndStep, LockStep, ApartStep DEF IInv

\* The invariant of the resolver: what the walk has found is what it was asked
\* for, nothing it has entered is forgotten, and the lock is of one walk.
THEOREM Invariance == Spec => []IInv
<1>1. Init => IInv
  BY InitIInv
<1>2. IInv /\ [Next]_vars => IInv'
  BY IInvStep
<1>3. QED
  BY <1>1, <1>2, PTL DEF Spec

-----------------------------------------------------------------------------
(* A sync succeeds exactly on the consistent projects.                     *)

\* What a dependency that is honoured says of its source's entry.
LEMMA HonouredFacts ==
  ASSUME NEW r \in Locks, NEW deps, deps \subseteq (Names \X Deps), Matches(r, deps), NEW e \in deps
  PROVE  /\ e = <<e[1], e[2]>> /\ e[1] \in Names /\ e[2] \in Deps
         /\ e[2].source \in Has(r) /\ r[e[2].source] \in Entries
         /\ r[e[2].source].name = e[1] /\ r[e[2].source].branch = e[2].branch
         /\ e[2].rev # None => r[e[2].source].rev = e[2].rev
<1>1. e = <<e[1], e[2]>> /\ e[1] \in Names /\ e[2] \in Deps /\ e[2].source \in Sources
  BY DepFacts
<1>2. Honours(r, e)
  BY DEF Matches
<1>3. e[2].source \in Has(r) /\ r[e[2].source] \in Entries
  BY <1>1, <1>2, LockFacts DEF Honours
<1>4. QED
  BY <1>1, <1>2, <1>3 DEF Honours

\* Dependencies of a lock with the same name or source are the same.
LEMMA HonouredOnce ==
  ASSUME NEW r \in Locks, NEW deps, deps \subseteq (Names \X Deps), Matches(r, deps),
         NEW e \in deps, NEW f \in deps, e[1] = f[1] \/ e[2].source = f[2].source
  PROVE  e = f
<1>1. /\ e = <<e[1], e[2]>> /\ e[2] \in Deps /\ e[2].source \in Has(r)
      /\ r[e[2].source].name = e[1] /\ r[e[2].source].branch = e[2].branch
      /\ e[2].rev # None => r[e[2].source].rev = e[2].rev
  BY HonouredFacts
<1>2. /\ f = <<f[1], f[2]>> /\ f[2] \in Deps /\ f[2].source \in Has(r)
      /\ r[f[2].source].name = f[1] /\ r[f[2].source].branch = f[2].branch
      /\ f[2].rev # None => r[f[2].source].rev = f[2].rev
  BY HonouredFacts
<1>3. e[2].source = f[2].source
  BY <1>1, <1>2 DEF Matches
<1>4. e[2].source \in Urls /\ e[2].branch = None => e[2].rev = f[2].rev
  BY <1>1, <1>2, <1>3, DepFacts
<1>5. e[2] = f[2]
  BY <1>1, <1>2, <1>3, <1>4, DepsEqual
<1>6. QED
  BY <1>1, <1>2, <1>3, <1>5

\* The tree of a dependency is the one its entry points at, when its branch
\* has not moved.
LEMMA HonouredTree ==
  ASSUME TypeInv, NEW r \in Locks, NEW deps, deps \subseteq (Names \X Deps), Matches(r, deps), UpToDate(r),
         NEW e \in deps
  PROVE  TreeOf(e[2]) = TreeIn(r, e[2].source) /\ TreeOf(e[2]) \in Entered(r)
<1>1. /\ e[2] \in Deps /\ e[2].source \in Has(r)
      /\ r[e[2].source].branch = e[2].branch /\ (e[2].rev # None => r[e[2].source].rev = e[2].rev)
  BY HonouredFacts
<1>2. CASE e[2].source \in Paths
  BY <1>1, <1>2, TreeFacts DEF TreeIn, Entered
<1>3. CASE e[2].source \in Urls
  <2>1. e[2].source \notin Paths
    BY <1>3, RootAssumption
  <2>2. CASE e[2].branch = None
    <3>1. TreeOf(e[2]) = <<e[2].source, e[2].rev>> /\ e[2].rev # None
      BY <1>1, <1>3, <2>2, DepFacts, TreeFacts
    <3>2. QED
      BY <1>1, <2>1, <3>1 DEF TreeIn, Entered
  <2>3. CASE e[2].branch # None
    <3>1. TreeOf(e[2]) = <<e[2].source, heads[e[2].source][e[2].branch]>>
      BY <1>1, <1>3, <2>3, TreeFacts
    <3>2. r[e[2].source].rev = heads[e[2].source][e[2].branch]
      BY <1>1, <1>3, <2>3 DEF UpToDate
    <3>3. QED
      BY <1>1, <2>1, <3>1, <3>2 DEF TreeIn, Entered
  <2>4. QED
    BY <2>2, <2>3
<1>4. QED
  BY <1>1, <1>2, <1>3 DEF Has, Sources

\* When the walk is through, all that its manifests ask for has been met.
LEMMA WalkIsThrough ==
  ASSUME IInv, last = "synced", Still({"edit"}), NEW t \in Entered(resolved)
  PROVE  t \in Trees /\ DepsOf(t) \subseteq seen
<1>1. stack = <<>> /\ Covered /\ Matches(resolved, seen) /\ TypeInv
  BY DEF IInv, EndInv, WalkInv, Walked
<1>2. t \in Trees
  BY <1>1, EnteredFacts DEF TypeInv
<1>3. \A m, n : ~Pending(stack, m, n)
  BY <1>1 DEF Pending
<1>4. ASSUME NEW e \in DepsOf(t)
      PROVE  e \in seen
  <2>1. e[1] \in Names /\ e[2] \in Deps /\ manifests[t][e[1]] = e[2] /\ e = <<e[1], e[2]>>
    BY <1>1, <1>2, DepsOfFacts
  <2>2. e[2] # None
    BY <2>1, DepFacts
  <2>3. QED
    BY <1>1, <1>3, <2>1, <2>2 DEF Covered
<1>5. QED
  BY <1>2, <1>4

\* What a sync that nothing disturbed has found.
LEMMA SyncedFacts ==
  ASSUME IInv, last = "synced", Still({"edit", "move"})
  PROVE  Edges = seen /\ Consistent(Edges) /\ lock = WantedLock(Edges)
<1>1. /\ TypeInv /\ resolved \in Locks /\ seen \subseteq (Names \X Deps) /\ lock = resolved
      /\ Matches(resolved, seen) /\ seen \subseteq Edges /\ Entered(resolved) \subseteq Reached /\ UpToDate(resolved)
  BY DEF IInv, TypeInv, EndInv, WalkInv, Walked, NothingElse
<1>2. Still({"edit"})
  BY DEF Still
<1>3. \A t \in Entered(resolved) : t \in Trees /\ DepsOf(t) \subseteq seen
  BY <1>2, WalkIsThrough
<1>4. \A e \in seen : TreeOf(e[2]) = TreeIn(resolved, e[2].source) /\ TreeOf(e[2]) \in Entered(resolved)
  BY <1>1, HonouredTree
<1>5. Reached \subseteq Entered(resolved)
  <2>1. Root \in Entered(resolved)
    BY DEF Entered
  <2>2. QED
    BY <1>3, <1>4, <2>1, ReachedLeast
<1>6. Edges = seen
  BY <1>1, <1>3, <1>5 DEF Edges
<1>7. Consistent(seen)
  <2>1. \A e, f \in seen : (e[1] = f[1] \/ e[2].source = f[2].source) => e = f
    BY <1>1, HonouredOnce
  <2>2. \A e \in seen : Package[TreeOf(e[2])] = e[1]
    <3>1. \A e \in seen : e[2].source \in Has(resolved) /\ resolved[e[2].source].name = e[1]
      BY <1>1, HonouredFacts
    <3>2. QED
      BY <1>1, <1>4, <3>1 DEF Matches
  <2>3. QED
    BY <2>1, <2>2 DEF Consistent
<1>8. resolved = WantedLock(seen)
  <2>1. ASSUME NEW s \in Sources
        PROVE  resolved[s] = WantedLock(seen)[s]
    <3>1. CASE \E e \in seen : e[2].source = s
      <4>1. PICK e \in seen : e = (CHOOSE f \in seen : f[2].source = s) /\ e[2].source = s
        BY <3>1
      <4>2. /\ s \in Has(resolved) /\ resolved[s] \in Entries
            /\ resolved[s].name = e[1] /\ resolved[s].branch = e[2].branch
        BY <1>1, <4>1, HonouredFacts
      <4>3. resolved[s].rev = IF s \in Paths THEN None ELSE TreeOf(e[2])[2]
        <5>1. CASE s \in Paths
          BY <1>1, <4>2, <5>1 DEF Matches
        <5>2. CASE s \notin Paths
          <6>1. TreeOf(e[2]) = TreeIn(resolved, s)
            BY <1>4, <4>1
          <6>2. TreeIn(resolved, s) = <<s, resolved[s].rev>>
            BY <5>2 DEF TreeIn
          <6>3. <<s, resolved[s].rev>>[2] = resolved[s].rev
            OBVIOUS
          <6>4. QED
            BY <5>2, <6>1, <6>2, <6>3
        <5>3. QED
          BY <5>1, <5>2
      <4>4. WantedLock(seen)[s] = [name   |-> e[1],
                                   rev    |-> IF s \in Paths THEN None ELSE TreeOf(e[2])[2],
                                   branch |-> e[2].branch]
        BY <3>1, <4>1 DEF WantedLock, Sources
      <4>5. PICK x \in Entries : x = resolved[s]
        BY <4>2
      <4>6. x = [name |-> x.name, rev |-> x.rev, branch |-> x.branch]
        BY DEF Entries
      <4>7. QED
        BY <4>2, <4>3, <4>4, <4>5, <4>6
    <3>2. CASE ~ \E e \in seen : e[2].source = s
      <4>1. s \notin Has(resolved)
        BY <1>1, <3>2 DEF Matches
      <4>2. resolved[s] = None
        BY <1>1, <4>1, LockFacts
      <4>3. WantedLock(seen)[s] = None
        BY <3>2 DEF WantedLock, Sources
      <4>4. QED
        BY <4>2, <4>3
    <3>3. QED
      BY <3>1, <3>2
  <2>2. resolved \in [Sources -> Entries \cup {None}]
    BY <1>1 DEF Locks, Sources
  <2>3. WantedLock(seen) = [s \in Sources |-> WantedLock(seen)[s]]
    BY DEF WantedLock, Sources
  <2>4. QED
    BY <2>1, <2>2, <2>3
<1>9. QED
  BY <1>1, <1>6, <1>7, <1>8

\* A sync that nothing disturbs succeeds exactly on the consistent projects,
\* and locks exactly what the project depends on, however its names are
\* ordered and its manifests point at each other.
THEOREM SyncsAreRight == Spec => []SyncOutcomeIsRight
<1>1. IInv => SyncOutcomeIsRight
  <2>1. ASSUME IInv, drift \cap {"edit", "move"} = {}, last = "synced"
        PROVE  Consistent(Edges) /\ lock = WantedLock(Edges)
    BY <2>1, SyncedFacts DEF Still
  <2>2. ASSUME IInv, drift \cap {"edit", "move"} = {}, last = "rejected"
        PROVE  ~Consistent(Edges)
    BY <2>2 DEF IInv, EndInv, Still
  <2>3. QED
    BY <2>1, <2>2 DEF SyncOutcomeIsRight
<1>2. QED
  BY <1>1, Invariance, PTL

-----------------------------------------------------------------------------
(* What a lock says, and what --locked and --check say of it.              *)

LEMMA LockedFacts ==
  ASSUME IInv, lock # None
  PROVE  /\ TypeInv /\ lock \in Locks /\ Matches(lock, lockedDeps) /\ lockedDeps \subseteq (Names \X Deps)
         /\ Locked = Has(lock)
<1>1. TypeInv /\ lock \in Locks /\ Matches(lock, lockedDeps) /\ lockedDeps \subseteq (Names \X Deps)
  BY DEF IInv, TypeInv, LockInv
<1>2. Locked = Has(lock)
  BY <1>1 DEF Locked, Has, Locks, Sources
<1>3. QED
  BY <1>1, <1>2

\* Even when manifests and branches change under the walk, a lock gives every
\* dependency the walk has met what its manifest asked for, and no import name
\* two packages.
THEOREM LocksHonourAll == Spec => []LockHonoursAll
<1>1. ASSUME IInv, lock # None
      PROVE  /\ \A e \in lockedDeps :
                  /\ lock[e[2].source] # None
                  /\ lock[e[2].source].name = e[1] /\ lock[e[2].source].branch = e[2].branch
                  /\ e[2].rev # None => lock[e[2].source].rev = e[2].rev
             /\ \A s, t \in Locked : lock[s].name = lock[t].name => s = t
  <2>1. Matches(lock, lockedDeps) /\ Locked = Has(lock)
    BY <1>1, LockedFacts
  <2>2. \A e \in lockedDeps : Honours(lock, e)
    BY <2>1 DEF Matches
  <2>3. QED
    BY <2>1, <2>2 DEF Matches, Honours
<1>2. IInv => LockHonoursAll
  BY <1>1 DEF LockHonoursAll
<1>3. QED
  BY <1>2, Invariance, PTL

\* The directories of a lock are those the path dependencies reach.
LEMMA FreshPaths ==
  ASSUME IInv, last = "synced", Still({"edit"})
  PROVE  LivePaths \subseteq Has(lock) \cap Paths /\ (HasGitPaths(lock) \/ Has(lock) \cap Paths \subseteq LivePaths)
<1>1. /\ TypeInv /\ resolved \in Locks /\ seen \subseteq (Names \X Deps) /\ Matches(resolved, seen)
      /\ lock = resolved /\ PathsAreLive
  BY DEF IInv, TypeInv, EndInv, WalkInv, Walked
<1>2. ASSUME NEW t \in Entered(resolved)
      PROVE  PathsOf(t) \subseteq Has(resolved) \cap Paths
  <2>1. \A e \in DepsOf(t) : e[2].source \in Has(resolved)
    BY <1>1, WalkIsThrough, HonouredFacts
  <2>2. QED
    BY <2>1 DEF PathsOf
<1>3. Root \in Entered(resolved) /\ \A t \in Has(resolved) \cap Paths : t \in Entered(resolved)
  BY DEF Entered, TreeIn
<1>4. Has(resolved) \cap Paths \subseteq Trees
  BY DEF Trees
<1>5. LivePaths \subseteq Has(resolved) \cap Paths
  BY <1>2, <1>3, <1>4, LiveLeast
<1>6. QED
  BY <1>1, <1>5 DEF PathsAreLive

LEMMA FreshIsGood ==
  ASSUME IInv
  PROVE  FreshLockIsGood
<1>1. SUFFICES ASSUME last = "synced", drift \subseteq {"move"}
               PROVE  PassesCheck /\ (GitTreesHavePaths \/ AcceptsLocked)
  BY DEF FreshLockIsGood
<1>2. Still({"edit"}) /\ Still({"clean"})
  BY <1>1 DEF Still
<1>3. /\ TypeInv /\ resolved \in Locks /\ seen \subseteq (Names \X Deps) /\ Matches(resolved, seen)
      /\ lock = resolved
      /\ \A s \in Has(resolved) \cap Urls : <<resolved[s].name, s, resolved[s].rev>> \in cache
  BY <1>1, <1>2 DEF IInv, TypeInv, EndInv, WalkInv, Walked
<1>4. lock # None /\ Locked = Has(lock)
  BY <1>3, NoneAssumption, LockedFacts
<1>5. Direct \subseteq seen
  BY <1>1, <1>2, WalkIsThrough DEF Direct, Entered
<1>6. ASSUME NEW d \in Direct
      PROVE  /\ d[2] \in Deps /\ d[2].source \in Has(lock) /\ lock[d[2].source] # None
             /\ lock[d[2].source].name = d[1] /\ lock[d[2].source].branch = d[2].branch
             /\ d[2].rev # None => lock[d[2].source].rev = d[2].rev
             /\ d[2].source \in Paths => Package[d[2].source] = d[1]
             /\ d[2].source \notin Paths => /\ d[2].source \in Urls
                                            /\ <<d[1], d[2].source, lock[d[2].source].rev>> \in cache
  <2>1. /\ d[2] \in Deps /\ d[2].source \in Has(lock)
        /\ lock[d[2].source].name = d[1] /\ lock[d[2].source].branch = d[2].branch
        /\ d[2].rev # None => lock[d[2].source].rev = d[2].rev
    BY <1>3, <1>5, HonouredFacts
  <2>2. d[2].source \in Paths => Package[d[2].source] = d[1]
    BY <1>3, <2>1 DEF Matches, TreeIn
  <2>3. d[2].source \notin Paths => d[2].source \in Urls
    BY <2>1, DepFacts DEF Sources
  <2>4. d[2].source \in Urls => <<d[1], d[2].source, lock[d[2].source].rev>> \in cache
    BY <1>3, <2>1
  <2>5. QED
    BY <2>1, <2>2, <2>3, <2>4 DEF Has
<1>7. PassesCheck
  <2>1. ASSUME NEW d \in Direct
        PROVE  IF d[2].source \in Paths THEN Package[d[2].source] = d[1]
               ELSE IF d[2].rev # None THEN <<d[1], d[2].source, d[2].rev>> \in cache
               ELSE IF lock = None THEN FALSE
               ELSE lock[d[2].source] # None /\ <<d[1], d[2].source, lock[d[2].source].rev>> \in cache
    <3>1. CASE d[2].source \in Paths
      BY <1>6, <3>1
    <3>2. CASE d[2].source \notin Paths
      BY <1>4, <1>6, <3>2
    <3>3. QED
      BY <3>1, <3>2
  <2>2. QED
    BY <2>1 DEF PassesCheck
<1>8. ASSUME ~GitTreesHavePaths
      PROVE  AcceptsLocked
  <2>1. ASSUME NEW d \in Direct
        PROVE  Agrees(d[1], d[2])
    <3>1. d[2].rev # None => d[2].branch = None
      BY <1>6, DepFacts DEF Sources
    <3>2. QED
      BY <1>6, <3>1 DEF Agrees
  <2>2. Locked \cap Paths = LivePaths
    <3>1. ~HasGitPaths(lock)
      BY <1>4, <1>8 DEF GitTreesHavePaths, HasGitPaths
    <3>2. QED
      BY <1>1, <1>2, <1>4, <3>1, FreshPaths
  <2>3. ASSUME NEW s \in Locked
        PROVE  IF s \in Urls THEN IsCached(s) ELSE Package[s] = lock[s].name
    <3>1. s \in Has(resolved) /\ s \in Sources
      BY <1>3, <1>4, <2>3 DEF Has
    <3>2. CASE s \in Urls
      BY <1>3, <3>1, <3>2 DEF IsCached
    <3>3. CASE s \notin Urls
      BY <1>3, <3>1, <3>3 DEF Matches, TreeIn, Sources
    <3>4. QED
      BY <3>2, <3>3
  <2>4. QED
    BY <1>4, <2>1, <2>2, <2>3 DEF AcceptsLocked
<1>9. QED
  BY <1>7, <1>8

LEMMA EditsShow ==
  ASSUME IInv
  PROVE  EditsAreNoticed
<1>1. SUFFICES ASSUME lock # None, AcceptsLocked
               PROVE  Direct \subseteq lockedDeps /\ LivePaths = {e[2].source : e \in lockedDeps} \cap Paths
  BY DEF EditsAreNoticed
<1>2. /\ TypeInv /\ lock \in Locks /\ Matches(lock, lockedDeps) /\ lockedDeps \subseteq (Names \X Deps)
      /\ Locked = Has(lock)
  BY <1>1, LockedFacts
<1>3. ASSUME NEW d \in Direct
      PROVE  d \in lockedDeps
  <2>1. d = <<d[1], d[2]>> /\ d[2] \in Deps
    BY <1>2, <1>3, DepsOfFacts, TreeFacts DEF Direct
  <2>2. /\ lock[d[2].source] # None /\ lock[d[2].source].name = d[1]
        /\ d[2].rev # None => lock[d[2].source].rev = d[2].rev /\ lock[d[2].source].branch = None
        /\ d[2].branch # None => lock[d[2].source].branch = d[2].branch
    BY <1>1, <1>3 DEF AcceptsLocked, Agrees
  <2>3. d[2].source \in Has(lock)
    BY <2>1, <2>2, DepFacts DEF Has
  <2>4. PICK e \in lockedDeps : e[2].source = d[2].source
    BY <1>2, <2>3 DEF Matches
  <2>5. /\ e = <<e[1], e[2]>> /\ e[2] \in Deps
        /\ lock[e[2].source].name = e[1] /\ lock[e[2].source].branch = e[2].branch
        /\ e[2].rev # None => lock[e[2].source].rev = e[2].rev
    BY <1>2, HonouredFacts
  <2>6. d[2].branch = e[2].branch
    <3>1. CASE d[2].source \in Paths
      BY <2>1, <2>4, <2>5, <3>1, DepFacts
    <3>2. CASE d[2].source \in Urls
      BY <2>1, <2>2, <2>4, <2>5, <3>2, DepFacts
    <3>3. QED
      BY <2>1, <3>1, <3>2, DepFacts DEF Sources
  <2>7. d[2].source \in Urls /\ d[2].branch = None => d[2].rev = e[2].rev
    BY <2>1, <2>2, <2>4, <2>5, <2>6, DepFacts
  <2>8. d[2] = e[2]
    BY <2>1, <2>4, <2>5, <2>6, <2>7, DepsEqual
  <2>9. QED
    BY <2>1, <2>2, <2>4, <2>5, <2>8
<1>4. Has(lock) = {e[2].source : e \in lockedDeps}
  <2>1. \A e \in lockedDeps : e[2].source \in Has(lock)
    BY <1>2, HonouredFacts
  <2>2. QED
    BY <1>2, <2>1 DEF Matches
<1>5. QED
  BY <1>1, <1>2, <1>3, <1>4 DEF AcceptsLocked

LEMMA LockedIsThere ==
  ASSUME IInv
  PROVE  LockedThenChecked
<1> DEFINE Passes(d) == IF d[2].source \in Paths THEN Package[d[2].source] = d[1]
                        ELSE IF d[2].rev # None THEN <<d[1], d[2].source, d[2].rev>> \in cache
                        ELSE IF lock = None THEN FALSE
                        ELSE lock[d[2].source] # None /\ <<d[1], d[2].source, lock[d[2].source].rev>> \in cache
<1>1. SUFFICES ASSUME lock # None, AcceptsLocked
               PROVE  PassesCheck <=> ~\E d \in Direct : IsHollow(d)
  BY DEF LockedThenChecked
<1>2. TypeInv /\ Locked = Has(lock)
  BY <1>1, LockedFacts
<1>3. ASSUME NEW d \in Direct
      PROVE  Passes(d) <=> ~IsHollow(d)
  <2>1. d[2] \in Deps
    BY <1>2, <1>3, DepsOfFacts, TreeFacts DEF Direct
  <2>2. /\ lock[d[2].source] # None /\ lock[d[2].source].name = d[1]
        /\ d[2].rev # None => lock[d[2].source].rev = d[2].rev
        /\ d[2].source \in Paths => Package[d[2].source] = d[1]
    BY <1>1, <1>3 DEF AcceptsLocked, Agrees
  <2>3. CASE d[2].source \in Paths
    <3>1. d[2].source \notin Urls
      BY <2>1, <2>3, DepFacts
    <3>2. QED
      BY <2>2, <2>3, <3>1 DEF IsHollow
  <2>4. CASE d[2].source \notin Paths
    <3> DEFINE slot == <<d[1], d[2].source, lock[d[2].source].rev>>
    <3>1. d[2].source \in Urls /\ d[2].source \in Locked
      BY <1>2, <2>1, <2>2, <2>4, DepFacts DEF Has, Sources
    <3>2. IsCached(d[2].source)
      BY <1>1, <3>1 DEF AcceptsLocked
    <3>3. slot \in cache \cup hollow
      BY <2>2, <3>2 DEF IsCached
    <3>4. slot \in cache <=> slot \notin hollow
      BY <3>3 DEF Apart, IInv
    <3>5. Passes(d) <=> slot \in cache
      BY <1>1, <2>2, <2>4
    <3>6. IsHollow(d) <=> slot \in hollow
      BY <3>1 DEF IsHollow
    <3>7. QED
      BY <3>4, <3>5, <3>6
  <2>5. QED
    BY <2>3, <2>4
<1>4. PassesCheck <=> \A d \in Direct : Passes(d)
  BY DEF PassesCheck
<1>5. QED
  BY <1>3, <1>4

\* --locked and --check accept a lock that is fresh; --locked notices an edit,
\* and accepts what --check refuses exactly when a clean was stopped in the slot
\* of a direct dependency and left its Tyra.toml there.
THEOREM JudgesAreRight == Spec => []LockIsJudgedRightly
<1>1. IInv => LockIsJudgedRightly
  BY FreshIsGood, EditsShow, LockedIsThere DEF LockIsJudgedRightly
<1>2. QED
  BY <1>1, Invariance, PTL
=============================================================================
