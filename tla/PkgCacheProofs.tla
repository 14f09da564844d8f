--------------------------- MODULE PkgCacheProofs ---------------------------
(***************************************************************************)
(* Proofs about the slot of a git dependency in the cache, for any set of  *)
(* processes and any number of syncs, cleans and kills.  What a process    *)
(* that works alone can find in the scratch directory and in the slot is   *)
(* the inductive invariant; with others at work nothing of it is left but  *)
(* that a slot with a manifest, in which nothing works, is not touched.    *)
(***************************************************************************)
EXTENDS PkgCache, TLAPS

TypeInv == /\ pc      \in [Procs -> Results \cup Syncing \cup Cleaning]
           /\ fault   \in [Procs -> BOOLEAN]
           /\ tmp     \in Dirs \cup {Missing}
           /\ cache   \in Dirs \cup {Missing}
           /\ revIsOk \in BOOLEAN
           /\ count   \in [syncs : Nat, cleans : Nat, kills : Nat]
           /\ overlap \in BOOLEAN
           /\ torn    \in BOOLEAN

\* Without an overlap one process works at most.
OneWorks == ~overlap => \A p, q \in Procs : Working(p) /\ Working(q) => p = q

CleansAreCounted == \A p \in Procs : pc[p] \in Cleaning => count.cleans > 0

\* What the process at each step finds, when the ones before it worked alone
\* and no clean was killed half way.  It alone is in the scratch directory, and
\* only while its git or its removal is at work.
Slot  == (\A p \in Procs : pc[p] # "cleaning") => cache = Missing \/ Populated
FoundBy(p) == /\ pc[p] \in Syncing \ {"check"} => cache = Missing
              /\ pc[p] = "remove"   => tmp # Missing
              /\ pc[p] = "removing" => tmp # Missing /\ tmp.by = {p}
              /\ pc[p] = "clone"    => tmp = Missing
              /\ pc[p] \in Git      => tmp # Missing /\ tmp.by = {p} /\ tmp.whole
              /\ pc[p] = "checkout" => tmp = Tree("head")
              /\ pc[p] = "validate" => tmp = Tree("rev")
              /\ pc[p] = "rename"   => tmp = Tree("rev") /\ revIsOk
              /\ pc[p] = "ok" /\ count.cleans = 0 => Populated
              /\ pc[p] \in {"discard", "discarding", "failed"} => fault[p] \/ ~revIsOk
              /\ In(p, tmp) => pc[p] \in Git \cup Removing \cup {"cleaning"}

Alone == ~overlap /\ ~torn => Slot /\ \A p \in Procs : FoundBy(p)

IInv == TypeInv /\ OneWorks /\ CleansAreCounted /\ Alone

\* A directory a clone has just made, and one that a finished git has left.
LEMMA DirFacts ==
  /\ \A p \in Procs : Started(p) \in Dirs /\ Started(p).by = {p} /\ Started(p).whole
  /\ \A c \in {"head", "rev"} : /\ Tree(c) \in Dirs /\ Tree(c).by = {} /\ Tree(c).whole
                               /\ Tree(c).manifest /\ Tree(c).of = c
<1>1. \A p \in Procs : Started(p) \in Dirs /\ Started(p).by = {p} /\ Started(p).whole
  BY DEF Started, Dirs
<1>2. QED
  BY <1>1 DEF Tree, Dirs

\* What git and removals do to a directory keeps it one.
LEMMA DirSteps ==
  ASSUME NEW d \in Dirs, NEW p \in Procs
  PROVE  /\ d # Missing /\ d.by \subseteq Procs
         /\ With(d, p) \in Dirs /\ With(d, p).by = d.by \cup {p} /\ With(d, p).whole = d.whole
         /\ Without(d, p) \in Dirs /\ Without(d, p).by = d.by \ {p}
         /\ \A e \in Losing(d)  : e \in Dirs /\ e.by = d.by
         /\ \A e \in Writing(d) : e \in Dirs /\ e.by = d.by /\ e.whole = d.whole
         /\ \A c \in {"head", "rev"} : \A e \in Written(d, c, p) :
               e \in Dirs /\ (d.whole /\ d.by = {p} => e = Tree(c))
<1>1. d # Missing /\ d \in [of : {"nothing", "head", "some", "rev"}, manifest : BOOLEAN, whole : BOOLEAN, by : SUBSET Procs]
  BY MissingAssumption DEF Dirs
<1>2. /\ With(d, p) \in Dirs /\ With(d, p).by = d.by \cup {p} /\ With(d, p).whole = d.whole
      /\ Without(d, p) \in Dirs /\ Without(d, p).by = d.by \ {p}
  BY <1>1 DEF With, Without, Dirs
<1>3. \A e \in Losing(d) : e \in Dirs /\ e.by = d.by
  BY <1>1 DEF Losing, Dirs
<1>4. \A e \in Writing(d) : e \in Dirs /\ e.by = d.by /\ e.whole = d.whole
  BY <1>1 DEF Writing, Dirs
<1>5. ASSUME NEW c \in {"head", "rev"}, NEW m \in BOOLEAN, NEW e, e = [d EXCEPT !.of = c, !.manifest = m, !.by = @ \ {p}]
      PROVE  e \in Dirs /\ (d.whole /\ d.by = {p} /\ m => e = Tree(c))
  <2>1. e = [of |-> c, manifest |-> m, whole |-> d.whole, by |-> d.by \ {p}]
    BY <1>1, <1>5
  <2>2. QED
    BY <1>1, <2>1 DEF Dirs, Tree
<1>6. \A c \in {"head", "rev"} : \A e \in Written(d, c, p) :
        e \in Dirs /\ (d.whole /\ d.by = {p} => e = Tree(c))
  BY <1>5 DEF Written
<1>7. QED
  BY <1>1, <1>2, <1>3, <1>4, <1>6

\* What validate_dep_root says of the tree at the rev.
LEMMA TreeVerdicts == revIsOk \in BOOLEAN => Verdicts(Tree("rev")) = {revIsOk}
BY DirFacts, MissingAssumption DEF Verdicts

\* A step of a process leaves the others where they are.
LEMMA OthersStay ==
  ASSUME TypeInv, NEW p \in Procs, ProcStep(p) \/ Kill(p)
  PROVE  /\ pc' = [pc EXCEPT ![p] = pc'[p]] /\ \A q \in Procs : q # p => fault'[q] = fault[q]
         /\ Working(p) \/ Working(p)'
<1>a. pc \in [Procs -> Results \cup Syncing \cup Cleaning] /\ fault \in [Procs -> BOOLEAN]
  BY DEF TypeInv
<1> USE DEF Results, Working
<1>1. CASE SyncBegin(p)
  BY <1>1, <1>a DEF SyncBegin
<1>2. CASE Check(p) \/ Sweep(p) \/ RemoveStart(p) \/ CloneStart(p)
  BY <1>2, <1>a DEF Check, Sweep, RemoveStart, CloneStart, Go
<1>3. CASE RemoveSome(p) \/ CloneSome(p) \/ CheckoutSome(p)
  BY <1>3, <1>a DEF RemoveSome, CloneSome, CheckoutSome, Removing
<1>4. CASE RemoveEnd(p) \/ CloneDone(p) \/ CheckoutStart(p) \/ CheckoutDone(p)
  BY <1>4, <1>a DEF RemoveEnd, CloneDone, CheckoutStart, CheckoutDone, Go
<1>4a. CASE GitFails(p) \/ GitLost(p) \/ Validate(p) \/ Rename(p)
  BY <1>4a, <1>a DEF GitFails, GitLost, Git, Validate, Rename, Go
<1>5. CASE CleanBegin(p)
  BY <1>5, <1>a DEF CleanBegin
<1>6. CASE CleanSome(p) \/ CleanEnd(p) \/ Kill(p)
  BY <1>6, <1>a DEF CleanSome, CleanEnd, Kill, Go
<1>7. QED
  BY <1>1, <1>2, <1>3, <1>4, <1>4a, <1>5, <1>6 DEF ProcStep, SyncStep

\* Every step keeps the types.
LEMMA TypeStep == TypeInv /\ [Next]_vars => TypeInv'
<1> SUFFICES ASSUME TypeInv, [Next]_vars PROVE TypeInv'
  OBVIOUS
<1>1. ASSUME NEW p \in Procs, ProcStep(p) \/ Kill(p)
      PROVE  /\ pc' \in [Procs -> Results \cup Syncing \cup Cleaning] /\ fault' \in [Procs -> BOOLEAN]
             /\ tmp' \in Dirs \cup {Missing} /\ cache' \in Dirs \cup {Missing}
             /\ count' \in [syncs : Nat, cleans : Nat, kills : Nat]
  <2>a. /\ pc \in [Procs -> Results \cup Syncing \cup Cleaning] /\ fault \in [Procs -> BOOLEAN]
        /\ tmp \in Dirs \cup {Missing} /\ cache \in Dirs \cup {Missing}
        /\ count \in [syncs : Nat, cleans : Nat, kills : Nat]
    BY DEF TypeInv
  <2>b. /\ \A d \in Dirs \cup {Missing} : Without(d, p) \in Dirs \cup {Missing}
        /\ Started(p) \in Dirs
    BY DirSteps, DirFacts DEF Without
  <2> USE DEF Results, Syncing, Cleaning, Git, Removing, Go
  <2>1. CASE SyncBegin(p)
    BY <2>1, <2>a DEF SyncBegin
  <2>2. CASE Check(p) \/ Sweep(p) \/ Validate(p)
    BY <2>2, <2>a DEF Check, Sweep, Validate
  <2>3. CASE RemoveStart(p)
    <3>1. tmp \in Dirs => With(tmp, p) \in Dirs
      BY DirSteps
    <3>2. tmp' \in Dirs \cup {Missing}
      BY <2>3, <2>a, <3>1 DEF RemoveStart
    <3>3. QED
      BY <2>3, <2>a, <3>2 DEF RemoveStart
  <2>4. CASE RemoveSome(p)
    BY <2>4, <2>a, DirSteps DEF RemoveSome, In
  <2>5. CASE RemoveEnd(p)
    <3>1. cache \in Dirs => [Without(cache, p) EXCEPT !.manifest = FALSE, !.whole = FALSE] \in Dirs
      BY DirSteps DEF Dirs
    <3>2. cache' \in Dirs \cup {Missing}
      BY <2>5, <2>a, <2>b, <3>1 DEF RemoveEnd, In
    <3>3. QED
      BY <2>5, <2>a, <2>b, <3>2 DEF RemoveEnd
  <2>6. CASE CloneStart(p)
    <3>1. ASSUME tmp \in Dirs
          PROVE  [Started(p) EXCEPT !.whole = (tmp.by = {}), !.by = @ \cup tmp.by] \in Dirs
      BY <3>1, DirSteps DEF Started, Dirs
    <3>2. tmp' \in Dirs \cup {Missing}
      BY <2>6, <2>a, <2>b, <3>1 DEF CloneStart, MaybeEmpty
    <3>3. QED
      BY <2>6, <2>a, <3>2 DEF CloneStart
  <2>7. CASE CloneSome(p) \/ CheckoutSome(p)
    BY <2>7, <2>a, DirSteps DEF CloneSome, CheckoutSome, In
  <2>8. CASE CloneDone(p) \/ CheckoutDone(p)
    BY <2>8, <2>a, DirSteps DEF CloneDone, CheckoutDone, In
  <2>9. CASE CheckoutStart(p)
    BY <2>9, <2>a, DirSteps DEF CheckoutStart
  <2>10. CASE GitFails(p) \/ GitLost(p)
    BY <2>10, <2>a, <2>b DEF GitFails, GitLost
  <2>11. CASE Rename(p)
    BY <2>11, <2>a DEF Rename
  <2>12. CASE CleanBegin(p)
    BY <2>12, <2>a DEF CleanBegin
  <2>13. CASE CleanSome(p)
    <3>1. \A d \in Dirs : Losing(With(d, p)) \subseteq Dirs
      BY DirSteps
    <3>2. QED
      BY <2>13, <2>a, <3>1 DEF CleanSome
  <2>14. CASE CleanEnd(p)
    BY <2>14, <2>a, <2>b DEF CleanEnd
  <2>15. CASE Kill(p)
    BY <2>15, <2>a, <2>b DEF Kill
  <2>16. QED
    BY <1>1, <2>1, <2>2, <2>3, <2>4, <2>5, <2>6, <2>7, <2>8, <2>9, <2>10, <2>11, <2>12, <2>13, <2>14, <2>15
    DEF ProcStep, SyncStep
<1>2. CASE Next
  BY <1>1, <1>2 DEF Next, TypeInv
<1>3. CASE UNCHANGED vars
  BY <1>3 DEF vars, TypeInv
<1>4. QED
  BY <1>2, <1>3

\* The history variable says whether two processes work.
LEMMA OneWorksStep == TypeInv /\ OneWorks /\ [Next]_vars => OneWorks'
<1>1. TypeInv /\ Next => OneWorks'
  BY DEF Next, OneWorks, TypeInv
<1>2. OneWorks /\ UNCHANGED vars => OneWorks'
  BY DEF vars, OneWorks, Working
<1>3. QED
  BY <1>1, <1>2

\* A process cleans only after the clean was counted.
LEMMA CleansStep == TypeInv /\ CleansAreCounted /\ [Next]_vars => CleansAreCounted'
<1> SUFFICES ASSUME TypeInv, CleansAreCounted, [Next]_vars PROVE CleansAreCounted'
  OBVIOUS
<1>a. pc \in [Procs -> Results \cup Syncing \cup Cleaning] /\ count \in [syncs : Nat, cleans : Nat, kills : Nat]
  BY DEF TypeInv
<1> USE DEF CleansAreCounted, Cleaning
<1>1. ASSUME NEW p \in Procs, SyncBegin(p) \/ Kill(p)
      PROVE  CleansAreCounted'
  BY <1>1, <1>a DEF SyncBegin, Kill
<1>2. ASSUME NEW p \in Procs, CleanBegin(p)
      PROVE  CleansAreCounted'
  BY <1>2, <1>a DEF CleanBegin
<1>3. ASSUME NEW p \in Procs, SyncStep(p)
      PROVE  CleansAreCounted'
  <2>1. count' = count /\ pc'[p] \notin Cleaning /\ \A q \in Procs : q # p => pc'[q] = pc[q]
    <3> USE <1>a DEF Go, Git, Removing
    <3>1. CASE Check(p) \/ Sweep(p) \/ RemoveStart(p) \/ CloneStart(p)
      BY <3>1 DEF Check, Sweep, RemoveStart, CloneStart
    <3>2. CASE RemoveSome(p) \/ CloneSome(p) \/ CheckoutSome(p)
      BY <3>2 DEF RemoveSome, CloneSome, CheckoutSome
    <3>3. CASE RemoveEnd(p) \/ CloneDone(p) \/ CheckoutStart(p) \/ CheckoutDone(p)
      BY <3>3 DEF RemoveEnd, CloneDone, CheckoutStart, CheckoutDone
    <3>4. CASE GitFails(p) \/ GitLost(p) \/ Validate(p) \/ Rename(p)
      BY <3>4 DEF GitFails, GitLost, Validate, Rename
    <3>5. QED
      BY <1>3, <3>1, <3>2, <3>3, <3>4 DEF SyncStep
  <2>2. QED
    BY <2>1
<1>4. ASSUME NEW p \in Procs, CleanSome(p) \/ CleanEnd(p)
      PROVE  CleansAreCounted'
  BY <1>4, <1>a DEF CleanSome, CleanEnd, Go
<1>5. CASE UNCHANGED vars
  BY <1>5 DEF vars
<1>6. QED
  BY <1>1, <1>2, <1>3, <1>4, <1>5 DEF Next, ProcStep

\* What a process works on alone is as it left it.
LEMMA AloneStep ==
  TypeInv /\ OneWorks /\ OneWorks' /\ CleansAreCounted /\ Alone /\ [Next]_vars => Alone'
<1>1. Alone /\ UNCHANGED vars => Alone'
  BY DEF vars, Alone, Slot, FoundBy, Populated, In
<1>2. ASSUME TypeInv, OneWorks, OneWorks', CleansAreCounted, Alone, Next, ~overlap', ~torn'
      PROVE  Slot' /\ \A q \in Procs : FoundBy(q)'
  <2>a. /\ pc \in [Procs -> Results \cup Syncing \cup Cleaning] /\ fault \in [Procs -> BOOLEAN]
        /\ revIsOk \in BOOLEAN /\ count \in [syncs : Nat, cleans : Nat, kills : Nat] /\ revIsOk' = revIsOk
    BY <1>2 DEF TypeInv, Next
  <2>b. ~overlap /\ ~torn /\ Slot /\ \A q \in Procs : FoundBy(q)
    BY <1>2 DEF Next, TypeInv, Alone
  <2>c. PICK p \in Procs : ProcStep(p) \/ Kill(p)
    BY <1>2 DEF Next
  <2>d. /\ pc' = [pc EXCEPT ![p] = pc'[p]]
        /\ \A q \in Procs : q # p => pc'[q] = pc[q] /\ fault'[q] = fault[q] /\ ~Working(q)
    BY <1>2, <2>a, <2>b, <2>c, OthersStay DEF OneWorks, Next, Working
  <2>e. /\ \A q \in Procs : q # p => pc[q] \in Results /\ ~In(q, tmp) /\ pc'[q] \in Results
        /\ tmp \in Dirs \cup {Missing} /\ (tmp # Missing => tmp \in Dirs /\ tmp.by \subseteq {p})
    <3>1. \A q \in Procs : q # p => pc[q] \in Results /\ ~In(q, tmp) /\ pc'[q] \in Results
      BY <2>b, <2>d DEF Working, FoundBy, Results, Git, Removing
    <3>2. QED
      BY <1>2, <3>1, DirSteps DEF TypeInv, In
\* It is enough to look at p, at the slot, and at the syncs that said ok.
  <2>f. ASSUME FoundBy(p)', tmp' # Missing => tmp'.by \subseteq {p},
               pc'[p] # "cleaning" => cache' = Missing \/ Populated',
               count'.cleans = 0 => count.cleans = 0 /\ (Populated => Populated')
        PROVE  Slot' /\ \A q \in Procs : FoundBy(q)'
    <3>1. Slot'
      BY <2>f DEF Slot
    <3>2. ASSUME NEW q \in Procs, q # p
          PROVE  FoundBy(q)'
      <4>1. ~In(q, tmp)'
        BY <2>f, <3>2 DEF In
      <4>2. pc'[q] = pc[q] /\ pc[q] \in Results /\ fault'[q] = fault[q]
        BY <2>d, <2>e, <3>2
      <4>3. QED
        BY <2>a, <2>b, <2>f, <3>2, <4>1, <4>2 DEF FoundBy, Results, Syncing, Git, Removing
    <3>3. QED
      BY <2>f, <3>1, <3>2
  <2>g. FoundBy(p) /\ (pc[p] # "cleaning" => cache = Missing \/ Populated)
    <3>1. pc[p] # "cleaning" => \A q \in Procs : pc[q] # "cleaning"
      BY <2>e DEF Results
    <3>2. QED
      BY <2>b, <3>1 DEF Slot
  <2>i. tmp # Missing =>
          /\ With(tmp, p) \in Dirs /\ With(tmp, p) # Missing
          /\ With(tmp, p).by = tmp.by \cup {p} /\ With(tmp, p).whole = tmp.whole
          /\ \A c \in {"head", "rev"} : \A e \in Written(tmp, c, p) : tmp.whole /\ tmp.by = {p} => e = Tree(c)
          /\ \A e \in Losing(With(tmp, p)) : e.by = tmp.by \cup {p}
    <3>1. ASSUME tmp # Missing
          PROVE  With(tmp, p) \in Dirs /\ With(tmp, p) # Missing
      BY <2>e, <3>1, DirSteps
    <3>2. ASSUME tmp # Missing
          PROVE  \A e \in Losing(With(tmp, p)) : e.by = With(tmp, p).by
      BY <3>1, <3>2, DirSteps
    <3>3. ASSUME tmp # Missing
          PROVE  With(tmp, p).by = tmp.by \cup {p} /\ With(tmp, p).whole = tmp.whole
      BY <2>e, <3>3, DirSteps
    <3>4. ASSUME tmp # Missing, tmp.whole, tmp.by = {p}
          PROVE  \A c \in {"head", "rev"} : \A e \in Written(tmp, c, p) : e = Tree(c)
      BY <2>e, <3>4, DirSteps
    <3>5. QED
      BY <3>1, <3>2, <3>3, <3>4
  <2>h. pc[p] \notin Git \cup Removing \cup {"cleaning"} => (tmp # Missing => tmp.by = {})
    BY <2>e, <2>g DEF FoundBy, In
  <2> USE DEF FoundBy, Populated, Results, Syncing, Git, Removing, In
  <2>1. CASE SyncBegin(p)
    <3>1. /\ UNCHANGED <<tmp, cache>> /\ pc'[p] = "check" /\ count'.cleans = count.cleans
          /\ pc[p] \in Results
      BY <2>1, <2>a DEF SyncBegin
    <3>2. QED
      BY <3>1, <2>a, <2>e, <2>f, <2>g, <2>h
  <2>2. CASE Check(p)
    <3>1. /\ UNCHANGED <<tmp, cache, count>> /\ pc[p] = "check" /\ pc'[p] \in {"ok", "failed", "sweep"}
          /\ pc'[p] = "sweep" <=> ~(cache # Missing /\ cache.manifest)
          /\ cache # Missing /\ cache.manifest => \E v \in Verdicts(cache) : pc'[p] = IF v THEN "ok" ELSE "failed"
      BY <2>2, <2>a DEF Check, Go
    <3>2. CASE cache = Missing
      BY <3>1, <3>2, <2>a, <2>e, <2>f, <2>h
    <3>3. CASE Populated
      <4>1. cache.manifest /\ cache # Missing /\ Verdicts(cache) = {TRUE}
        BY <3>3, <2>a, DirFacts, DirSteps, TreeVerdicts
      <4>2. pc'[p] = "ok"
        BY <3>1, <4>1
      <4>3. QED
        BY <3>1, <3>3, <4>2, <2>a, <2>e, <2>f, <2>h
    <3>4. QED
      BY <3>1, <3>2, <3>3, <2>g
  <2>3. CASE Sweep(p)
    <3>1. /\ UNCHANGED <<tmp, cache, count>> /\ pc[p] = "sweep" /\ cache = Missing
          /\ pc'[p] = IF tmp = Missing THEN "clone" ELSE "remove"
      BY <2>3, <2>a, <2>g DEF Sweep, Go
    <3>2. QED
      BY <3>1, <2>a, <2>e, <2>f, <2>h
  <2>4. CASE RemoveStart(p)
    <3>1. /\ UNCHANGED <<fault, cache, count>> /\ cache = Missing
          /\ \/ tmp = Missing /\ pc[p] = "discard" /\ pc'[p] = "failed" /\ tmp' = tmp
             \/ /\ tmp # Missing /\ tmp' = With(tmp, p)
                /\ \/ pc[p] = "remove" /\ pc'[p] = "removing"
                   \/ pc[p] = "discard" /\ pc'[p] = "discarding"
      BY <2>4, <2>a, <2>g DEF RemoveStart, Go
    <3>2. tmp # Missing => tmp' \in Dirs /\ tmp' # Missing /\ tmp'.by = {p}
      BY <3>1, <2>h, <2>i
    <3>3. QED
      BY <3>1, <3>2, <2>a, <2>f, <2>g
  <2>5. CASE RemoveSome(p)
    <3>1. /\ UNCHANGED <<pc, fault, cache, count>> /\ cache = Missing /\ pc[p] \in Removing
          /\ tmp # Missing /\ tmp' \in Losing(tmp)
      BY <2>5, <2>g DEF RemoveSome
    <3>2. tmp' \in Dirs /\ tmp' # Missing /\ tmp'.by = tmp.by
      BY <3>1, <2>e, DirSteps
    <3>3. QED
      BY <3>1, <3>2, <2>a, <2>e, <2>f, <2>g
  <2>6. CASE RemoveEnd(p)
    <3>1. /\ UNCHANGED <<fault, count>> /\ cache = Missing /\ pc[p] \in Removing
          /\ pc[p] = "removing" => tmp # Missing /\ tmp.by = {p}
      BY <2>6, <2>g DEF RemoveEnd, Go
    <3>2. CASE pc[p] = "removing"
      <4>1. pc'[p] = "clone" /\ tmp' = Missing /\ cache' = cache
        BY <2>6, <3>1, <3>2, <2>a DEF RemoveEnd, Go
      <4>2. QED
        BY <3>1, <4>1, <2>a, <2>f
    <3>3. CASE pc[p] = "discarding"
      <4>1. pc'[p] = "failed" /\ cache' = Missing
        BY <2>6, <3>1, <3>3, <2>a DEF RemoveEnd, Go, Without
      <4>2. tmp' # Missing => tmp'.by \subseteq {} 
        <5>1. tmp' = Missing \/ (tmp' = tmp /\ ~In(p, tmp)) \/ (tmp # Missing /\ tmp' = Without(tmp, p))
          BY <2>6, <3>1, <3>3, <2>a DEF RemoveEnd, Go, Without
        <5>2. QED
          BY <5>1, <2>e, DirSteps
      <4>3. QED
        BY <3>1, <3>3, <4>1, <4>2, <2>a, <2>f, <2>g
    <3>4. QED
      BY <3>1, <3>2, <3>3
  <2>7. CASE CloneStart(p)
    <3>1. /\ UNCHANGED <<cache, count>> /\ cache = Missing /\ pc'[p] = "cloning" /\ tmp' = Started(p)
      BY <2>7, <2>a, <2>g DEF CloneStart, Go, MaybeEmpty
    <3>2. tmp' # Missing /\ tmp'.by = {p} /\ tmp'.whole
      BY <3>1, DirFacts, DirSteps
    <3>3. QED
      BY <3>1, <3>2, <2>a, <2>f
  <2>8. CASE CloneSome(p) \/ CheckoutSome(p)
    <3>1. /\ UNCHANGED <<pc, fault, cache, count>> /\ cache = Missing /\ pc[p] \in Git
          /\ tmp # Missing /\ tmp.by = {p} /\ tmp.whole /\ tmp' \in Writing(tmp)
      BY <2>8, <2>g DEF CloneSome, CheckoutSome
    <3>2. tmp' # Missing /\ tmp'.by = {p} /\ tmp'.whole
      BY <3>1, <2>e, DirSteps
    <3>3. QED
      BY <3>1, <3>2, <2>a, <2>f
  <2>9. CASE CloneDone(p)
    <3>1. /\ UNCHANGED <<cache, count>> /\ cache = Missing /\ pc[p] = "cloning" /\ pc'[p] = "checkout"
          /\ tmp # Missing /\ tmp.by = {p} /\ tmp.whole /\ tmp' \in Written(tmp, "head", p)
      BY <2>9, <2>a, <2>g DEF CloneDone, Go
    <3>2. tmp' = Tree("head") /\ tmp'.by = {}
      BY <3>1, <2>i, DirFacts
    <3>3. QED
      BY <3>1, <3>2, <2>a, <2>f
  <2>10. CASE CheckoutStart(p)
    <3>1. /\ UNCHANGED <<fault, cache, count>> /\ cache = Missing /\ pc[p] = "checkout" /\ tmp = Tree("head")
      BY <2>10, <2>a, <2>g DEF CheckoutStart, Go
    <3>2. ~Unusable(tmp)
      BY <3>1, <2>e, DirFacts, DirSteps DEF Unusable, Busy
    <3>3. pc'[p] = "checking" /\ tmp' = With(tmp, p)
      BY <2>10, <3>1, <3>2, <2>a DEF CheckoutStart, Go
    <3>4. tmp' # Missing /\ tmp'.by = {p} /\ tmp'.whole
      BY <3>1, <3>3, <2>i, DirFacts, MissingAssumption
    <3>5. QED
      BY <3>1, <3>3, <3>4, <2>a, <2>f
  <2>11. CASE CheckoutDone(p)
    <3>1. /\ UNCHANGED <<cache, count>> /\ cache = Missing /\ pc[p] = "checking" /\ pc'[p] = "validate"
          /\ tmp # Missing /\ tmp.by = {p} /\ tmp.whole /\ tmp' \in Written(tmp, "rev", p)
      BY <2>11, <2>a, <2>g DEF CheckoutDone, Go
    <3>2. tmp' = Tree("rev") /\ tmp'.by = {}
      BY <3>1, <2>i, DirFacts
    <3>3. QED
      BY <3>1, <3>2, <2>a, <2>f
  <2>11a. CASE GitFails(p)
    <3>1. /\ cache = Missing /\ count' = count /\ fault'[p] /\ pc'[p] = "discard"
          /\ tmp # Missing /\ tmp.by = {p} /\ tmp' = Without(tmp, p) /\ cache' = Without(cache, p)
      BY <2>11a, <2>a, <2>g DEF GitFails
    <3>2. tmp'.by = {} /\ cache' = Missing
      BY <3>1, <2>e, DirSteps DEF Without
    <3>3. QED
      BY <3>1, <3>2, <2>a, <2>f
  <2>11b. CASE GitLost(p)
    BY <2>11b, <2>a, <2>g DEF GitLost, Go
  <2>11c. CASE Validate(p)
    <3>1. UNCHANGED <<fault, tmp, cache, count>> /\ pc[p] = "validate" /\ cache = Missing /\ tmp = Tree("rev")
      BY <2>11c, <2>a, <2>g DEF Validate, Go
    <3>2. pc'[p] = IF revIsOk THEN "rename" ELSE "discard"
      BY <2>11c, <2>a, <3>1, TreeVerdicts DEF Validate, Go
    <3>3. tmp'.by = {}
      BY <3>1, DirFacts
    <3>4. QED
      BY <3>1, <3>2, <3>3, <2>a, <2>f
  <2>11d. CASE Rename(p)
    <3>1. count' = count /\ pc[p] = "rename" /\ cache = Missing /\ tmp = Tree("rev") /\ tmp # Missing /\ revIsOk
      BY <2>11d, <2>a, <2>g, DirFacts, DirSteps DEF Rename, Go
    <3>2. pc'[p] = "ok" /\ cache' = Tree("rev") /\ tmp' = Missing
      BY <2>11d, <2>a, <3>1 DEF Rename, Go
    <3>3. QED
      BY <3>1, <3>2, <2>a, <2>f
  <2>12. CASE CleanBegin(p)
    <3>1. /\ UNCHANGED <<tmp, cache>> /\ pc'[p] = "clean" /\ count'.cleans = count.cleans + 1
          /\ pc[p] \in Results /\ count.cleans \in Nat
      BY <2>12, <2>a DEF CleanBegin
    <3>2. QED
      BY <3>1, <2>a, <2>e, <2>f, <2>g, <2>h
  <2>13. CASE CleanSome(p)
    <3>1. /\ count' = count /\ pc[p] \in Cleaning /\ pc'[p] = "cleaning"
          /\ tmp' = tmp \/ (tmp # Missing /\ tmp' \in Losing(With(tmp, p)))
      BY <2>13, <2>a DEF CleanSome, Go, Cleaning
    <3>2. count.cleans > 0
      BY <1>2, <3>1 DEF CleansAreCounted
    <3>3. tmp' # Missing => tmp'.by \subseteq {p}
      BY <3>1, <2>e, <2>i
    <3>4. QED
      BY <3>1, <3>2, <3>3, <2>a, <2>f
  <2>14. CASE CleanEnd(p)
    <3>1. count' = count /\ pc[p] \in Cleaning /\ pc'[p] = "idle" /\ tmp' = Missing /\ cache' = Missing
      BY <2>14, <2>a, <2>e DEF CleanEnd, Go, Cleaning, Working
    <3>2. count.cleans > 0
      BY <1>2, <3>1 DEF CleansAreCounted
    <3>3. QED
      BY <3>1, <3>2, <2>a, <2>f
  <2>15. CASE Kill(p)
    <3>1. /\ pc'[p] = "idle" /\ tmp' = Without(tmp, p) /\ cache' = Without(cache, p)
          /\ count'.cleans = count.cleans /\ count'.kills > count.kills
      BY <2>15, <2>a DEF Kill
    <3>2. pc[p] # "cleaning"
      BY <1>2, <3>1 DEF Next, TypeInv
    <3>3. cache' = cache
      <4>1. Tree("rev") \in Dirs /\ Without(Tree("rev"), p) = Tree("rev")
        BY DirFacts, DirSteps DEF Without, Tree
      <4>2. QED
        BY <3>1, <3>2, <2>g, <4>1 DEF Without
    <3>4. tmp' # Missing => tmp'.by = {}
      BY <3>1, <2>e, DirSteps DEF Without
    <3>5. QED
      BY <3>1, <3>2, <3>3, <3>4, <2>a, <2>f, <2>g
  <2>16. QED
    BY <2>c, <2>1, <2>2, <2>3, <2>4, <2>5, <2>6, <2>7, <2>8, <2>9, <2>10, <2>11, <2>11a, <2>11b, <2>11c, <2>11d,
       <2>12, <2>13, <2>14, <2>15
    DEF ProcStep, SyncStep
<1>3. QED
  BY <1>1, <1>2 DEF Alone

-----------------------------------------------------------------------------
\* The inductive invariant: what one process at a time finds, and that there
\* is one process at a time unless the history variable says otherwise.
THEOREM Invariance == Spec => []IInv
<1>1. Init => IInv
  <2>1. Init => TypeInv
    <3>1. [p \in Procs |-> "idle"] \in [Procs -> Results \cup Syncing \cup Cleaning]
      BY DEF Results
    <3>2. [p \in Procs |-> FALSE] \in [Procs -> BOOLEAN]
      OBVIOUS
    <3>3. [syncs |-> 0, cleans |-> 0, kills |-> 0] \in [syncs : Nat, cleans : Nat, kills : Nat]
      OBVIOUS
    <3>4. QED
      BY <3>1, <3>2, <3>3 DEF Init, TypeInv
  <2>2. Init => OneWorks /\ CleansAreCounted
    BY DEF Init, OneWorks, CleansAreCounted, Working, Results, Cleaning
  <2>3. Init => Alone
    BY DEF Init, Alone, Slot, FoundBy, Syncing, Git, Removing, In
  <2>4. QED
    BY <2>1, <2>2, <2>3 DEF IInv
<1>2. IInv /\ [Next]_vars => IInv'
  BY TypeStep, OneWorksStep, CleansStep, AloneStep DEF IInv
<1>3. QED
  BY <1>1, <1>2, PTL DEF Spec

\* Processes that do not work at the same time keep the slot either absent or
\* the whole tree of a valid rev, whatever git does and whatever sync is killed.
THEOREM SlotHoldsTheRev == Spec => []SlotIsTheRev
<1>1. IInv => SlotIsTheRev
  BY DEF IInv, Alone, Slot, SlotIsTheRev
<1>2. QED
  BY <1>1, Invariance, PTL

\* A sync that says ok has put the package into the slot, and one that fails
\* has a cause outside: it never fails over what a killed sync left behind.
THEOREM SyncsTellTheTruth == Spec => []OutcomesAreRight
<1>1. IInv => OutcomesAreRight
  BY DEF IInv, Alone, FoundBy, OutcomesAreRight
<1>2. QED
  BY <1>1, Invariance, PTL

\* However many processes overlap, a slot with a manifest in which nothing is
\* at work is left alone by all syncs: rename(2) onto a directory that is there
\* and not empty fails, and git and removals only ever open the scratch directory.
THEOREM SlotIsKept == Spec => SlotAtRestIsKept
<1>1. ASSUME TypeInv, [Next]_vars, cache # Missing, cache.manifest, cache.by = {}, \A p \in Procs : pc[p] \notin Cleaning
      PROVE  cache' = cache
  <2>1. cache \in Dirs /\ \A p \in Procs : Without(cache, p) = cache
    <3>1. cache \in [of : {"nothing", "head", "some", "rev"}, manifest : BOOLEAN, whole : BOOLEAN, by : SUBSET Procs]
      BY <1>1 DEF TypeInv, Dirs
    <3>2. QED
      BY <1>1, <3>1 DEF Without, Dirs
  <2>2. ASSUME NEW p \in Procs, SyncStep(p)
        PROVE  cache' = cache
    <3>1. CASE Check(p) \/ Sweep(p) \/ RemoveStart(p) \/ CloneStart(p) \/ CheckoutStart(p) \/ Validate(p)
      BY <3>1 DEF Check, Sweep, RemoveStart, CloneStart, CheckoutStart, Validate
    <3>2. CASE RemoveSome(p) \/ CloneSome(p) \/ CloneDone(p) \/ CheckoutSome(p) \/ CheckoutDone(p)
      BY <1>1, <3>2 DEF RemoveSome, CloneSome, CloneDone, CheckoutSome, CheckoutDone, In
    <3>3. CASE RemoveEnd(p) \/ GitFails(p) \/ GitLost(p)
      BY <1>1, <2>1, <3>3 DEF RemoveEnd, GitFails, GitLost, In
    <3>4. CASE Rename(p)
      BY <1>1, <3>4 DEF Rename, MaybeEmpty
    <3>5. QED
      BY <2>2, <3>1, <3>2, <3>3, <3>4 DEF SyncStep
  <2>3. ASSUME NEW p \in Procs, SyncBegin(p) \/ CleanBegin(p) \/ Kill(p)
        PROVE  cache' = cache
    BY <2>1, <2>3 DEF SyncBegin, CleanBegin, Kill
  <2>4. ASSUME NEW p \in Procs, CleanSome(p) \/ CleanEnd(p)
        PROVE  FALSE
    BY <1>1, <2>4 DEF CleanSome, CleanEnd, Go, Cleaning
  <2>5. QED
    BY <1>1, <2>2, <2>3, <2>4 DEF Next, ProcStep, vars
<1>2. IInv => TypeInv
  BY DEF IInv
<1>3. TypeInv /\ [Next]_vars
        => [cache # Missing /\ cache.manifest /\ cache.by = {} /\ (\A p \in Procs : pc[p] \notin Cleaning) => cache' = cache]_vars
  BY <1>1
<1>4. QED
  BY <1>2, <1>3, Invariance, PTL DEF Spec, SlotAtRestIsKept
=============================================================================
