------------------------------ MODULE PkgCache ------------------------------
(***************************************************************************)
(* The cache slot of one git dependency at one rev, shared by every tyra   *)
(* process of the user (tools/tyra-pkg/src/lib.rs, sync_git_dep and        *)
(* run_clean).  Processes sync it, clean the whole cache, and are killed,  *)
(* git with them, between any two steps.  The scratch directory next to    *)
(* the slot is named after the dependency and the rev: it too is shared.   *)
(*                                                                         *)
(* A directory is what a reader can tell of it: the commit its files are   *)
(* of, whether Tyra.toml is there, whether a removal has taken files of    *)
(* it, and the processes whose git or removal is at work in it.  Paths in  *)
(* the code are looked up at every step, but a git that runs and a removal *)
(* that has begun stay in the directory they opened, wherever it is moved. *)
(***************************************************************************)
EXTENDS Naturals

CONSTANTS Procs,
          Missing,    \* no directory
          MaxSyncs,   \* bound: syncs started
          MaxCleans,  \* bound: cleans started
          MaxKills    \* bound: processes killed

\* Of "some", git is writing, or was killed while it did.
Dirs == [of : {"nothing", "head", "some", "rev"}, manifest : BOOLEAN, whole : BOOLEAN, by : SUBSET Procs]
ASSUME MissingAssumption == Missing \notin Dirs

Started(p) == [of |-> "nothing", manifest |-> FALSE, whole |-> TRUE, by |-> {p}]
Tree(c)    == [of |-> c, manifest |-> TRUE, whole |-> TRUE, by |-> {}]

VARIABLES
  pc,       \* what each process is at
  fault,    \* history: git failed in the last sync of the process
  tmp,      \* the scratch directory, or Missing
  cache,    \* the slot, or Missing
  revIsOk,  \* the tree at the rev passes validate_dep_root
  count,    \* how many syncs, cleans and kills there were
  overlap,  \* history: two processes have worked at a time
  torn      \* history: a clean was killed half way

vars == <<pc, fault, tmp, cache, revIsOk, count, overlap, torn>>

Results  == {"idle", "ok", "failed"}
Git      == {"cloning", "checking"}
Removing == {"removing", "discarding"}
Syncing  == Git \cup Removing \cup {"check", "sweep", "remove", "clone", "checkout", "validate", "rename", "discard"}
Cleaning == {"clean", "cleaning"}
Working(p) == pc[p] \notin Results

Init == /\ pc      = [p \in Procs |-> "idle"]
        /\ fault   = [p \in Procs |-> FALSE]
        /\ tmp     = Missing
        /\ cache   = Missing
        /\ revIsOk \in BOOLEAN
        /\ count   = [syncs |-> 0, cleans |-> 0, kills |-> 0]
        /\ overlap = FALSE
        /\ torn    = FALSE

In(p, dir)      == dir # Missing /\ p \in dir.by
With(dir, p)    == [dir EXCEPT !.by = @ \cup {p}]
Without(dir, p) == IF dir = Missing THEN Missing ELSE [dir EXCEPT !.by = @ \ {p}]

\* What a removal in dir may leave for the moment; it may be all.
Losing(dir)     == {[dir EXCEPT !.manifest = FALSE, !.whole = FALSE], [dir EXCEPT !.whole = FALSE]}
MaybeEmpty(dir) == dir # Missing /\ ~dir.manifest /\ ~dir.whole

\* What the git of p has begun, and what it leaves when it is done with commit c.
Writing(dir)       == {[dir EXCEPT !.of = "some", !.manifest = m] : m \in BOOLEAN}
Written(dir, c, p) == {[dir EXCEPT !.of = c, !.manifest = m, !.by = @ \ {p}] :
                        m \in IF dir.whole THEN {TRUE} ELSE BOOLEAN}

Go(p, from, to) == pc[p] = from /\ pc' = [pc EXCEPT ![p] = to]

\* validate_dep_root: without Tyra.toml it fails; a tree that is being written
\* or that lost other files may lack the root module.
Verdicts(dir) ==
  IF dir = Missing \/ ~dir.manifest \/ (dir.of = "rev" /\ ~revIsOk) THEN {FALSE}
  ELSE IF dir.of = "rev" /\ dir.whole THEN {TRUE} ELSE BOOLEAN

-----------------------------------------------------------------------------
(* tyra mod sync.                                                          *)

SyncBegin(p) ==
  /\ count.syncs < MaxSyncs
  /\ pc[p] \in Results
  /\ pc'    = [pc EXCEPT ![p] = "check"]
  /\ fault' = [fault EXCEPT ![p] = FALSE]
  /\ count' = [count EXCEPT !.syncs = @ + 1]
  /\ UNCHANGED <<tmp, cache>>

\* Already in the cache?
Check(p) ==
  /\ IF cache # Missing /\ cache.manifest
       THEN \E valid \in Verdicts(cache) : Go(p, "check", IF valid THEN "ok" ELSE "failed")
       ELSE Go(p, "check", "sweep")
  /\ UNCHANGED <<fault, tmp, cache, count>>

\* Variants named X_... stand for a bug in X that a property has to notice.
Sweep_LeftOver(p) ==
  /\ Go(p, "sweep", "clone")
  /\ UNCHANGED <<fault, tmp, cache, count>>

\* Is there a scratch directory of an earlier sync?
Sweep(p) ==
  /\ Go(p, "sweep", IF tmp = Missing THEN "clone" ELSE "remove")
  /\ UNCHANGED <<fault, tmp, cache, count>>

\* remove_dir_all fails when there is nothing under the name.
RemoveStart(p) ==
  /\ IF tmp = Missing
       THEN (Go(p, "remove", "failed") \/ Go(p, "discard", "failed")) /\ UNCHANGED tmp
       ELSE (Go(p, "remove", "removing") \/ Go(p, "discard", "discarding")) /\ tmp' = With(tmp, p)
  /\ UNCHANGED <<fault, cache, count>>

\* It goes file by file: Tyra.toml or others first.
RemoveSome(p) ==
  /\ pc[p] \in Removing
  /\ \/ In(p, tmp)   /\ tmp' \in Losing(tmp)     /\ UNCHANGED cache
     \/ In(p, cache) /\ cache' \in Losing(cache) /\ UNCHANGED tmp
  /\ UNCHANGED <<pc, fault, count>>

\* It ends with the directory, unless that was moved meanwhile; then, or when
\* others write there too, it may also fail.  What discards does not mind.
RemoveEnd(p) ==
  /\ \/ /\ Go(p, "removing", "clone") \/ Go(p, "discarding", "failed")
        /\ IF In(p, tmp) THEN tmp' = Missing /\ UNCHANGED cache
           ELSE /\ UNCHANGED tmp
                /\ cache' = IF In(p, cache) THEN [Without(cache, p) EXCEPT !.manifest = FALSE, !.whole = FALSE]
                                            ELSE cache
     \/ /\ Go(p, "removing", "failed") \/ Go(p, "discarding", "failed")
        /\ In(p, tmp) => tmp.by # {p}
        /\ tmp' = Without(tmp, p) /\ cache' = Without(cache, p)
  /\ UNCHANGED <<fault, count>>

\* git clone refuses a directory that is there and not empty.
CloneStart(p) ==
  /\ \/ Go(p, "clone", "cloning") /\ tmp = Missing     /\ tmp' = Started(p)
     \/ Go(p, "clone", "cloning") /\ MaybeEmpty(tmp)
          /\ tmp' = [Started(p) EXCEPT !.whole = (tmp.by = {}), !.by = @ \cup tmp.by]
     \/ Go(p, "clone", "discard") /\ tmp # Missing     /\ UNCHANGED tmp
  /\ UNCHANGED <<fault, cache, count>>

\* The clone checks the default branch out, file by file.
CloneSome(p) ==
  /\ pc[p] = "cloning"
  /\ \/ In(p, tmp)   /\ tmp.of = "nothing"   /\ tmp' \in Writing(tmp)     /\ UNCHANGED cache
     \/ In(p, cache) /\ cache.of = "nothing" /\ cache' \in Writing(cache) /\ UNCHANGED tmp
  /\ UNCHANGED <<pc, fault, count>>

CloneDone(p) ==
  /\ Go(p, "cloning", "checkout")
  /\ \/ In(p, tmp)   /\ tmp' \in Written(tmp, "head", p)     /\ UNCHANGED cache
     \/ In(p, cache) /\ cache' \in Written(cache, "head", p) /\ UNCHANGED tmp
  /\ UNCHANGED <<fault, count>>

\* git -C: the scratch directory as it is now found.  It needs a clone, and the
\* index to itself; a git that was killed may have left the index locked.
Busy(dir)     == \E q \in dir.by : pc[q] \in Git
Unusable(dir) == dir # Missing => dir.of \in {"nothing", "some"} \/ Busy(dir)

CheckoutStart(p) ==
  /\ \/ /\ Go(p, "checkout", "checking")
        /\ tmp # Missing /\ tmp.of # "nothing" /\ ~Busy(tmp)
        /\ tmp' = With(tmp, p)
     \/ /\ Go(p, "checkout", "discard")
        /\ Unusable(tmp)
        /\ UNCHANGED tmp
  /\ UNCHANGED <<fault, cache, count>>

\* From the default branch's files to the rev's, one by one.
CheckoutSome(p) ==
  /\ pc[p] = "checking"
  /\ \/ In(p, tmp)   /\ tmp.of = "head"   /\ tmp' \in Writing(tmp)     /\ UNCHANGED cache
     \/ In(p, cache) /\ cache.of = "head" /\ cache' \in Writing(cache) /\ UNCHANGED tmp
  /\ UNCHANGED <<pc, fault, count>>

CheckoutDone(p) ==
  /\ Go(p, "checking", "validate")
  /\ \/ In(p, tmp)   /\ tmp' \in Written(tmp, "rev", p)     /\ UNCHANGED cache
     \/ In(p, cache) /\ cache' \in Written(cache, "rev", p) /\ UNCHANGED tmp
  /\ UNCHANGED <<fault, count>>

\* No network, no such rev.
GitFails(p) ==
  /\ pc[p] \in Git
  /\ pc'    = [pc EXCEPT ![p] = "discard"]
  /\ fault' = [fault EXCEPT ![p] = TRUE]
  /\ tmp'   = Without(tmp, p)
  /\ cache' = Without(cache, p)
  /\ UNCHANGED count

\* Or the directory was moved or removed under it, or is being removed.
GitLost(p) ==
  /\ Go(p, "cloning", "discard") \/ Go(p, "checking", "discard")
  /\ In(p, tmp) => ~tmp.whole
  /\ tmp'   = Without(tmp, p)
  /\ cache' = Without(cache, p)
  /\ UNCHANGED <<fault, count>>

Validate_KeepsGoing(p) ==
  /\ Go(p, "validate", "rename")
  /\ UNCHANGED <<fault, tmp, cache, count>>

Validate(p) ==
  /\ \E valid \in Verdicts(tmp) : Go(p, "validate", IF valid THEN "rename" ELSE "discard")
  /\ UNCHANGED <<fault, tmp, cache, count>>

\* The slot is moved out of the way first.
Rename_Replaces(p) ==
  /\ IF tmp # Missing THEN Go(p, "rename", "ok") /\ cache' = tmp /\ tmp' = Missing
                      ELSE Go(p, "rename", "discard") /\ UNCHANGED <<tmp, cache>>
  /\ UNCHANGED <<fault, count>>

Rename_Retries(p) ==
  /\ IF tmp # Missing THEN Go(p, "rename", "ok") /\ cache = Missing /\ cache' = tmp /\ tmp' = Missing
                      ELSE Go(p, "rename", "discard") /\ UNCHANGED <<tmp, cache>>
  /\ UNCHANGED <<fault, count>>

\* rename fails on a directory that is there and not empty.  What is at work in
\* the scratch directory goes with it.
Rename(p) ==
  /\ \/ Go(p, "rename", "ok") /\ tmp # Missing /\ (cache = Missing \/ MaybeEmpty(cache))
          /\ cache' = tmp /\ tmp' = Missing
     \/ Go(p, "rename", "discard") /\ (tmp = Missing \/ cache # Missing) /\ UNCHANGED <<tmp, cache>>
  /\ UNCHANGED <<fault, count>>

SyncStep(p) == \/ Check(p) \/ Sweep(p) \/ RemoveStart(p) \/ RemoveSome(p) \/ RemoveEnd(p)
               \/ CloneStart(p) \/ CloneSome(p) \/ CloneDone(p) \/ CheckoutStart(p) \/ CheckoutSome(p)
               \/ CheckoutDone(p) \/ GitFails(p) \/ GitLost(p) \/ Validate(p) \/ Rename(p)

-----------------------------------------------------------------------------
(* tyra mod clean, and kills.                                              *)

CleanBegin(p) ==
  /\ count.cleans < MaxCleans
  /\ pc[p] \in Results
  /\ pc'    = [pc EXCEPT ![p] = "clean"]
  /\ count' = [count EXCEPT !.cleans = @ + 1]
  /\ UNCHANGED <<fault, tmp, cache>>

\* It removes the scratch directories and the slots.
CleanSome(p) ==
  /\ Go(p, "clean", "cleaning") \/ Go(p, "cleaning", "cleaning")
  /\ \/ tmp # Missing   /\ tmp' \in Losing(With(tmp, p))     /\ UNCHANGED cache
     \/ cache # Missing /\ cache' \in Losing(With(cache, p)) /\ UNCHANGED tmp
  /\ UNCHANGED <<fault, count>>

\* Others at work in the cache can make it fail.
CleanEnd(p) ==
  /\ Go(p, "clean", "idle") \/ Go(p, "cleaning", "idle")
  /\ \/ tmp' = Missing /\ cache' = Missing
     \/ /\ \E q \in Procs \ {p} : Working(q)
        /\ tmp' = Without(tmp, p) /\ cache' = Without(cache, p)
  /\ UNCHANGED <<fault, count>>

Kill(p) ==
  /\ count.kills < MaxKills
  /\ pc[p] \notin Results
  /\ pc'    = [pc EXCEPT ![p] = "idle"]
  /\ count' = [count EXCEPT !.kills = @ + 1]
  /\ tmp'   = Without(tmp, p)
  /\ cache' = Without(cache, p)
  /\ UNCHANGED fault

ProcStep(p) == SyncBegin(p) \/ SyncStep(p) \/ CleanBegin(p) \/ CleanSome(p) \/ CleanEnd(p)

Next ==
  /\ \E p \in Procs : ProcStep(p) \/ Kill(p)
  /\ overlap' = (overlap \/ \E p, q \in Procs : p # q /\ Working(p)' /\ Working(q)')
  /\ torn'    = (torn \/ \E p \in Procs : pc[p] = "cleaning" /\ count'.kills > count.kills /\ pc'[p] = "idle")
  /\ UNCHANGED revIsOk

\* A process that is not killed goes on, and git comes back.
Fairness == \A p \in Procs : WF_vars(Next /\ SyncStep(p))

Spec == Init /\ [][Next]_vars /\ Fairness

-----------------------------------------------------------------------------

\* The slot holds the whole tree of the rev, and the rev may be imported.
Populated == cache = Tree("rev") /\ revIsOk

\* Processes that do not work at the same time keep the slot either absent or
\* the whole tree of a valid rev, whatever is killed in the middle of a sync
\* and whatever git does; only a clean, running or killed, leaves less.
SlotIsTheRev ==
  ~overlap /\ ~torn /\ (\A p \in Procs : pc[p] # "cleaning") =>
    cache = Missing \/ Populated

\* Then, too, a sync that says ok has put it there, and one that fails has a
\* cause outside: nothing an earlier killed sync left behind makes it fail.
OutcomesAreRight ==
  \A p \in Procs : ~overlap /\ ~torn =>
    /\ pc[p] = "ok" /\ (\A q \in Procs : pc[q] \notin Cleaning) /\ count.cleans = 0 => Populated
    /\ pc[p] = "failed" => fault[p] \/ ~revIsOk

\* Even when syncs do work at the same time, a slot with Tyra.toml in which
\* nothing is at work stays as it is: no sync takes it away from a package that
\* is in it, exchanges its files, or begins to work in it.
SlotAtRestIsKept ==
  [][(cache # Missing /\ cache.manifest /\ cache.by = {} /\ \A p \in Procs : pc[p] \notin Cleaning)
       => cache' = cache]_vars

\* A sync ends, unless it is killed: overlapping processes cannot hold each
\* other up.
SyncEnds == \A p \in Procs : pc[p] \in Syncing ~> pc[p] \in Results
=============================================================================
