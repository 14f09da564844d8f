------------------------- MODULE LspDocumentsProofs -------------------------
(***************************************************************************)
(* Proofs about the language server's document store, for any documents,   *)
(* any number of handlers at a time, of edits and of changes on disk.      *)
(***************************************************************************)
EXTENDS LspDocuments, FiniteSetTheorems, SequenceTheorems, TLAPS

Messages == [kind : {"analyze", "close", "watched"}, doc : Docs, text : Nat]
Jobs     == [doc : Docs, text : Nat, version : Nat, onDisk : BOOLEAN]
Diags    == [kind : {"none", "panic", "checked"}, text : Nat, disk : Nat]
Labels   == {"idle", "compile", "store", "publish", "remove", "snapshot"}
Handlers == [at : Labels, jobs : Seq(Jobs), diags : Diags]

TypeInv ==
  /\ editor   \in [Docs -> Nat]
  /\ sent     \in Nat
  /\ crashing \in SUBSET (Nat \ {0})
  /\ disk     \in Nat
  /\ mail     \in Seq(Messages)
  /\ handler  \in [Slots -> Handlers]
  /\ docs     \in [Docs -> [text : Nat, version : Nat, diags : Diags]]
  /\ shown    \in [Docs -> Diags]
  /\ raced    \in SUBSET Docs

\* A message that is about document d.
About(i, d) == mail[i].doc = d /\ mail[i].kind # "watched"
Ahead(d)    == \E i \in DOMAIN mail : About(i, d)

\* The last message about a document carries what the editor shows.
MailIsRight ==
  \A i \in DOMAIN mail :
    /\ mail[i].kind = "analyze" => mail[i].text # NoText
    /\ mail[i].kind = "close"   => mail[i].text = NoText
    /\ \A d \in Docs : About(i, d) /\ (\A j \in DOMAIN mail : j > i => ~About(j, d))
         => mail[i].text = editor[d]

\* What a handler is at, and what it says of its jobs and of its result.
JobIsRight(h, i) ==
  LET job == handler[h].jobs[i] IN
  /\ job.text # job.version => job.version \in crashing
  /\ i > 1 => job.onDisk
  /\ handler[h].at = "remove" => job.text = NoText /\ job.version = NoText /\ ~job.onDisk
  /\ handler[h].at \in {"compile", "store"} /\ ~job.onDisk => job.text # NoText
  /\ handler[h].at = "store" /\ i = 1 =>
       \/ handler[h].diags = Panic /\ job.text \in crashing
       \/ handler[h].diags.kind = "checked" /\ handler[h].diags.text = job.text

HandlerIsRight(h) ==
  /\ handler[h].jobs = <<>> <=> handler[h].at \in {"idle", "snapshot"}
  /\ handler[h].at = "remove" => handler[h].diags = NoDiags
  /\ \A i \in DOMAIN handler[h].jobs : JobIsRight(h, i)

EntryIsRight(d) ==
  docs[d] # Absent =>
    /\ docs[d].text # docs[d].version => docs[d].version \in crashing
    /\ \/ docs[d].diags.kind = "checked" /\ docs[d].diags.text = docs[d].text
       \/ docs[d].diags = Panic /\ docs[d].version \in crashing

IInv == /\ TypeInv
        /\ MailIsRight
        /\ \A h \in Slots : HandlerIsRight(h)
        /\ \A d \in Docs : EntryIsRight(d)

\* Two handlers that work on a document are a race.
OneInFlight == \A d \in Docs \ raced : \A g, h \in Slots : InFlight(g, d) /\ InFlight(h, d) => g = h

\* A version of the files that is current, or will be made so.
Current(v) == \/ v \in {0, disk}
              \/ \E i \in DOMAIN mail : mail[i].kind = "watched"
              \/ \E h \in Slots : handler[h].at = "snapshot"

Verdict(d, diags) == IF editor[d] = NoText THEN diags = NoDiags
                     ELSE \E v \in Nat : diags = Checked(editor[d], v)
Entry(d, diags)   == IF editor[d] = NoText THEN Absent
                     ELSE [text |-> editor[d], version |-> editor[d], diags |-> diags]

\* Document d is what the editor shows, with nobody at work on it.
Settled(d) == docs[d] = Entry(d, shown[d]) /\ Verdict(d, shown[d])

\* Job i of h is the one that will make it so.  A job of a watched file finds
\* the document settled; the others find it as an earlier message left it.
OnTrack(h, i, d) ==
  LET job == handler[h].jobs[i]
      at  == handler[h].at IN
  /\ job.text = editor[d] /\ job.version = editor[d]
  /\ job.onDisk => editor[d] # NoText
  /\ job.onDisk /\ ~(at = "publish" /\ handler[h].jobs[1].doc = d) => Settled(d)
  /\ i = 1 /\ at \in {"store", "publish"} => Verdict(d, handler[h].diags)
  /\ i = 1 /\ at \in {"store", "publish"} /\ handler[h].diags.disk # 0 =>
       job.onDisk /\ Current(handler[h].diags.disk)
  /\ i = 1 /\ at = "publish" => docs[d] = Entry(d, handler[h].diags)

Serial(d) ==
  /\ \A h \in Slots : \A i \in DOMAIN handler[h].jobs :
       handler[h].jobs[i].doc = d /\ handler[h].jobs[i].onDisk => docs[d] # Absent
  /\ editor[d] \notin crashing /\ ~Ahead(d) =>
       /\ (\A h \in Slots : ~InFlight(h, d)) => Settled(d) /\ Current(shown[d].disk)
       /\ \A h \in Slots : \A i \in DOMAIN handler[h].jobs : handler[h].jobs[i].doc = d => OnTrack(h, i, d)

SerialInv == OneInFlight /\ \A d \in Docs \ raced : Serial(d)

-----------------------------------------------------------------------------
\* What the first element of a sequence and the rest are.
LEMMA TailFacts ==
  ASSUME NEW S, NEW s \in Seq(S), s # <<>>
  PROVE  /\ Tail(s) \in Seq(S) /\ Head(s) = s[1] /\ 1 \in DOMAIN s /\ s[1] \in S
         /\ \A i \in DOMAIN Tail(s) : i \in Nat /\ i > 0 /\ i + 1 \in DOMAIN s /\ Tail(s)[i] = s[i + 1]
         /\ \A i \in DOMAIN s : i # 1 => i - 1 \in DOMAIN Tail(s) /\ Tail(s)[i - 1] = s[i]
OBVIOUS

\* A sequence with an element added.
LEMMA AppendFacts ==
  ASSUME NEW S, NEW s \in Seq(S), NEW x \in S
  PROVE  /\ Append(s, x) \in Seq(S) /\ Append(s, x)[Len(s) + 1] = x
         /\ DOMAIN Append(s, x) = DOMAIN s \cup {Len(s) + 1}
         /\ \A i \in DOMAIN s : Append(s, x)[i] = s[i] /\ i \in Nat /\ i < Len(s) + 1
OBVIOUS

\* Handler h is at a label with jobs and a result; the others stay as they are.
Becomes(h, at, jobs, diags) ==
  /\ handler' \in [Slots -> Handlers]
  /\ handler'[h] = [at |-> at, jobs |-> jobs, diags |-> diags]
  /\ \A g \in Slots : g # h => handler'[g] = handler[g]

LEMMA BecomesFacts ==
  ASSUME TypeInv, NEW h \in Slots, NEW at \in Labels, NEW jobs \in Seq(Jobs), NEW diags \in Diags,
         NEW r, r = [at |-> at, jobs |-> jobs, diags |-> diags], handler' = [handler EXCEPT ![h] = r]
  PROVE  Becomes(h, at, jobs, diags)
<1>1. r \in Handlers
  BY DEF Handlers
<1>2. QED
  BY <1>1 DEF Becomes, TypeInv

LEMMA NoDiagsType == NoDiags \in Diags /\ <<>> \in Seq(Jobs)
BY DEF NoDiags, Diags, NoText

LEMMA IdleWith ==
  ASSUME NEW at \in Labels, NEW jobs \in Seq(Jobs)
  PROVE  [Idle EXCEPT !.at = at, !.jobs = jobs] = [at |-> at, jobs |-> jobs, diags |-> NoDiags]
<1>1. PICK q : q = [Idle EXCEPT !.at = at, !.jobs = jobs]
  OBVIOUS
<1>2. Idle \in Handlers /\ Idle.diags = NoDiags
  BY NoDiagsType DEF Handlers, Idle, Labels
<1>3. q \in Handlers /\ q.at = at /\ q.jobs = jobs /\ q.diags = Idle.diags
  BY <1>1, <1>2 DEF Handlers
<1>4. q = [at |-> at, jobs |-> jobs, diags |-> NoDiags]
  BY <1>2, <1>3 DEF Handlers
<1>5. QED
  BY <1>1, <1>4

\* The jobs of a handler that has some.
LEMMA JobsOf ==
  ASSUME IInv, NEW h \in Slots, handler[h].at \in {"compile", "store", "remove", "publish"}
  PROVE  LET jobs == handler[h].jobs IN
         /\ jobs \in Seq(Jobs) /\ jobs # <<>> /\ Head(jobs) = jobs[1] /\ 1 \in DOMAIN jobs /\ jobs[1] \in Jobs
         /\ Tail(jobs) \in Seq(Jobs)
         /\ \A i \in DOMAIN Tail(jobs) : i \in Nat /\ i > 0 /\ i + 1 \in DOMAIN jobs /\ Tail(jobs)[i] = jobs[i + 1]
         /\ \A i \in DOMAIN jobs : i # 1 => i - 1 \in DOMAIN Tail(jobs) /\ Tail(jobs)[i - 1] = jobs[i]
<1>1. handler[h].jobs \in Seq(Jobs) /\ handler[h].jobs # <<>>
  BY DEF IInv, TypeInv, Handlers, HandlerIsRight
<1>2. QED
  BY <1>1, TailFacts

\* A list of the documents in the store.
LEMMA SnapshotFacts ==
  ASSUME TypeInv, NEW h \in Slots, Snapshot(h)
  PROVE  \/ /\ \A d \in Docs : docs[d] = Absent
            /\ Becomes(h, "idle", <<>>, NoDiags)
         \/ /\ \E d \in Docs : docs[d] # Absent
            /\ \E jobs \in Seq(Jobs) :
                 /\ jobs # <<>> /\ Becomes(h, "compile", jobs, NoDiags)
                 /\ \A i \in DOMAIN jobs : /\ jobs[i].doc \in Docs /\ docs[jobs[i].doc] # Absent
                                           /\ jobs[i].text = docs[jobs[i].doc].text
                                           /\ jobs[i].version = docs[jobs[i].doc].version
                                           /\ jobs[i].onDisk
                 /\ \A d \in Docs : docs[d] # Absent => \E i \in DOMAIN jobs : jobs[i].doc = d
<1> DEFINE open == {d \in Docs : docs[d] # Absent}
<1>1. Cardinality(open) \in Nat
  BY DocsAssumption, FS_Subset, FS_CardinalityType
<1>2. PICK order \in [1..Cardinality(open) -> open] :
        /\ \A d \in open : \E i \in DOMAIN order : order[i] = d
        /\ handler' = [handler EXCEPT ![h] =
             IF open = {} THEN Idle
             ELSE [Idle EXCEPT !.at = "compile",
                               !.jobs = [i \in DOMAIN order |->
                                          Job(order[i], docs[order[i]].text, docs[order[i]].version, TRUE)]]]
  BY DEF Snapshot
<1> DEFINE jobs == [i \in DOMAIN order |-> Job(order[i], docs[order[i]].text, docs[order[i]].version, TRUE)]
<1>3. \A i \in DOMAIN order : order[i] \in Docs /\ docs[order[i]] # Absent /\ jobs[i] \in Jobs
  BY <1>2 DEF Job, Jobs, TypeInv
<1>4. jobs \in Seq(Jobs) /\ DOMAIN jobs = DOMAIN order
  <2>1. jobs \in [1..Cardinality(open) -> Jobs] /\ DOMAIN order = 1..Cardinality(open)
    BY <1>3
  <2> HIDE DEF jobs, open
  <2>2. QED
    BY <1>1, <2>1
<1>5. CASE open = {}
  <2>1. handler' = [handler EXCEPT ![h] = Idle]
    BY <1>2, <1>5
  <2>2. Becomes(h, "idle", <<>>, NoDiags)
    BY <2>1, BecomesFacts, NoDiagsType DEF Idle, Labels
  <2>3. QED
    BY <1>5, <2>2
<1>6. CASE open # {}
  <2>1. jobs # <<>>
    <3>1. PICK d \in open : TRUE
      BY <1>6
    <3>2. PICK i \in DOMAIN order : order[i] = d
      BY <1>2
    <3>3. i \in DOMAIN jobs
      BY <1>4, <3>2
    <3> HIDE DEF jobs
    <3>4. QED
      BY <3>3
  <2>2. Becomes(h, "compile", jobs, NoDiags)
    <3>1. handler' = [handler EXCEPT ![h] = [Idle EXCEPT !.at = "compile", !.jobs = jobs]]
      BY <1>2, <1>6
    <3> HIDE DEF jobs
    <3>2. [Idle EXCEPT !.at = "compile", !.jobs = jobs] = [at |-> "compile", jobs |-> jobs, diags |-> NoDiags]
      BY <1>4, IdleWith DEF Labels
    <3>3. QED
      BY <1>4, <3>1, <3>2, BecomesFacts, NoDiagsType DEF Labels
  <2>3. \A i \in DOMAIN jobs : /\ jobs[i].doc \in Docs /\ docs[jobs[i].doc] # Absent
                               /\ jobs[i].text = docs[jobs[i].doc].text
                               /\ jobs[i].version = docs[jobs[i].doc].version
                               /\ jobs[i].onDisk
    BY <1>3, <1>4 DEF Job
  <2>4. \A d \in Docs : docs[d] # Absent => \E i \in DOMAIN jobs : jobs[i].doc = d
    BY <1>2, <1>4 DEF Job
  <2> HIDE DEF jobs
  <2>5. QED
    BY <1>4, <1>6, <2>1, <2>2, <2>3, <2>4
<1>7. QED
  BY <1>5, <1>6

\* What the other steps of a handler do to it.
LEMMA StartFacts ==
  ASSUME TypeInv, NEW h \in Slots, Start(h)
  PROVE  /\ handler[h].at = "idle" /\ mail # <<>> /\ mail[1] \in Messages
         /\ mail' = Tail(mail) /\ mail' \in Seq(Messages)
         /\ mail[1].kind = "analyze" =>
              Becomes(h, "compile", <<Job(mail[1].doc, mail[1].text, mail[1].text, FALSE)>>, NoDiags)
         /\ mail[1].kind = "close" =>
              Becomes(h, "remove", <<Job(mail[1].doc, NoText, NoText, FALSE)>>, NoDiags)
         /\ mail[1].kind = "watched" => Becomes(h, "snapshot", <<>>, NoDiags)
<1> DEFINE m == Head(mail)
<1>1. mail \in Seq(Messages) /\ mail # <<>> /\ mail' = Tail(mail) /\ handler[h].at = "idle"
  BY DEF TypeInv, Start
<1>2. m = mail[1] /\ mail[1] \in Messages /\ Tail(mail) \in Seq(Messages)
  BY <1>1, TailFacts
<1>3. CASE m.kind = "analyze"
  <2>1. handler' = [handler EXCEPT ![h] =
          [Idle EXCEPT !.at = "compile", !.jobs = <<Job(m.doc, m.text, m.text, FALSE)>>]]
    BY <1>3 DEF Start
  <2>2. <<Job(m.doc, m.text, m.text, FALSE)>> \in Seq(Jobs)
    BY <1>2 DEF Job, Jobs, Messages
  <2> DEFINE jobs == <<Job(m.doc, m.text, m.text, FALSE)>>
  <2> HIDE DEF jobs
  <2>3. handler' = [handler EXCEPT ![h] = [Idle EXCEPT !.at = "compile", !.jobs = jobs]] /\ jobs \in Seq(Jobs)
    BY <2>1, <2>2 DEF jobs
  <2>4. [Idle EXCEPT !.at = "compile", !.jobs = jobs] = [at |-> "compile", jobs |-> jobs, diags |-> NoDiags]
    BY <2>3, IdleWith DEF Labels
  <2>5. Becomes(h, "compile", jobs, NoDiags)
    BY <2>3, <2>4, BecomesFacts, NoDiagsType DEF Labels
  <2>6. QED
    BY <1>1, <1>2, <1>3, <2>5 DEF jobs
<1>4. CASE m.kind = "close"
  <2>1. handler' = [handler EXCEPT ![h] =
          [Idle EXCEPT !.at = "remove", !.jobs = <<Job(m.doc, NoText, NoText, FALSE)>>]]
    BY <1>4 DEF Start
  <2>2. <<Job(m.doc, NoText, NoText, FALSE)>> \in Seq(Jobs)
    BY <1>2 DEF Job, Jobs, Messages, NoText
  <2> DEFINE jobs == <<Job(m.doc, NoText, NoText, FALSE)>>
  <2> HIDE DEF jobs
  <2>3. handler' = [handler EXCEPT ![h] = [Idle EXCEPT !.at = "remove", !.jobs = jobs]] /\ jobs \in Seq(Jobs)
    BY <2>1, <2>2 DEF jobs
  <2>4. [Idle EXCEPT !.at = "remove", !.jobs = jobs] = [at |-> "remove", jobs |-> jobs, diags |-> NoDiags]
    BY <2>3, IdleWith DEF Labels
  <2>5. Becomes(h, "remove", jobs, NoDiags)
    BY <2>3, <2>4, BecomesFacts, NoDiagsType DEF Labels
  <2>6. QED
    BY <1>1, <1>2, <1>4, <2>5 DEF jobs
<1>5. CASE m.kind = "watched"
  <2>1. handler' = [handler EXCEPT ![h] = [Idle EXCEPT !.at = "snapshot"]]
    BY <1>5 DEF Start
  <2>2. [Idle EXCEPT !.at = "snapshot"] = [at |-> "snapshot", jobs |-> <<>>, diags |-> NoDiags]
    BY DEF Idle
  <2>3. Becomes(h, "snapshot", <<>>, NoDiags)
    BY <2>1, <2>2, BecomesFacts, NoDiagsType DEF Labels
  <2>4. QED
    BY <1>1, <1>2, <1>5, <2>3
<1>6. QED
  BY <1>2, <1>3, <1>4, <1>5 DEF Messages

LEMMA CompileFacts ==
  ASSUME IInv, NEW h \in Slots, Compile(h)
  PROVE  LET job == handler[h].jobs[1] IN
         Becomes(h, "store", handler[h].jobs,
                 IF job.text \in crashing THEN Panic ELSE Checked(job.text, IF job.onDisk THEN disk ELSE 0))
<1>1. handler[h].at = "compile"
  BY DEF Compile
<1>2. /\ Head(handler[h].jobs) = handler[h].jobs[1] /\ handler[h].jobs[1] \in Jobs
      /\ handler[h].jobs \in Seq(Jobs)
  BY <1>1, JobsOf
<1> DEFINE job == handler[h].jobs[1]
           d   == IF job.text \in crashing THEN Panic ELSE Checked(job.text, IF job.onDisk THEN disk ELSE 0)
           r   == [at |-> "store", jobs |-> handler[h].jobs, diags |-> d]
<1>3. d \in Diags
  <2>1. job.text \in Nat /\ disk \in Nat
    BY <1>2 DEF Jobs, IInv, TypeInv
  <2> HIDE DEF job
  <2>2. QED
    BY <2>1 DEF Checked, Panic, Diags, NoText
<1>4. handler' = [handler EXCEPT ![h].at = "store", ![h].diags = d]
  BY <1>2 DEF Compile
<1>5. handler \in [Slots -> Handlers] /\ handler[h] \in Handlers
  BY DEF IInv, TypeInv
<1> HIDE DEF d
<1>6. handler' = [handler EXCEPT ![h] = r]
  <2>1. handler' = [handler EXCEPT ![h] = [handler[h] EXCEPT !.at = "store", !.diags = d]]
    BY <1>4, <1>5
  <2>2. PICK q : q = [handler[h] EXCEPT !.at = "store", !.diags = d]
    OBVIOUS
  <2>3. q \in Handlers /\ q.at = "store" /\ q.diags = d /\ q.jobs = handler[h].jobs
    BY <1>3, <1>5, <2>2 DEF Handlers, Labels
  <2>4. q = r
    BY <2>3 DEF Handlers
  <2>5. QED
    BY <2>1, <2>2, <2>4
<1>7. Becomes(h, "store", handler[h].jobs, d)
  BY <1>2, <1>3, <1>6, BecomesFacts DEF IInv, Labels
<1>8. QED
  BY <1>7 DEF d

\* Store and Remove keep the jobs and the result.
LEMMA MovesFacts ==
  ASSUME IInv, NEW h \in Slots, Store(h) \/ Remove(h)
  PROVE  /\ handler[h].at \in {"store", "remove"}
         /\ Becomes(h, "publish", handler[h].jobs, handler[h].diags)
<1>1. handler \in [Slots -> Handlers] /\ handler[h] \in Handlers
  BY DEF IInv, TypeInv
<1>2. handler[h].at \in {"store", "remove"} /\ handler' = [handler EXCEPT ![h].at = "publish"]
  BY DEF Store, Remove
<1> DEFINE r == [at |-> "publish", jobs |-> handler[h].jobs, diags |-> handler[h].diags]
<1>3. handler' = [handler EXCEPT ![h] = r]
  <2>1. handler' = [handler EXCEPT ![h] = [handler[h] EXCEPT !.at = "publish"]]
    BY <1>1, <1>2
  <2>2. [handler[h] EXCEPT !.at = "publish"] = r
    BY <1>1 DEF Handlers
  <2>3. QED
    BY <2>1, <2>2
<1>4. handler[h].jobs \in Seq(Jobs) /\ handler[h].diags \in Diags /\ "publish" \in Labels
  BY <1>1 DEF Handlers, Labels
<1>5. QED
  BY <1>2, <1>3, <1>4, BecomesFacts DEF IInv

LEMMA PublishFacts ==
  ASSUME IInv, NEW h \in Slots, Publish(h)
  PROVE  LET rest == Tail(handler[h].jobs) IN
         Becomes(h, IF rest = <<>> THEN "idle" ELSE "compile", rest, NoDiags)
<1> DEFINE rest == Tail(handler[h].jobs)
           at   == IF rest = <<>> THEN "idle" ELSE "compile"
<1>1. rest \in Seq(Jobs)
  BY JobsOf DEF Publish
<1>2. handler' = [handler EXCEPT ![h] = IF rest = <<>> THEN Idle ELSE [Idle EXCEPT !.at = "compile", !.jobs = rest]]
  BY DEF Publish
<1> HIDE DEF rest
<1>3. (IF rest = <<>> THEN Idle ELSE [Idle EXCEPT !.at = "compile", !.jobs = rest])
        = [at |-> at, jobs |-> rest, diags |-> NoDiags]
  BY DEF Idle
<1>4. Becomes(h, at, rest, NoDiags)
  BY <1>1, <1>2, <1>3, BecomesFacts, NoDiagsType DEF IInv, Labels
<1>5. QED
  BY <1>4 DEF rest

-----------------------------------------------------------------------------
\* Every step keeps the types.
LEMMA TypeStep ==
  ASSUME IInv, [Next]_vars
  PROVE  TypeInv'
<1> USE DEF TypeInv
<1>0. TypeInv
  BY DEF IInv
<1>1. CASE UNCHANGED vars
  BY <1>0, <1>1 DEF vars, serverVars
<1>2. CASE Next
  <2>1. raced' \in SUBSET Docs
    BY <1>0, <1>2 DEF Next
  <2>2. ASSUME NEW d \in Docs, Close(d)
        PROVE  TypeInv'
    <3>1. mail' \in Seq(Messages)
      BY <1>0, <2>2 DEF Close, NoText, Messages, Message
    <3>2. QED
      BY <1>0, <2>1, <2>2, <3>1 DEF Close, NoText
  <2>3. ASSUME NEW d \in Docs, NEW crashes \in BOOLEAN, Edit(d, crashes)
        PROVE  TypeInv'
    <3>1. mail' \in Seq(Messages)
      BY <1>0, <2>3 DEF Edit, Messages, Message
    <3>2. QED
      BY <1>0, <2>1, <2>3, <3>1 DEF Edit
  <2>4. ASSUME FileChange
        PROVE  TypeInv'
    <3>1. (CHOOSE d \in Docs : TRUE) \in Docs
      BY DocsAssumption
    <3>2. mail' \in Seq(Messages)
      BY <1>0, <2>4, <3>1 DEF FileChange, NoText, Messages, Message
    <3>3. QED
      BY <1>0, <2>1, <2>4, <3>2 DEF FileChange
  <2>5. ASSUME NEW h \in Slots, Start(h)
        PROVE  TypeInv'
    <3>1. handler' \in [Slots -> Handlers] /\ mail' \in Seq(Messages)
      BY <1>0, <2>5, StartFacts DEF Becomes, Messages
    <3>2. QED
      BY <1>0, <2>1, <2>5, <3>1 DEF Start
  <2>6. ASSUME NEW h \in Slots, Snapshot(h)
        PROVE  TypeInv'
    <3>1. handler' \in [Slots -> Handlers]
      BY <1>0, <2>6, SnapshotFacts DEF Becomes
    <3>2. QED
      BY <1>0, <2>1, <2>6, <3>1 DEF Snapshot
  <2>7. ASSUME NEW h \in Slots, Compile(h)
        PROVE  TypeInv'
    <3>1. handler' \in [Slots -> Handlers]
      BY <2>7, CompileFacts DEF Becomes
    <3>2. QED
      BY <1>0, <2>1, <2>7, <3>1 DEF Compile
  <2>8. ASSUME NEW h \in Slots, Store(h)
        PROVE  TypeInv'
    <3>1. Head(handler[h].jobs) \in Jobs
      BY <2>8, JobsOf DEF Store
    <3>2. Panic \in Diags /\ handler[h].diags \in Diags
      BY <1>0 DEF Panic, Diags, NoText, Handlers
    <3>3. docs' \in [Docs -> [text : Nat, version : Nat, diags : Diags]]
      <4> DEFINE Entries == [text : Nat, version : Nat, diags : Diags]
                 job     == Head(handler[h].jobs)
      <4>1. job.doc \in Docs /\ job.text \in Nat /\ job.version \in Nat
        BY <3>1 DEF Jobs
      <4>2. docs \in [Docs -> Entries]
        BY <1>0
      <4>3. [text |-> job.text, version |-> job.version, diags |-> handler[h].diags] \in Entries
        BY <3>2, <4>1
      <4>4. [docs[job.doc] EXCEPT !.diags = Panic, !.version = job.version] \in Entries
        BY <3>2, <4>1, <4>2
      <4>5. \E new \in Entries : docs' = [docs EXCEPT ![job.doc] = new]
        BY <2>8, <4>2, <4>1, <4>3, <4>4 DEF Store
      <4>6. QED
        BY <4>2, <4>5
    <3>4. handler' \in [Slots -> Handlers]
      BY <2>8, MovesFacts DEF Becomes
    <3>5. QED
      BY <1>0, <2>1, <2>8, <3>3, <3>4 DEF Store
  <2>9. ASSUME NEW h \in Slots, Remove(h)
        PROVE  TypeInv'
    <3>1. Head(handler[h].jobs) \in Jobs
      BY <2>9, JobsOf DEF Remove
    <3>2. Absent \in [text : Nat, version : Nat, diags : Diags]
      BY DEF Absent, NoDiags, Diags, NoText
    <3>3. handler' \in [Slots -> Handlers]
      BY <2>9, MovesFacts DEF Becomes
    <3>4. QED
      BY <1>0, <2>1, <2>9, <3>1, <3>2, <3>3 DEF Remove
  <2>10. ASSUME NEW h \in Slots, Publish(h)
         PROVE  TypeInv'
    <3>1. Head(handler[h].jobs) \in Jobs /\ handler[h].diags \in Diags
      BY <1>0, <2>10, JobsOf DEF Publish, Handlers
    <3>2. shown' \in [Docs -> Diags]
      BY <1>0, <2>10, <3>1 DEF Publish, Jobs
    <3>3. handler' \in [Slots -> Handlers]
      BY <2>10, PublishFacts DEF Becomes
    <3>4. QED
      BY <1>0, <2>1, <2>10, <3>2, <3>3 DEF Publish
  <2>11. QED
    BY <1>2, <2>2, <2>3, <2>4, <2>5, <2>6, <2>7, <2>8, <2>9, <2>10 DEF Next, Step, HandlerStep
<1>3. QED
  BY <1>1, <1>2

-----------------------------------------------------------------------------
\* What the editor does to the messages.
LEMMA MailFacts ==
  ASSUME TypeInv, NEW m \in Messages, mail' = Append(mail, m)
  PROVE  \E last \in Nat :
           /\ mail'[last] = m /\ DOMAIN mail' = DOMAIN mail \cup {last}
           /\ \A d \in Docs : About(last, d)' <=> (m.doc = d /\ m.kind # "watched")
           /\ \A i \in DOMAIN mail : mail'[i] = mail[i] /\ i \in Nat /\ i < last
           /\ \A i \in DOMAIN mail, d \in Docs : About(i, d)' <=> About(i, d)
<1>1. mail \in Seq(Messages)
  BY DEF TypeInv
<1>2. PICK last \in Nat : last = Len(mail) + 1
  BY <1>1
<1>3. /\ mail'[last] = m /\ DOMAIN mail' = DOMAIN mail \cup {last}
      /\ \A i \in DOMAIN mail : mail'[i] = mail[i] /\ i \in Nat /\ i < last
  BY <1>1, <1>2, AppendFacts
<1>4. QED
  BY <1>3 DEF About

\* A message about a document that the editor has just sent is the last one.
LEMMA SentStep ==
  ASSUME IInv, NEW d \in Docs, NEW n \in Nat, NEW m \in Messages,
         m.doc = d, m.text = n,
         (m.kind = "analyze" /\ n # NoText) \/ (m.kind = "close" /\ n = NoText),
         mail' = Append(mail, m), editor' = [editor EXCEPT ![d] = n]
  PROVE  MailIsRight'
<1>1. TypeInv /\ MailIsRight
  BY DEF IInv
<1>2. PICK last \in Nat :
        /\ mail'[last] = m /\ DOMAIN mail' = DOMAIN mail \cup {last}
        /\ \A e \in Docs : About(last, e)' <=> (m.doc = e /\ m.kind # "watched")
        /\ \A i \in DOMAIN mail : mail'[i] = mail[i] /\ i \in Nat /\ i < last
        /\ \A i \in DOMAIN mail, e \in Docs : About(i, e)' <=> About(i, e)
  BY <1>1, MailFacts
<1>3. About(last, d)' /\ \A e \in Docs : e # d => ~About(last, e)'
  BY <1>2
<1>4. editor'[d] = n /\ \A e \in Docs : e # d => editor'[e] = editor[e]
  BY <1>1 DEF TypeInv
<1>5. SUFFICES ASSUME NEW i \in DOMAIN mail'
      PROVE  /\ mail'[i].kind = "analyze" => mail'[i].text # NoText
             /\ mail'[i].kind = "close"   => mail'[i].text = NoText
             /\ \A e \in Docs : About(i, e)' /\ (\A j \in DOMAIN mail' : j > i => ~About(j, e)')
                  => mail'[i].text = editor'[e]
  BY DEF MailIsRight
<1>6. CASE i = last
  BY <1>2, <1>3, <1>4, <1>6
<1>7. CASE i \in DOMAIN mail
  <2>1. ASSUME NEW e \in Docs, About(i, e)', \A j \in DOMAIN mail' : j > i => ~About(j, e)'
        PROVE  mail'[i].text = editor'[e]
    <3>1. e # d
      BY <1>2, <1>3, <1>7, <2>1
    <3>2. About(i, e) /\ \A j \in DOMAIN mail : j > i => ~About(j, e)
      BY <1>2, <1>7, <2>1
    <3>3. mail[i].text = editor[e]
      BY <1>1, <1>7, <3>2 DEF MailIsRight
    <3>4. QED
      BY <1>2, <1>4, <1>7, <3>1, <3>3
  <2>2. QED
    BY <1>1, <1>2, <1>7, <2>1 DEF MailIsRight
<1>8. QED
  BY <1>2, <1>6, <1>7

\* Every step keeps the messages right.
LEMMA MailStep ==
  ASSUME IInv, [Next]_vars
  PROVE  MailIsRight'
<1>0. TypeInv /\ MailIsRight
  BY DEF IInv
<1>1. ASSUME NEW d \in Docs, Close(d)
      PROVE  MailIsRight'
  <2>1. Message("close", d, NoText) \in Messages /\ NoText \in Nat
    BY DEF Message, Messages, NoText
  <2>2. QED
    BY <1>1, <2>1, SentStep DEF Close, Message
<1>2. ASSUME NEW d \in Docs, NEW crashes \in BOOLEAN, Edit(d, crashes)
      PROVE  MailIsRight'
  <2>1. Message("analyze", d, sent + 1) \in Messages /\ sent + 1 \in Nat /\ sent + 1 # NoText
    BY <1>0 DEF Message, Messages, NoText, TypeInv
  <2>2. QED
    BY <1>2, <2>1, SentStep DEF Edit, Message
<1>3. ASSUME FileChange
      PROVE  MailIsRight'
  <2>1. PICK m \in Messages : mail' = Append(mail, m) /\ m.kind = "watched"
    <3>1. (CHOOSE d \in Docs : TRUE) \in Docs
      BY DocsAssumption
    <3>2. QED
      BY <1>3, <3>1 DEF FileChange, Message, Messages, NoText
  <2>2. PICK last \in Nat :
          /\ mail'[last] = m /\ DOMAIN mail' = DOMAIN mail \cup {last}
          /\ \A e \in Docs : About(last, e)' <=> (m.doc = e /\ m.kind # "watched")
          /\ \A i \in DOMAIN mail : mail'[i] = mail[i] /\ i \in Nat /\ i < last
          /\ \A i \in DOMAIN mail, e \in Docs : About(i, e)' <=> About(i, e)
    BY <1>0, <2>1, MailFacts
  <2>3. editor' = editor
    BY <1>3 DEF FileChange
  <2>4. SUFFICES ASSUME NEW i \in DOMAIN mail'
        PROVE  /\ mail'[i].kind = "analyze" => mail'[i].text # NoText
               /\ mail'[i].kind = "close"   => mail'[i].text = NoText
               /\ \A e \in Docs : About(i, e)' /\ (\A j \in DOMAIN mail' : j > i => ~About(j, e)')
                    => mail'[i].text = editor'[e]
    BY DEF MailIsRight
  <2>5. CASE i = last
    BY <2>1, <2>2, <2>5
  <2>6. CASE i \in DOMAIN mail
    <3>1. ASSUME NEW e \in Docs, About(i, e)', \A j \in DOMAIN mail' : j > i => ~About(j, e)'
          PROVE  mail'[i].text = editor'[e]
      <4>1. About(i, e) /\ \A j \in DOMAIN mail : j > i => ~About(j, e)
        BY <2>2, <2>6, <3>1
      <4>2. QED
        BY <1>0, <2>2, <2>3, <2>6, <4>1 DEF MailIsRight
    <3>2. QED
      BY <1>0, <2>2, <2>6, <3>1 DEF MailIsRight
  <2>7. QED
    BY <2>2, <2>5, <2>6
<1>4. ASSUME NEW h \in Slots, Start(h)
      PROVE  MailIsRight'
  <2>1. mail \in Seq(Messages) /\ mail # <<>> /\ mail' = Tail(mail) /\ editor' = editor
    BY <1>0, <1>4 DEF TypeInv, Start
  <2>2. /\ \A i \in DOMAIN mail' : i \in Nat /\ i > 0 /\ i + 1 \in DOMAIN mail /\ mail'[i] = mail[i + 1]
        /\ \A i \in DOMAIN mail : i # 1 => i - 1 \in DOMAIN mail' /\ mail'[i - 1] = mail[i]
        /\ \A i \in DOMAIN mail : i \in Nat /\ i > 0
    BY <2>1, TailFacts
  <2>3. SUFFICES ASSUME NEW i \in DOMAIN mail'
        PROVE  /\ mail'[i].kind = "analyze" => mail'[i].text # NoText
               /\ mail'[i].kind = "close"   => mail'[i].text = NoText
               /\ \A e \in Docs : About(i, e)' /\ (\A j \in DOMAIN mail' : j > i => ~About(j, e)')
                    => mail'[i].text = editor'[e]
    BY DEF MailIsRight
  <2>4. ASSUME NEW e \in Docs, About(i, e)', \A j \in DOMAIN mail' : j > i => ~About(j, e)'
        PROVE  mail'[i].text = editor'[e]
    <3>1. About(i + 1, e)
      BY <2>2, <2>4 DEF About
    <3>2. ASSUME NEW j \in DOMAIN mail, j > i + 1
          PROVE  ~About(j, e)
      <4>1. j - 1 \in DOMAIN mail' /\ j - 1 > i /\ mail'[j - 1] = mail[j]
        BY <2>2, <3>2
      <4>2. ~About(j - 1, e)'
        BY <2>4, <4>1
      <4>3. QED
        BY <4>1, <4>2 DEF About
    <3>3. mail[i + 1].text = editor[e]
      BY <1>0, <2>2, <3>1, <3>2 DEF MailIsRight
    <3>4. QED
      BY <2>1, <2>2, <3>3
  <2>5. QED
    BY <1>0, <2>2, <2>4 DEF MailIsRight
<1>5. ASSUME UNCHANGED <<mail, editor>>
      PROVE  MailIsRight'
  BY <1>0, <1>5 DEF MailIsRight, About
<1>6. ASSUME NEW h \in Slots, HandlerStep(h)
      PROVE  UNCHANGED <<mail, editor>>
  BY <1>6 DEF HandlerStep, Snapshot, Compile, Store, Remove, Publish
<1>7. QED
  BY <1>1, <1>2, <1>3, <1>4, <1>5, <1>6 DEF Next, Step, vars, serverVars

-----------------------------------------------------------------------------
\* A handler that does nothing stays right, whatever texts crash.
LEMMA IdleHandler ==
  ASSUME NEW g \in Slots, HandlerIsRight(g), handler'[g] = handler[g], crashing \subseteq crashing'
  PROVE  HandlerIsRight(g)'
BY DEF HandlerIsRight, JobIsRight

\* Every step keeps the handlers right.
LEMMA HandlersStep ==
  ASSUME IInv, [Next]_vars
  PROVE  \A g \in Slots : HandlerIsRight(g)'
<1>0. TypeInv /\ MailIsRight /\ (\A g \in Slots : HandlerIsRight(g)) /\ \A d \in Docs : EntryIsRight(d)
  BY DEF IInv
<1>1. ASSUME UNCHANGED handler, crashing \subseteq crashing'
      PROVE  \A g \in Slots : HandlerIsRight(g)'
  BY <1>0, <1>1, IdleHandler
<1>2. ASSUME NEW d \in Docs, Close(d) \/ \E crashes \in BOOLEAN : Edit(d, crashes)
      PROVE  \A g \in Slots : HandlerIsRight(g)'
  BY <1>1, <1>2 DEF Close, Edit
<1>3. ASSUME FileChange
      PROVE  \A g \in Slots : HandlerIsRight(g)'
  BY <1>1, <1>3 DEF FileChange
<1>4. ASSUME NEW h \in Slots, Start(h)
      PROVE  \A g \in Slots : HandlerIsRight(g)'
  <2>1. /\ mail[1] \in Messages /\ 1 \in DOMAIN mail
        /\ mail[1].kind = "analyze" => mail[1].text # NoText
    <3>1. mail \in Seq(Messages) /\ mail # <<>>
      BY <1>0, <1>4 DEF TypeInv, Start
    <3>2. QED
      BY <1>0, <3>1, TailFacts DEF MailIsRight
  <2>2. crashing' = crashing
    BY <1>4 DEF Start
  <2> DEFINE m == mail[1]
  <2>3. CASE m.kind = "analyze"
    <3> DEFINE job == Job(m.doc, m.text, m.text, FALSE)
    <3>1. Becomes(h, "compile", <<job>>, NoDiags)
      BY <1>0, <1>4, <2>3, StartFacts
    <3>2. job.text = m.text /\ job.version = m.text /\ job.onDisk = FALSE
      BY DEF Job
    <3> HIDE DEF job
    <3>3. HandlerIsRight(h)'
      BY <2>1, <2>3, <3>1, <3>2 DEF HandlerIsRight, JobIsRight, Becomes
    <3>4. QED
      BY <1>0, <2>2, <3>1, <3>3, IdleHandler DEF Becomes
  <2>4. CASE m.kind = "close"
    <3> DEFINE job == Job(m.doc, NoText, NoText, FALSE)
    <3>1. Becomes(h, "remove", <<job>>, NoDiags)
      BY <1>0, <1>4, <2>4, StartFacts
    <3>2. job.text = NoText /\ job.version = NoText /\ job.onDisk = FALSE
      BY DEF Job
    <3> HIDE DEF job
    <3>3. HandlerIsRight(h)'
      BY <3>1, <3>2 DEF HandlerIsRight, JobIsRight, Becomes
    <3>4. QED
      BY <1>0, <2>2, <3>1, <3>3, IdleHandler DEF Becomes
  <2>5. CASE m.kind = "watched"
    <3>1. Becomes(h, "snapshot", <<>>, NoDiags)
      BY <1>0, <1>4, <2>5, StartFacts
    <3>2. HandlerIsRight(h)'
      BY <3>1 DEF HandlerIsRight, JobIsRight, Becomes
    <3>3. QED
      BY <1>0, <2>2, <3>1, <3>2, IdleHandler DEF Becomes
  <2>6. QED
    BY <2>1, <2>3, <2>4, <2>5 DEF Messages
<1>5. ASSUME NEW h \in Slots, Snapshot(h)
      PROVE  \A g \in Slots : HandlerIsRight(g)'
  <2>1. crashing' = crashing
    BY <1>5 DEF Snapshot
  <2>2. CASE Becomes(h, "idle", <<>>, NoDiags)
    <3>1. HandlerIsRight(h)'
      BY <2>2 DEF HandlerIsRight, JobIsRight, Becomes
    <3>2. QED
      BY <1>0, <2>1, <2>2, <3>1, IdleHandler DEF Becomes
  <2>3. ASSUME NEW jobs \in Seq(Jobs), jobs # <<>>, Becomes(h, "compile", jobs, NoDiags),
               \A i \in DOMAIN jobs : /\ jobs[i].doc \in Docs /\ docs[jobs[i].doc] # Absent
                                      /\ jobs[i].text = docs[jobs[i].doc].text
                                      /\ jobs[i].version = docs[jobs[i].doc].version
                                      /\ jobs[i].onDisk
        PROVE  \A g \in Slots : HandlerIsRight(g)'
    <3>1. \A i \in DOMAIN jobs : jobs[i].onDisk /\ (jobs[i].text # jobs[i].version => jobs[i].version \in crashing)
      BY <1>0, <2>3 DEF EntryIsRight
    <3>2. HandlerIsRight(h)'
      BY <2>1, <2>3, <3>1 DEF HandlerIsRight, JobIsRight, Becomes
    <3>3. QED
      BY <1>0, <2>1, <2>3, <3>2, IdleHandler DEF Becomes
  <2>4. QED
    BY <1>0, <1>5, <2>2, <2>3, SnapshotFacts
<1>6. ASSUME NEW h \in Slots, Compile(h)
      PROVE  \A g \in Slots : HandlerIsRight(g)'
  <2> DEFINE job == handler[h].jobs[1]
             d   == IF job.text \in crashing THEN Panic ELSE Checked(job.text, IF job.onDisk THEN disk ELSE 0)
  <2>1. crashing' = crashing /\ handler[h].at = "compile"
    BY <1>6 DEF Compile
  <2>2. Becomes(h, "store", handler[h].jobs, d)
    BY <1>6, CompileFacts
  <2>3. (d = Panic /\ job.text \in crashing) \/ (d.kind = "checked" /\ d.text = job.text)
    BY DEF Checked
  <2> HIDE DEF d
  <2>4. HandlerIsRight(h)'
    <3>1. /\ handler'[h].at = "store" /\ handler'[h].jobs = handler[h].jobs /\ handler'[h].diags = d
      BY <1>0, <2>2 DEF Becomes, Handlers
    <3>2. handler[h].jobs # <<>> /\ \A i \in DOMAIN handler[h].jobs : JobIsRight(h, i)
      BY <1>0, <2>1 DEF HandlerIsRight
    <3>3. ASSUME NEW i \in DOMAIN handler[h].jobs PROVE JobIsRight(h, i)'
      BY <2>1, <2>3, <3>1, <3>2 DEF JobIsRight
    <3>4. QED
      BY <3>1, <3>2, <3>3 DEF HandlerIsRight
  <2>5. QED
    BY <1>0, <2>1, <2>2, <2>4, IdleHandler DEF Becomes
<1>7. ASSUME NEW h \in Slots, Store(h) \/ Remove(h)
      PROVE  \A g \in Slots : HandlerIsRight(g)'
  <2>1. crashing' = crashing
    BY <1>7 DEF Store, Remove
  <2>2. handler[h].at \in {"store", "remove"} /\ Becomes(h, "publish", handler[h].jobs, handler[h].diags)
    BY <1>7, MovesFacts
  <2>3. HandlerIsRight(h)'
    BY <1>0, <2>1, <2>2 DEF HandlerIsRight, JobIsRight, Becomes
  <2>4. QED
    BY <1>0, <2>1, <2>2, <2>3, IdleHandler DEF Becomes
<1>8. ASSUME NEW h \in Slots, Publish(h)
      PROVE  \A g \in Slots : HandlerIsRight(g)'
  <2> DEFINE rest == Tail(handler[h].jobs)
             at   == IF rest = <<>> THEN "idle" ELSE "compile"
  <2>1. crashing' = crashing /\ handler[h].at = "publish"
    BY <1>8 DEF Publish
  <2>2. Becomes(h, at, rest, NoDiags)
    BY <1>8, PublishFacts
  <2>3. \A i \in DOMAIN rest : i \in Nat /\ i > 0 /\ i + 1 \in DOMAIN handler[h].jobs /\ rest[i] = handler[h].jobs[i + 1]
    BY <2>1, JobsOf
  <2>4. \A i \in DOMAIN rest : rest[i].onDisk /\ (rest[i].text # rest[i].version => rest[i].version \in crashing)
    BY <1>0, <2>3 DEF HandlerIsRight, JobIsRight
  <2> HIDE DEF rest
  <2>5. HandlerIsRight(h)'
    BY <2>1, <2>2, <2>4 DEF HandlerIsRight, JobIsRight, Becomes
  <2>6. QED
    BY <1>0, <2>1, <2>2, <2>5, IdleHandler DEF Becomes
<1>9. QED
  BY <1>1, <1>2, <1>3, <1>4, <1>5, <1>6, <1>7, <1>8 DEF Next, Step, HandlerStep, vars, serverVars

\* Every step keeps the entries right.
LEMMA EntriesStep ==
  ASSUME IInv, [Next]_vars
  PROVE  \A d \in Docs : EntryIsRight(d)'
<1>0. TypeInv /\ (\A g \in Slots : HandlerIsRight(g)) /\ \A d \in Docs : EntryIsRight(d)
  BY DEF IInv
<1>1. ASSUME UNCHANGED docs, crashing \subseteq crashing'
      PROVE  \A d \in Docs : EntryIsRight(d)'
  BY <1>0, <1>1 DEF EntryIsRight
<1>2. ASSUME NEW h \in Slots, Store(h)
      PROVE  \A d \in Docs : EntryIsRight(d)'
  <2> DEFINE job == handler[h].jobs[1]
             new == [text |-> job.text, version |-> job.version, diags |-> handler[h].diags]
  <2>1. crashing' = crashing /\ handler[h].at = "store"
    BY <1>2 DEF Store
  <2>2. Head(handler[h].jobs) = job /\ job \in Jobs /\ 1 \in DOMAIN handler[h].jobs
    BY <2>1, JobsOf
  <2>3. docs' = [docs EXCEPT ![job.doc] =
               IF handler[h].diags # Panic THEN new
               ELSE IF @ = Absent THEN @
               ELSE [@ EXCEPT !.diags = Panic, !.version = job.version]]
    BY <1>2, <2>2 DEF Store
  <2>4. JobIsRight(h, 1)
    BY <1>0, <2>2 DEF HandlerIsRight
  <2>5. job.doc \in Docs /\ docs \in [Docs -> [text : Nat, version : Nat, diags : Diags]]
    BY <1>0, <2>2 DEF TypeInv, Jobs
  <2>6. \A d \in Docs : d # job.doc => EntryIsRight(d)'
    BY <1>0, <2>1, <2>3, <2>5 DEF EntryIsRight
  <2>7. EntryIsRight(job.doc) /\ JobIsRight(h, 1)
    BY <1>0, <2>4, <2>5
  <2>8. PICK e \in Docs : e = job.doc
    BY <2>5
  <2>9. EntryIsRight(e)'
    <3>1. CASE handler[h].diags # Panic
      <4>1. docs'[e] = new
        BY <2>3, <2>5, <2>8, <3>1
      <4>2. QED
        BY <2>1, <2>4, <3>1, <4>1 DEF EntryIsRight, JobIsRight
    <3>2. CASE handler[h].diags = Panic /\ docs[e] = Absent
      <4>1. docs'[e] = docs[e]
        BY <2>3, <2>5, <2>8, <3>2
      <4>2. QED
        BY <3>2, <4>1 DEF EntryIsRight
    <3>3. CASE handler[h].diags = Panic /\ docs[e] # Absent
      <4>1. docs'[e] = [docs[e] EXCEPT !.diags = Panic, !.version = job.version]
        BY <2>3, <2>5, <2>8, <3>3
      <4>2. docs'[e].diags = Panic /\ docs'[e].version = job.version /\ docs'[e].text = docs[e].text
        BY <2>5, <2>8, <4>1
      <4>3. job.text \in crashing
        <5>1. Panic.kind # "checked"
          BY DEF Panic
        <5>2. QED
          BY <2>1, <2>4, <3>3, <5>1 DEF JobIsRight
      <4>4. job.version \in crashing
        BY <2>4, <4>3 DEF JobIsRight
      <4>5. QED
        BY <2>1, <4>2, <4>4 DEF EntryIsRight
    <3>4. QED
      BY <3>1, <3>2, <3>3
  <2>10. QED
    BY <2>6, <2>8, <2>9
<1>3. ASSUME NEW h \in Slots, Remove(h)
      PROVE  \A d \in Docs : EntryIsRight(d)'
  <2>1. \E e \in Docs : docs' = [docs EXCEPT ![e] = Absent]
    BY <1>3, JobsOf DEF Remove, Jobs
  <2>2. crashing' = crashing /\ docs \in [Docs -> [text : Nat, version : Nat, diags : Diags]]
    BY <1>0, <1>3 DEF Remove, TypeInv
  <2>3. QED
    BY <1>0, <2>1, <2>2 DEF EntryIsRight
<1>4. QED
  BY <1>1, <1>2, <1>3 DEF Next, Step, Close, Edit, FileChange, Start, HandlerStep, Snapshot, Compile, Publish,
                          vars, serverVars

-----------------------------------------------------------------------------
\* The invariant holds at first and is kept.
LEMMA InitIInv == Init => IInv
<1> SUFFICES ASSUME Init PROVE IInv
  OBVIOUS
<1>1. Idle \in Handlers /\ Absent \in [text : Nat, version : Nat, diags : Diags]
  BY NoDiagsType DEF Idle, Handlers, Absent, NoText, Labels
<1>2. TypeInv
  BY <1>1, NoDiagsType DEF Init, TypeInv, NoText
<1>3. MailIsRight
  BY DEF Init, MailIsRight
<1>4. \A h \in Slots : HandlerIsRight(h)
  <2>1. Idle.at = "idle" /\ Idle.jobs = <<>>
    BY DEF Idle
  <2>2. QED
    BY <2>1 DEF Init, HandlerIsRight
<1>5. \A d \in Docs : EntryIsRight(d)
  BY DEF Init, EntryIsRight
<1>6. QED
  BY <1>2, <1>3, <1>4, <1>5 DEF IInv

LEMMA IInvStep == IInv /\ [Next]_vars => IInv'
<1> SUFFICES ASSUME IInv, [Next]_vars PROVE IInv'
  OBVIOUS
<1>1. QED
  BY TypeStep, MailStep, HandlersStep, EntriesStep DEF IInv

\* In every reachable state the types are right, the last message about a
\* document carries what the editor shows, and handlers and entries are right.
THEOREM Invariance == Spec => []IInv
BY InitIInv, IInvStep, PTL DEF Spec

\* Whatever the interleaving of the handlers, an entry of the store holds
\* together: its diagnostics are those of its text, and only a panic on its
\* version explains another text or E9999 (analyze, after spawn_blocking).
THEOREM EntriesHold == Spec => []EntriesHoldTogether
<1>1. IInv => EntriesHoldTogether
  BY DEF IInv, EntryIsRight, EntriesHoldTogether
<1>2. QED
  BY <1>1, Invariance, PTL

-----------------------------------------------------------------------------
\* Handlers of one document that never ran at a time: what a step leaves alone.
LEMMA TrackKept ==
  ASSUME NEW g \in Slots, NEW i, NEW d \in Docs, OnTrack(g, i, d), handler'[g] = handler[g],
         editor'[d] = editor[d], docs'[d] = docs[d], shown'[d] = shown[d],
         \A v : Current(v) => Current(v)'
  PROVE  OnTrack(g, i, d)'
<1>1. (Settled(d) <=> Settled(d)') /\ \A x : Verdict(d, x) <=> Verdict(d, x)'
  BY DEF Settled, Verdict, Entry
<1>2. \A x : Entry(d, x)' = Entry(d, x)
  BY DEF Entry
<1>3. Verdict(d, handler[g].diags)' <=> Verdict(d, handler[g].diags)
  BY DEF Verdict
<1>4. Entry(d, handler[g].diags)' = Entry(d, handler[g].diags)
  BY DEF Entry
<1>5. Current(handler[g].diags.disk) => Current(handler[g].diags.disk)'
  <2>1. PICK v : v = handler[g].diags.disk
    OBVIOUS
  <2>2. Current(v) => Current(v)'
    OBVIOUS
  <2>3. QED
    BY <2>1, <2>2 DEF Current
<1>6. QED
  BY <1>1, <1>3, <1>4, <1>5 DEF OnTrack

\* A document stays serial under the step of a handler that does not work on it
\* first.
LEMMA SerialKept ==
  ASSUME NEW d \in Docs, Serial(d), crashing \subseteq crashing', Ahead(d) => Ahead(d)',
         editor'[d] = editor[d], docs'[d] = docs[d], shown'[d] = shown[d],
         \A v : Current(v) => Current(v)',
         NEW h \in Slots, \A g \in Slots : g # h => handler'[g] = handler[g],
         InFlight(h, d) => InFlight(h, d)',
         \A i \in DOMAIN handler'[h].jobs : handler'[h].jobs[i].doc = d =>
           \E j \in DOMAIN handler[h].jobs : /\ handler[h].jobs[j] = handler'[h].jobs[i]
                                             /\ OnTrack(h, j, d) => OnTrack(h, i, d)'
  PROVE  Serial(d)'
<1>1. ASSUME NEW g \in Slots, NEW i \in DOMAIN handler'[g].jobs, handler'[g].jobs[i].doc = d
      PROVE  \E j \in DOMAIN handler[g].jobs : /\ handler[g].jobs[j] = handler'[g].jobs[i]
                                               /\ OnTrack(g, j, d) => OnTrack(g, i, d)'
  <2>1. CASE g = h
    BY <1>1, <2>1
  <2>2. CASE g # h
    <3>1. handler'[g] = handler[g]
      BY <2>2
    <3>2. OnTrack(g, i, d) => OnTrack(g, i, d)'
      BY <3>1, TrackKept
    <3>3. QED
      BY <1>1, <3>1, <3>2
  <2>3. QED
    BY <2>1, <2>2
<1>2. \A g \in Slots : InFlight(g, d) => InFlight(g, d)'
  BY DEF InFlight
<1>3. Settled(d) <=> Settled(d)'
  BY DEF Settled, Verdict, Entry
<1>4. Current(shown[d].disk) => Current(shown[d].disk)'
  <2>1. PICK v : v = shown[d].disk
    OBVIOUS
  <2>2. Current(v) => Current(v)'
    OBVIOUS
  <2>3. QED
    BY <2>1, <2>2 DEF Current
<1>5. ASSUME NEW g \in Slots, NEW i \in DOMAIN handler'[g].jobs, handler'[g].jobs[i].doc = d,
             handler'[g].jobs[i].onDisk
      PROVE  docs'[d] # Absent
  BY <1>1, <1>5 DEF Serial
<1>6. ASSUME editor'[d] \notin crashing', ~Ahead(d)'
      PROVE  /\ (\A g \in Slots : ~InFlight(g, d)') => Settled(d)' /\ Current(shown[d].disk)'
             /\ \A g \in Slots : \A i \in DOMAIN handler'[g].jobs :
                  handler'[g].jobs[i].doc = d => OnTrack(g, i, d)'
  <2>1. editor[d] \notin crashing /\ ~Ahead(d)
    BY <1>6
  <2>2. /\ (\A g \in Slots : ~InFlight(g, d)) => Settled(d) /\ Current(shown[d].disk)
        /\ \A g \in Slots : \A i \in DOMAIN handler[g].jobs : handler[g].jobs[i].doc = d => OnTrack(g, i, d)
    BY <2>1 DEF Serial
  <2>3. QED
    BY <1>1, <1>2, <1>3, <1>4, <2>2
<1>7. QED
  BY <1>5, <1>6 DEF Serial

\* What is current stays so, but for what Snapshot and FileChange do.
LEMMA CurrentKept ==
  ASSUME disk' = disk,
         \A i \in DOMAIN mail : mail[i].kind = "watched" => \E j \in DOMAIN mail' : mail'[j] = mail[i],
         \A g \in Slots : handler[g].at = "snapshot" => handler'[g].at = "snapshot"
  PROVE  \A v : Current(v) => Current(v)'
BY DEF Current

LEMMA CurrentStep ==
  ASSUME IInv, NEW h \in Slots, Compile(h) \/ Store(h) \/ Remove(h) \/ Publish(h)
  PROVE  /\ \A v : Current(v) => Current(v)'
         /\ \A g \in Slots : g # h => handler'[g] = handler[g]
         /\ editor' = editor /\ crashing' = crashing /\ mail' = mail
         /\ \A d \in Docs : Ahead(d) <=> Ahead(d)'
<1>1. editor' = editor /\ crashing' = crashing /\ mail' = mail /\ disk' = disk /\ handler[h].at # "snapshot"
  BY DEF Compile, Store, Remove, Publish
<1>2. \A g \in Slots : g # h => handler'[g] = handler[g]
  BY CompileFacts, MovesFacts, PublishFacts DEF Becomes
<1>3. \A v : Current(v) => Current(v)'
  BY <1>1, <1>2 DEF Current
<1>4. QED
  BY <1>1, <1>2, <1>3 DEF Ahead, About

\* A text that is sent makes Ahead of its document; the others stay as they are.
LEMMA SerialSend ==
  ASSUME IInv, NEW d \in Docs, Serial(d), NEW e \in Docs, NEW m \in Messages,
         m.doc = e, m.kind # "watched", mail' = Append(mail, m),
         NEW n, editor' = [editor EXCEPT ![e] = n], crashing \subseteq crashing',
         UNCHANGED <<disk, handler, docs, shown>>
  PROVE  Serial(d)'
<1>1. TypeInv
  BY DEF IInv
<1>2. PICK last \in Nat :
        /\ mail'[last] = m /\ DOMAIN mail' = DOMAIN mail \cup {last}
        /\ \A x \in Docs : About(last, x)' <=> (m.doc = x /\ m.kind # "watched")
        /\ \A i \in DOMAIN mail : mail'[i] = mail[i] /\ i \in Nat /\ i < last
        /\ \A i \in DOMAIN mail, x \in Docs : About(i, x)' <=> About(i, x)
  BY <1>1, MailFacts
<1>3. CASE d = e
  <2>1. Ahead(d)'
    BY <1>2, <1>3 DEF Ahead
  <2>2. QED
    BY <2>1 DEF Serial
<1>4. CASE d # e
  <2>1. Ahead(d) => Ahead(d)'
    BY <1>2 DEF Ahead
  <2>2. \A v : Current(v) => Current(v)'
    BY <1>2, CurrentKept
  <2>3. editor'[d] = editor[d] /\ docs'[d] = docs[d] /\ shown'[d] = shown[d]
    BY <1>1, <1>4 DEF TypeInv
  <2>4. PICK h \in Slots : TRUE
    BY SlotsAssumption
  <2>5. \A i : OnTrack(h, i, d) => OnTrack(h, i, d)'
    BY <2>2, <2>3, TrackKept
  <2>6. QED
    BY <2>1, <2>2, <2>3, <2>5, SerialKept DEF InFlight
<1>5. QED
  BY <1>3, <1>4

LEMMA SerialChange ==
  ASSUME IInv, NEW d \in Docs, Serial(d), FileChange
  PROVE  Serial(d)'
<1>1. TypeInv
  BY DEF IInv
<1>2. PICK m \in Messages : mail' = Append(mail, m) /\ m.kind = "watched"
  <2>1. (CHOOSE e \in Docs : TRUE) \in Docs
    BY DocsAssumption
  <2>2. QED
    BY <2>1 DEF FileChange, Message, Messages, NoText
<1>3. PICK last \in Nat :
        /\ mail'[last] = m /\ DOMAIN mail' = DOMAIN mail \cup {last}
        /\ \A x \in Docs : About(last, x)' <=> (m.doc = x /\ m.kind # "watched")
        /\ \A i \in DOMAIN mail : mail'[i] = mail[i] /\ i \in Nat /\ i < last
        /\ \A i \in DOMAIN mail, x \in Docs : About(i, x)' <=> About(i, x)
  BY <1>1, <1>2, MailFacts
<1>4. \A v : Current(v)'
  BY <1>2, <1>3 DEF Current
<1>5. Ahead(d) => Ahead(d)'
  BY <1>3 DEF Ahead
<1>6. UNCHANGED <<editor, crashing, handler, docs, shown>>
  BY DEF FileChange
<1>7. PICK h \in Slots : TRUE
  BY SlotsAssumption
<1>8. \A i : OnTrack(h, i, d) => OnTrack(h, i, d)'
  BY <1>4, <1>6, TrackKept
<1>9. QED
  BY <1>4, <1>5, <1>6, <1>8, SerialKept DEF InFlight

\* The handler that starts on the last message about a document is the one that
\* makes it what the editor shows.
LEMMA SerialStart ==
  ASSUME IInv, NEW d \in Docs, Serial(d), NEW h \in Slots, Start(h),
         \A g, k \in Slots : InFlight(g, d)' /\ InFlight(k, d)' => g = k
  PROVE  Serial(d)'
<1>1. TypeInv /\ MailIsRight /\ \A g \in Slots : HandlerIsRight(g)
  BY DEF IInv
<1>2. UNCHANGED <<editor, crashing, disk, docs, shown>>
  BY DEF Start
<1> DEFINE m == mail[1]
<1>3. /\ handler[h].at = "idle" /\ mail # <<>> /\ m \in Messages /\ mail' = Tail(mail)
      /\ mail \in Seq(Messages)
  BY <1>1, StartFacts DEF TypeInv
<1>4. /\ 1 \in DOMAIN mail
      /\ \A i \in DOMAIN mail' : i \in Nat /\ i > 0 /\ i + 1 \in DOMAIN mail /\ mail'[i] = mail[i + 1]
      /\ \A i \in DOMAIN mail : i # 1 => i - 1 \in DOMAIN mail' /\ mail'[i - 1] = mail[i]
      /\ \A i \in DOMAIN mail : i \in Nat /\ i > 0
  BY <1>3, TailFacts
<1>5. handler[h].jobs = <<>> /\ ~InFlight(h, d)
  BY <1>1, <1>3 DEF HandlerIsRight, InFlight
<1>6. ~About(1, d) /\ Ahead(d) => Ahead(d)'
  BY <1>4 DEF Ahead, About
<1>7. \A g \in Slots : g # h => handler'[g] = handler[g]
  BY <1>1, <1>3, StartFacts DEF Becomes, Messages
<1>8. m.kind # "watched" => \A v : Current(v) => Current(v)'
  <2>1. ASSUME m.kind # "watched"
        PROVE  \A v : Current(v) => Current(v)'
    <3>1. \A i \in DOMAIN mail : mail[i].kind = "watched" => \E j \in DOMAIN mail' : mail'[j] = mail[i]
      BY <1>4, <2>1
    <3>2. \A g \in Slots : handler[g].at = "snapshot" => handler'[g].at = "snapshot"
      BY <1>3, <1>7
    <3>3. QED
      BY <1>2, <3>1, <3>2, CurrentKept
  <2>2. QED
    BY <2>1
<1>9. CASE m.kind = "watched"
  <2>1. Becomes(h, "snapshot", <<>>, NoDiags)
    BY <1>1, <1>9, StartFacts
  <2>2. \A v : Current(v)'
    BY <2>1 DEF Current, Becomes
  <2>3. Ahead(d) => Ahead(d)'
    BY <1>6, <1>9 DEF About
  <2>4. \A i : i \notin DOMAIN handler'[h].jobs
    BY <2>1 DEF Becomes
  <2>5. QED
    BY <1>2, <1>5, <1>7, <2>2, <2>3, <2>4, SerialKept
<1>10. CASE m.kind # "watched" /\ m.doc # d
  <2>1. Ahead(d) => Ahead(d)'
    BY <1>6, <1>10 DEF About
  <2>2. ASSUME NEW i \in DOMAIN handler'[h].jobs
        PROVE  handler'[h].jobs[i].doc # d
    <3>1. CASE m.kind = "analyze"
      <4>1. Becomes(h, "compile", <<Job(m.doc, m.text, m.text, FALSE)>>, NoDiags)
        BY <1>1, <3>1, StartFacts
      <4>2. QED
        BY <1>10, <2>2, <4>1 DEF Becomes, Job
    <3>2. CASE m.kind = "close"
      <4>1. Becomes(h, "remove", <<Job(m.doc, NoText, NoText, FALSE)>>, NoDiags)
        BY <1>1, <3>2, StartFacts
      <4>2. QED
        BY <1>10, <2>2, <4>1 DEF Becomes, Job
    <3>3. QED
      BY <1>3, <1>10, <3>1, <3>2 DEF Messages
  <2>3. QED
    BY <1>2, <1>5, <1>7, <1>8, <1>10, <2>1, <2>2, SerialKept
<1>11. CASE m.kind # "watched" /\ m.doc = d
  <2>1. PICK job \in Jobs :
          /\ job = Job(d, m.text, m.text, FALSE)
          /\ \E at \in {"compile", "remove"} : Becomes(h, at, <<job>>, NoDiags)
    <3>0. Job(d, m.text, m.text, FALSE) \in Jobs
      BY <1>3 DEF Job, Jobs, Messages
    <3>1. CASE m.kind = "analyze"
      BY <1>1, <1>11, <3>0, <3>1, StartFacts
    <3>2. CASE m.kind = "close"
      <4>1. m.text = NoText
        BY <1>1, <1>4, <3>2 DEF MailIsRight
      <4>2. QED
        BY <1>1, <1>11, <3>0, <3>2, <4>1, StartFacts
    <3>3. QED
      BY <1>3, <1>11, <3>1, <3>2 DEF Messages
  <2>2. job.doc = d /\ job.text = m.text /\ job.version = m.text /\ job.onDisk = FALSE
    BY <2>1 DEF Job
  <2>3. handler'[h].jobs = <<job>> /\ handler'[h].at \in {"compile", "remove"} /\ InFlight(h, d)'
    <3>1. handler'[h].jobs = <<job>> /\ handler'[h].at \in {"compile", "remove"}
      <4>1. PICK at \in {"compile", "remove"} : handler'[h] = [at |-> at, jobs |-> <<job>>, diags |-> NoDiags]
        BY <2>1 DEF Becomes
      <4>2. QED
        BY <4>1
    <3>2. QED
      BY <2>2, <3>1 DEF InFlight
  <2>4. ASSUME NEW g \in Slots, NEW i \in DOMAIN handler'[g].jobs, handler'[g].jobs[i].doc = d
        PROVE  g = h /\ i = 1 /\ handler'[g].jobs[i] = job
    <3>1. InFlight(g, d)'
      BY <2>4 DEF InFlight
    <3>2. g = h
      BY <2>3, <3>1
    <3>3. QED
      BY <2>3, <2>4, <3>2
  <2>5. ASSUME ~Ahead(d)'
        PROVE  OnTrack(h, 1, d)'
    <3>1. About(1, d) /\ \A j \in DOMAIN mail : j > 1 => ~About(j, d)
      <4>1. ASSUME NEW j \in DOMAIN mail, j > 1, About(j, d)
            PROVE  FALSE
        <5>1. j - 1 \in DOMAIN mail' /\ mail'[j - 1] = mail[j]
          BY <1>4, <4>1
        <5>2. PICK k \in DOMAIN mail' : k = j - 1
          BY <5>1
        <5>3. About(k, d)'
          BY <4>1, <5>1, <5>2 DEF About
        <5>4. QED
          BY <2>5, <5>3 DEF Ahead
      <4>2. QED
        BY <1>11, <4>1 DEF About
    <3>2. m.text = editor[d]
      BY <1>1, <1>4, <3>1 DEF MailIsRight
    <3>3. QED
      BY <1>2, <2>2, <2>3, <3>2 DEF OnTrack
  <2>6. QED
    BY <2>2, <2>3, <2>4, <2>5 DEF Serial
<1>12. QED
  BY <1>9, <1>10, <1>11

\* A list of the store finds the documents settled.
LEMMA SerialSnapshot ==
  ASSUME IInv, NEW d \in Docs, Serial(d), NEW h \in Slots, Snapshot(h),
         \A g, k \in Slots : InFlight(g, d)' /\ InFlight(k, d)' => g = k
  PROVE  Serial(d)'
<1>1. TypeInv /\ \A g \in Slots : HandlerIsRight(g)
  BY DEF IInv
<1>2. UNCHANGED <<editor, crashing, disk, mail, docs, shown>> /\ handler[h].at = "snapshot"
  BY DEF Snapshot
<1>3. handler[h].jobs = <<>> /\ ~InFlight(h, d)
  BY <1>1, <1>2 DEF HandlerIsRight, InFlight
<1>4. \A g \in Slots : g # h => handler'[g] = handler[g]
  BY <1>1, SnapshotFacts DEF Becomes
<1>5. (Ahead(d) <=> Ahead(d)') /\ (Settled(d) <=> Settled(d)')
  BY <1>2 DEF Ahead, About, Settled, Verdict, Entry
<1>6. CASE docs[d] = Absent
  <2>1. ~InFlight(h, d)'
    <3>1. CASE Becomes(h, "idle", <<>>, NoDiags)
      BY <3>1 DEF Becomes, InFlight
    <3>2. ASSUME NEW jobs \in Seq(Jobs), Becomes(h, "compile", jobs, NoDiags),
                 \A i \in DOMAIN jobs : docs[jobs[i].doc] # Absent
          PROVE  ~InFlight(h, d)'
      BY <1>6, <3>2 DEF Becomes, InFlight
    <3>3. QED
      BY <1>1, <3>1, <3>2, SnapshotFacts
  <2>2. ASSUME NEW g \in Slots, NEW i \in DOMAIN handler'[g].jobs, handler'[g].jobs[i].doc = d
        PROVE  g # h /\ handler'[g] = handler[g] /\ ~handler[g].jobs[i].onDisk /\ InFlight(g, d)
    <3>1. g # h
      BY <2>1, <2>2 DEF InFlight
    <3>2. handler'[g] = handler[g]
      BY <1>4, <3>1
    <3>3. QED
      BY <1>6, <2>2, <3>1, <3>2 DEF InFlight, Serial
  <2>3. ASSUME editor'[d] \notin crashing', ~Ahead(d)', \A g \in Slots : ~InFlight(g, d)'
        PROVE  Settled(d)' /\ Current(shown[d].disk)'
    <3>1. \A g \in Slots : ~InFlight(g, d)
      BY <1>3, <1>4, <2>3 DEF InFlight
    <3>2. Settled(d)
      BY <1>2, <1>5, <2>3, <3>1 DEF Serial
    <3>3. editor[d] = NoText
      BY <1>6, <3>2 DEF Settled, Entry, Absent
    <3>4. shown'[d].disk = 0
      BY <1>2, <3>2, <3>3 DEF Settled, Verdict, NoDiags
    <3>5. QED
      BY <1>5, <3>2, <3>4 DEF Current
  <2>4. ASSUME editor'[d] \notin crashing', ~Ahead(d)',
               NEW g \in Slots, NEW i \in DOMAIN handler'[g].jobs, handler'[g].jobs[i].doc = d
        PROVE  OnTrack(g, i, d)'
    <3>1. handler'[g] = handler[g] /\ ~handler[g].jobs[i].onDisk /\ i \in DOMAIN handler[g].jobs
      BY <2>2, <2>4
    <3>2. OnTrack(g, i, d)
      BY <1>2, <1>5, <2>4, <3>1 DEF Serial
    <3>3. Verdict(d, handler[g].diags)' <=> Verdict(d, handler[g].diags)
      BY <1>2, <3>1 DEF Verdict
    <3>4. Entry(d, handler[g].diags)' = Entry(d, handler[g].diags)
      BY <1>2, <3>1 DEF Entry
    <3>5. QED
      BY <1>2, <1>5, <3>1, <3>2, <3>3, <3>4 DEF OnTrack
  <2>5. QED
    BY <2>2, <2>3, <2>4 DEF Serial
<1>7. CASE docs[d] # Absent
  <2>1. PICK jobs \in Seq(Jobs) :
          /\ Becomes(h, "compile", jobs, NoDiags)
          /\ \A i \in DOMAIN jobs : /\ jobs[i].doc \in Docs /\ docs[jobs[i].doc] # Absent
                                    /\ jobs[i].text = docs[jobs[i].doc].text
                                    /\ jobs[i].version = docs[jobs[i].doc].version
                                    /\ jobs[i].onDisk
          /\ \E i \in DOMAIN jobs : jobs[i].doc = d
    BY <1>1, <1>7, SnapshotFacts
  <2>2. handler'[h].jobs = jobs /\ handler'[h].at = "compile" /\ InFlight(h, d)'
    BY <2>1 DEF Becomes, InFlight
  <2>3. \A g \in Slots : g # h => ~InFlight(g, d)' /\ ~InFlight(g, d)
    BY <1>4, <2>2 DEF InFlight
  <2>4. ASSUME editor'[d] \notin crashing', ~Ahead(d)', NEW i \in DOMAIN jobs, jobs[i].doc = d
        PROVE  OnTrack(h, i, d)'
    <3>1. Settled(d)
      BY <1>2, <1>3, <1>5, <2>3, <2>4 DEF Serial
    <3>2. docs[d] = Entry(d, shown[d]) /\ editor[d] # NoText
      BY <1>7, <3>1 DEF Settled, Entry
    <3>3. docs[d].text = editor[d] /\ docs[d].version = editor[d]
      BY <3>2 DEF Entry
    <3>4. QED
      BY <1>2, <1>5, <2>1, <2>2, <2>4, <3>1, <3>2, <3>3 DEF OnTrack
  <2>5. ASSUME NEW g \in Slots, NEW i \in DOMAIN handler'[g].jobs, handler'[g].jobs[i].doc = d
        PROVE  g = h /\ i \in DOMAIN jobs /\ jobs[i].doc = d
    BY <2>2, <2>3, <2>5 DEF InFlight
  <2>6. QED
    BY <1>2, <1>7, <2>2, <2>4, <2>5 DEF Serial
<1>8. QED
  BY <1>6, <1>7

\* The compiler says of the editor's text what settles the document.
LEMMA SerialCompile ==
  ASSUME IInv, NEW d \in Docs, Serial(d), NEW h \in Slots, Compile(h)
  PROVE  Serial(d)'
<1>1. TypeInv /\ \A g \in Slots : HandlerIsRight(g)
  BY DEF IInv
<1>2. UNCHANGED <<editor, crashing, disk, mail, docs, shown>> /\ handler[h].at = "compile"
  BY DEF Compile
<1>3. /\ \A v : Current(v) => Current(v)'
      /\ \A g \in Slots : g # h => handler'[g] = handler[g]
      /\ Ahead(d) <=> Ahead(d)'
  BY CurrentStep
<1> DEFINE jobs  == handler[h].jobs
           diags == IF jobs[1].text \in crashing THEN Panic
                    ELSE Checked(jobs[1].text, IF jobs[1].onDisk THEN disk ELSE 0)
<1>4. handler'[h].jobs = jobs /\ handler'[h].at = "store" /\ handler'[h].diags = diags
  <2>1. Becomes(h, "store", jobs, diags)
    BY CompileFacts
  <2> HIDE DEF jobs, diags
  <2>2. QED
    BY <2>1 DEF Becomes
<1>5. ASSUME NEW i \in DOMAIN jobs, jobs[i].doc = d, OnTrack(h, i, d), editor[d] \notin crashing
      PROVE  OnTrack(h, i, d)'
  <2>1. Settled(d) <=> Settled(d)'
    BY <1>2 DEF Settled, Verdict, Entry
  <2>2. jobs[i].text = editor[d] /\ jobs[i].version = editor[d] /\ (jobs[i].onDisk => editor[d] # NoText /\ Settled(d))
    BY <1>2, <1>5 DEF OnTrack
  <2>3. ASSUME i = 1
        PROVE  Verdict(d, handler[h].diags)' /\ (handler'[h].diags.disk # 0 =>
                 jobs[1].onDisk /\ Current(handler[h].diags.disk)')
    <3>1. editor[d] # NoText
      <4>1. JobIsRight(h, i)
        BY <1>1, <1>5 DEF HandlerIsRight
      <4>2. QED
        BY <1>2, <2>2, <4>1 DEF JobIsRight
    <3>2. handler'[h].diags = Checked(editor[d], IF jobs[1].onDisk THEN disk ELSE 0)
      BY <1>4, <1>5, <2>2, <2>3
    <3>3. disk \in Nat
      BY <1>1 DEF TypeInv
    <3>4. Verdict(d, handler[h].diags)'
      BY <1>2, <3>1, <3>2, <3>3 DEF Verdict
    <3>5. handler'[h].diags.disk = IF jobs[1].onDisk THEN disk ELSE 0
      BY <3>2 DEF Checked
    <3>6. QED
      BY <1>2, <3>4, <3>5 DEF Current
  <2>4. QED
    BY <1>2, <1>4, <2>1, <2>2, <2>3 DEF OnTrack
<1>6. \A i \in DOMAIN handler'[h].jobs : handler'[h].jobs[i].doc = d /\ editor[d] \notin crashing /\ OnTrack(h, i, d)
        => OnTrack(h, i, d)'
  BY <1>4, <1>5
<1>7. CASE editor[d] \in crashing
  BY <1>2, <1>3, <1>4, <1>7 DEF Serial
<1>8. CASE editor[d] \notin crashing
  BY <1>2, <1>3, <1>4, <1>6, <1>8, SerialKept DEF InFlight
<1>9. QED
  BY <1>7, <1>8

\* What is stored is that verdict.
LEMMA SerialStore ==
  ASSUME IInv, NEW d \in Docs, Serial(d), NEW h \in Slots, Store(h),
         \A g, k \in Slots : InFlight(g, d) /\ InFlight(k, d) => g = k
  PROVE  Serial(d)'
<1>1. TypeInv /\ HandlerIsRight(h)
  BY DEF IInv
<1>2. UNCHANGED <<editor, crashing, disk, mail, shown>> /\ handler[h].at = "store"
  BY DEF Store
<1>3. /\ \A v : Current(v) => Current(v)'
      /\ \A g \in Slots : g # h => handler'[g] = handler[g]
      /\ Ahead(d) <=> Ahead(d)'
  BY CurrentStep
<1> DEFINE jobs == handler[h].jobs
           new  == [text |-> jobs[1].text, version |-> jobs[1].version, diags |-> handler[h].diags]
<1>4. handler'[h].jobs = jobs /\ handler'[h].at = "publish" /\ handler'[h].diags = handler[h].diags
  <2>1. Becomes(h, "publish", jobs, handler[h].diags)
    BY MovesFacts
  <2> HIDE DEF jobs
  <2>2. QED
    BY <2>1 DEF Becomes
<1>5. Head(jobs) = jobs[1] /\ jobs[1] \in Jobs /\ 1 \in DOMAIN jobs
  BY <1>2, JobsOf
<1>6. docs' = [docs EXCEPT ![jobs[1].doc] =
             IF handler[h].diags # Panic THEN new
             ELSE IF @ = Absent THEN @
             ELSE [@ EXCEPT !.diags = Panic, !.version = jobs[1].version]]
  BY <1>5 DEF Store
<1>7. jobs[1].doc \in Docs /\ docs \in [Docs -> [text : Nat, version : Nat, diags : Diags]]
  BY <1>1, <1>5 DEF TypeInv, Jobs
<1>8. JobIsRight(h, 1)
  BY <1>1, <1>5 DEF HandlerIsRight
<1>9. CASE jobs[1].doc # d
  <2>1. docs'[d] = docs[d]
    BY <1>6, <1>7, <1>9
  <2>2. ASSUME NEW i \in DOMAIN jobs, jobs[i].doc = d, OnTrack(h, i, d)
        PROVE  OnTrack(h, i, d)'
    <3>1. i # 1 /\ (Settled(d) <=> Settled(d)')
      BY <1>2, <1>9, <2>1, <2>2 DEF Settled, Verdict, Entry
    <3>2. QED
      BY <1>2, <1>4, <1>9, <2>2, <3>1 DEF OnTrack
  <2>3. QED
    BY <1>2, <1>3, <1>4, <2>1, <2>2, SerialKept DEF InFlight
<1>10. CASE jobs[1].doc = d
  <2>1. InFlight(h, d) /\ InFlight(h, d)' /\ \A g \in Slots : g # h => ~InFlight(g, d)
    BY <1>4, <1>5, <1>10 DEF InFlight
  <2>2. \A g \in Slots : \A i \in DOMAIN handler'[g].jobs : handler'[g].jobs[i].doc = d => g = h
    BY <1>3, <2>1 DEF InFlight
  <2>3. docs[d] # Absent => docs'[d] # Absent
    <3>1. new # Absent /\ \A e : [e EXCEPT !.diags = Panic, !.version = jobs[1].version] # Absent \/ e = Absent
                                   \/ e \notin [text : Nat, version : Nat, diags : Diags]
      <4>1. handler[h].diags # NoDiags /\ Panic # NoDiags
        BY <1>2, <1>8 DEF JobIsRight, Panic, NoDiags
      <4>2. new # Absent
        BY <4>1 DEF Absent
      <4>3. ASSUME NEW e \in [text : Nat, version : Nat, diags : Diags]
            PROVE  [e EXCEPT !.diags = Panic, !.version = jobs[1].version] # Absent
        <5>1. PICK q : q = [e EXCEPT !.diags = Panic, !.version = jobs[1].version]
          OBVIOUS
        <5>2. q.diags = Panic
          BY <5>1
        <5>3. QED
          BY <4>1, <5>1, <5>2 DEF Absent
      <4>4. QED
        BY <4>2, <4>3
    <3>2. QED
      BY <1>6, <1>7, <1>10, <3>1
  <2>4. ASSUME editor[d] \notin crashing, ~Ahead(d), NEW i \in DOMAIN jobs, jobs[i].doc = d
        PROVE  OnTrack(h, i, d)'
    <3>1. OnTrack(h, i, d) /\ OnTrack(h, 1, d)
      BY <1>5, <1>10, <2>4 DEF Serial
    <3>2. jobs[1].text = editor[d] /\ jobs[1].version = editor[d] /\ Verdict(d, handler[h].diags)
      BY <1>2, <3>1 DEF OnTrack
    <3>3. editor[d] # NoText
      BY <1>2, <1>8, <3>1, <3>2 DEF OnTrack, JobIsRight
    <3>4. handler[h].diags # Panic
      <4>1. PICK v \in Nat : handler[h].diags = Checked(editor[d], v)
        BY <3>2, <3>3 DEF Verdict
      <4>2. handler[h].diags.kind = "checked" /\ Panic.kind = "panic"
        BY <4>1 DEF Checked, Panic
      <4>3. QED
        BY <4>2
    <3>5. docs'[d] = new
      BY <1>6, <1>7, <1>10, <3>4
    <3>6. docs'[d] = Entry(d, handler[h].diags)'
      BY <1>2, <1>4, <3>2, <3>3, <3>5 DEF Entry
    <3>7. Verdict(d, handler[h].diags)'
      BY <1>2, <1>4, <3>2 DEF Verdict
    <3>8. handler[h].diags.disk # 0 => jobs[1].onDisk /\ Current(handler[h].diags.disk)'
      <4>1. handler[h].diags.disk # 0 => jobs[1].onDisk /\ Current(handler[h].diags.disk)
        BY <1>2, <3>1 DEF OnTrack
      <4>2. PICK v : v = handler[h].diags.disk
        OBVIOUS
      <4>3. (Current(v) => Current(v)') /\ v = handler'[h].diags.disk
        BY <1>3, <1>4, <4>2
      <4>4. QED
        BY <4>1, <4>2, <4>3 DEF Current
    <3>9. QED
      BY <1>2, <1>4, <1>10, <3>1, <3>6, <3>7, <3>8 DEF OnTrack
  <2>5. ASSUME NEW i \in DOMAIN handler'[h].jobs, handler'[h].jobs[i].doc = d, handler'[h].jobs[i].onDisk
        PROVE  docs'[d] # Absent
    BY <1>4, <2>3, <2>5 DEF Serial
  <2>6. QED
    BY <1>2, <1>3, <1>4, <2>1, <2>2, <2>4, <2>5 DEF Serial
<1>11. QED
  BY <1>9, <1>10

\* A close takes out what the editor has closed.
LEMMA SerialRemove ==
  ASSUME IInv, NEW d \in Docs, Serial(d), NEW h \in Slots, Remove(h),
         \A g, k \in Slots : InFlight(g, d) /\ InFlight(k, d) => g = k
  PROVE  Serial(d)'
<1>1. TypeInv /\ HandlerIsRight(h)
  BY DEF IInv
<1>2. UNCHANGED <<editor, crashing, disk, mail, shown>> /\ handler[h].at = "remove"
  BY DEF Remove
<1>3. /\ \A v : Current(v) => Current(v)'
      /\ \A g \in Slots : g # h => handler'[g] = handler[g]
      /\ Ahead(d) <=> Ahead(d)'
  BY CurrentStep
<1> DEFINE jobs == handler[h].jobs
<1>4. handler'[h].jobs = jobs /\ handler'[h].at = "publish" /\ handler'[h].diags = NoDiags
  <2>1. Becomes(h, "publish", jobs, handler[h].diags) /\ handler[h].diags = NoDiags
    BY <1>1, <1>2, MovesFacts DEF HandlerIsRight
  <2> HIDE DEF jobs
  <2>2. QED
    BY <2>1 DEF Becomes
<1>5. Head(jobs) = jobs[1] /\ jobs[1] \in Jobs /\ 1 \in DOMAIN jobs /\ \A i \in DOMAIN jobs : i \in Nat /\ i > 0
  <2>1. jobs \in Seq(Jobs)
    BY <1>2, JobsOf
  <2>2. QED
    BY <1>2, <2>1, JobsOf
<1>6. docs' = [docs EXCEPT ![jobs[1].doc] = Absent]
  BY <1>5 DEF Remove
<1>7. jobs[1].doc \in Docs /\ docs \in [Docs -> [text : Nat, version : Nat, diags : Diags]]
  BY <1>1, <1>5 DEF TypeInv, Jobs
<1>8. \A i \in DOMAIN jobs : i = 1 /\ jobs[i].text = NoText /\ jobs[i].version = NoText /\ ~jobs[i].onDisk
  BY <1>1, <1>2, <1>5 DEF HandlerIsRight, JobIsRight
<1>9. CASE jobs[1].doc # d
  <2>1. docs'[d] = docs[d]
    BY <1>6, <1>7, <1>9
  <2>2. QED
    BY <1>2, <1>3, <1>4, <1>8, <1>9, <2>1, SerialKept DEF InFlight
<1>10. CASE jobs[1].doc = d
  <2>1. InFlight(h, d) /\ InFlight(h, d)' /\ \A g \in Slots : g # h => ~InFlight(g, d)
    BY <1>4, <1>5, <1>10 DEF InFlight
  <2>2. \A g \in Slots : \A i \in DOMAIN handler'[g].jobs : handler'[g].jobs[i].doc = d => g = h
    BY <1>3, <2>1 DEF InFlight
  <2>3. ASSUME editor[d] \notin crashing, ~Ahead(d)
        PROVE  OnTrack(h, 1, d)'
    <3>1. OnTrack(h, 1, d)
      BY <1>5, <1>10, <2>3 DEF Serial
    <3>2. editor[d] = NoText
      BY <1>5, <1>8, <3>1 DEF OnTrack
    <3>3. docs'[d] = Absent
      BY <1>6, <1>7, <1>10
    <3>4. docs'[d] = Entry(d, handler[h].diags)' /\ Verdict(d, handler[h].diags)'
      BY <1>2, <1>4, <3>2, <3>3 DEF Entry, Verdict
    <3>5. handler'[h].diags.disk = 0
      BY <1>4 DEF NoDiags
    <3>6. QED
      BY <1>2, <1>4, <1>5, <1>8, <3>1, <3>4, <3>5 DEF OnTrack
  <2>4. QED
    BY <1>2, <1>3, <1>4, <1>8, <2>1, <2>2, <2>3 DEF Serial
<1>11. QED
  BY <1>9, <1>10

\* The editor shows it.
LEMMA SerialPublish ==
  ASSUME IInv, NEW d \in Docs, Serial(d), NEW h \in Slots, Publish(h),
         \A g, k \in Slots : InFlight(g, d) /\ InFlight(k, d) => g = k
  PROVE  Serial(d)'
<1>1. TypeInv /\ HandlerIsRight(h)
  BY DEF IInv
<1>2. UNCHANGED <<editor, crashing, disk, mail, docs>> /\ handler[h].at = "publish"
  BY DEF Publish
<1>3. /\ \A v : Current(v) => Current(v)'
      /\ \A g \in Slots : g # h => handler'[g] = handler[g]
      /\ Ahead(d) <=> Ahead(d)'
  BY CurrentStep
<1> DEFINE jobs == handler[h].jobs
           rest == Tail(jobs)
<1>4. handler'[h].jobs = rest /\ handler'[h].at \in {"idle", "compile"}
  <2>1. Becomes(h, IF rest = <<>> THEN "idle" ELSE "compile", rest, NoDiags)
    BY PublishFacts
  <2> HIDE DEF rest
  <2>2. QED
    BY <2>1 DEF Becomes
<1>5. /\ Head(jobs) = jobs[1] /\ jobs[1] \in Jobs /\ 1 \in DOMAIN jobs
      /\ \A i \in DOMAIN rest : i \in Nat /\ i > 0 /\ i + 1 \in DOMAIN jobs /\ rest[i] = jobs[i + 1]
      /\ \A i \in DOMAIN jobs : i # 1 => i - 1 \in DOMAIN rest /\ rest[i - 1] = jobs[i]
  BY <1>2, JobsOf
<1>6. shown' = [shown EXCEPT ![jobs[1].doc] = handler[h].diags]
  BY <1>5 DEF Publish
<1>7. jobs[1].doc \in Docs /\ shown \in [Docs -> Diags]
  BY <1>1, <1>5 DEF TypeInv, Jobs
<1> HIDE DEF rest
<1>8. CASE jobs[1].doc # d
  <2>1. shown'[d] = shown[d] /\ (Settled(d) <=> Settled(d)')
    <3>1. shown'[d] = shown[d]
      BY <1>6, <1>7, <1>8
    <3>2. QED
      BY <1>2, <3>1 DEF Settled, Verdict, Entry
  <2>2. ASSUME NEW i \in DOMAIN rest, rest[i].doc = d, OnTrack(h, i + 1, d)
        PROVE  OnTrack(h, i, d)'
    BY <1>2, <1>4, <1>5, <1>8, <2>1, <2>2 DEF OnTrack
  <2>3. InFlight(h, d) => InFlight(h, d)'
    BY <1>4, <1>5, <1>8 DEF InFlight
  <2>4. QED
    BY <1>2, <1>3, <1>4, <1>5, <2>1, <2>2, <2>3, SerialKept
<1>9. CASE jobs[1].doc = d
  <2>1. InFlight(h, d) /\ \A g \in Slots : g # h => ~InFlight(g, d)
    BY <1>5, <1>9 DEF InFlight
  <2>2. \A g \in Slots : \A i \in DOMAIN handler'[g].jobs : handler'[g].jobs[i].doc = d => g = h
    BY <1>3, <2>1 DEF InFlight
  <2>3. ASSUME editor[d] \notin crashing, ~Ahead(d)
        PROVE  Settled(d)' /\ Current(shown[d].disk)'
    <3>1. OnTrack(h, 1, d)
      BY <1>5, <1>9, <2>3 DEF Serial
    <3>2. Verdict(d, handler[h].diags) /\ docs[d] = Entry(d, handler[h].diags)
      BY <1>2, <3>1 DEF OnTrack
    <3>3. shown'[d] = handler[h].diags
      BY <1>6, <1>7, <1>9
    <3>4. Settled(d)'
      BY <1>2, <3>2, <3>3 DEF Settled, Verdict, Entry
    <3>5. PICK v : v = shown'[d].disk
      OBVIOUS
    <3>6. v = 0 \/ Current(v)
      BY <1>2, <3>1, <3>3, <3>5 DEF OnTrack
    <3>7. Current(v)'
      BY <1>3, <3>6 DEF Current
    <3>8. QED
      BY <3>4, <3>5, <3>7 DEF Current
  <2>4. ASSUME editor[d] \notin crashing, ~Ahead(d), NEW i \in DOMAIN rest, rest[i].doc = d
        PROVE  OnTrack(h, i, d)'
    <3>1. OnTrack(h, i + 1, d)
      BY <1>5, <2>4 DEF Serial
    <3>2. QED
      BY <1>2, <1>4, <1>5, <2>3, <2>4, <3>1 DEF OnTrack
  <2>5. QED
    BY <1>2, <1>3, <1>4, <1>5, <2>2, <2>3, <2>4 DEF Serial
<1>10. QED
  BY <1>8, <1>9

-----------------------------------------------------------------------------
\* A race is noticed at the step that makes it.
LEMMA RaceStep ==
  ASSUME OneInFlight, [Next]_vars
  PROVE  OneInFlight'
BY DEF OneInFlight, Next, InFlight, vars, serverVars

LEMMA SerialStep ==
  ASSUME IInv, SerialInv, [Next]_vars
  PROVE  SerialInv'
<1>1. OneInFlight /\ OneInFlight'
  BY RaceStep DEF SerialInv
<1>2. ASSUME NEW d \in Docs \ raced'
      PROVE  Serial(d)'
  <2>1. d \in Docs \ raced
    BY <1>2 DEF Next, vars
  <2>2. Serial(d)
    BY <2>1 DEF SerialInv
  <2>3. \A g, k \in Slots : InFlight(g, d) /\ InFlight(k, d) => g = k
    BY <1>1, <2>1 DEF OneInFlight
  <2>4. \A g, k \in Slots : InFlight(g, d)' /\ InFlight(k, d)' => g = k
    BY <1>1, <1>2 DEF OneInFlight
  <2>5. TypeInv
    BY DEF IInv
  <2>6. ASSUME NEW e \in Docs, Close(e)
        PROVE  Serial(d)'
    <3>1. Message("close", e, NoText) \in Messages /\ UNCHANGED <<crashing, disk, handler, docs, shown>>
      BY <2>6 DEF Message, Messages, NoText, Close
    <3>2. QED
      BY <2>1, <2>2, <2>6, <3>1, SerialSend DEF Close, Message
  <2>7. ASSUME NEW e \in Docs, NEW crashes \in BOOLEAN, Edit(e, crashes)
        PROVE  Serial(d)'
    <3>1. Message("analyze", e, sent + 1) \in Messages
      BY <2>5 DEF Message, Messages, TypeInv
    <3>2. crashing \subseteq crashing' /\ UNCHANGED <<disk, handler, docs, shown>>
      BY <2>7 DEF Edit
    <3>3. mail' = Append(mail, Message("analyze", e, sent + 1)) /\ editor' = [editor EXCEPT ![e] = sent + 1]
      BY <2>7 DEF Edit
    <3>4. Message("analyze", e, sent + 1).doc = e /\ Message("analyze", e, sent + 1).kind # "watched"
      BY DEF Message
    <3>5. QED
      BY <2>1, <2>2, <3>1, <3>2, <3>3, <3>4, SerialSend
  <2>8. CASE UNCHANGED vars
    <3>1. \A i : \A g \in Slots : OnTrack(g, i, d)' <=> OnTrack(g, i, d)
      BY <2>8 DEF OnTrack, Settled, Verdict, Entry, Current, vars, serverVars
    <3>2. Settled(d)' <=> Settled(d)
      BY <2>8 DEF Settled, Verdict, Entry, vars, serverVars
    <3>3. QED
      BY <2>2, <2>8, <3>1, <3>2 DEF Serial, Ahead, About, InFlight, Current, vars, serverVars
  <2>9. QED
    BY <2>1, <2>2, <2>3, <2>4, <2>6, <2>7, <2>8, SerialChange, SerialStart, SerialSnapshot, SerialCompile,
       SerialStore, SerialRemove, SerialPublish DEF Next, Step, HandlerStep
<1>3. QED
  BY <1>1, <1>2 DEF SerialInv

LEMMA InitSerial == Init => SerialInv
<1> SUFFICES ASSUME Init PROVE SerialInv
  OBVIOUS
<1>1. \A h \in Slots : handler[h].jobs = <<>>
  BY DEF Init, Idle
<1>2. \A d \in Docs : editor[d] = NoText /\ docs[d] = Absent /\ shown[d] = NoDiags
  BY DEF Init
<1>3. \A d \in Docs : Settled(d) /\ Current(shown[d].disk)
  BY <1>2 DEF Settled, Entry, Verdict, Current, NoDiags
<1>4. QED
  BY <1>1, <1>3 DEF SerialInv, OneInFlight, InFlight, Serial

\* A document whose handlers never ran at the same time is, once they are done,
\* what the editor shows, in the store and on the screen, against the files as
\* they are (did_open, did_change, did_close, did_change_watched_files).
THEOREM SerialConverges == Spec => []SerialHandlingConverges
<1>1. IInv /\ SerialInv /\ [Next]_vars => SerialInv'
  BY SerialStep
<1>2. IInv /\ SerialInv => SerialHandlingConverges
  <2> SUFFICES ASSUME IInv, SerialInv, NEW d \in Docs, Quiet(d), d \notin raced, editor[d] \notin crashing
      PROVE  IF editor[d] = NoText
               THEN docs[d] = Absent /\ shown[d] = NoDiags
               ELSE /\ docs[d].text = editor[d] /\ docs[d].version = editor[d]
                    /\ docs[d].diags = shown[d]
                    /\ shown[d] \in {Checked(editor[d], 0), Checked(editor[d], disk)}
    BY DEF SerialHandlingConverges
  <2>1. ~Ahead(d) /\ \A h \in Slots : ~InFlight(h, d) /\ handler[h].at # "snapshot"
    BY DEF Quiet, Ahead, About
  <2>2. Settled(d) /\ Current(shown[d].disk)
    BY <2>1 DEF SerialInv, Serial
  <2>3. shown[d].disk \in {0, disk}
    BY <2>1, <2>2 DEF Current, Quiet
  <2>4. CASE editor[d] = NoText
    BY <2>2, <2>4 DEF Settled, Entry, Verdict
  <2>5. CASE editor[d] # NoText
    <3>1. docs[d] = [text |-> editor[d], version |-> editor[d], diags |-> shown[d]]
      BY <2>2, <2>5 DEF Settled, Entry
    <3>2. PICK v \in Nat : shown[d] = Checked(editor[d], v)
      BY <2>2, <2>5 DEF Settled, Verdict
    <3>3. v \in {0, disk}
      BY <2>3, <3>2 DEF Checked
    <3>4. QED
      BY <2>5, <3>1, <3>2, <3>3
  <2>6. QED
    BY <2>4, <2>5
<1>3. QED
  BY <1>1, <1>2, InitSerial, Invariance, PTL DEF Spec
=============================================================================
