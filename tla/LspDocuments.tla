---------------------------- MODULE LspDocuments ----------------------------
(***************************************************************************)
(* The language server's document store (tools/lsp/tyra-lsp/src/main.rs).  *)
(* The editor sends the full text of a document on every edit; tower-lsp   *)
(* starts the handlers of the messages in order and runs several of them   *)
(* at a time.  A handler compiles on a blocking thread, then takes the     *)
(* lock of the store to keep the result, then publishes the diagnostics:   *)
(* between the three, other handlers run.                                  *)
(*                                                                         *)
(* Texts are numbered in the order the editor sends them, over all the     *)
(* documents, and a text's number is also the version it is sent with.     *)
(* What the compiler says of a text is a function of the text and, when    *)
(* imports are resolved, of the files on disk; some texts crash it.        *)
(***************************************************************************)
EXTENDS Naturals, Sequences, FiniteSets

CONSTANTS Docs,         \* URIs
          Slots,        \* handlers that may run at a time (tower-lsp: 4)
          MaxEdits,     \* bound: texts the editor sends
          MaxDisk       \* bound: changes of the files on disk

ASSUME DocsAssumption  == IsFiniteSet(Docs) /\ Docs # {}
ASSUME SlotsAssumption == Slots # {}
ASSUME BoundAssumption == MaxEdits \in Nat /\ MaxDisk \in Nat

Texts  == 1..MaxEdits
NoText == 0                    \* closed in the editor, absent from the store

VARIABLES
  editor,      \* the text the editor shows for a document, or NoText
  sent,        \* texts 1..sent have been sent
  crashing,    \* those that make the compiler panic
  disk,        \* version of the files on disk
  mail,        \* messages no handler has started on
  handler,     \* what each handler is at, its jobs, and the result of the first
  docs,        \* TyraLsp.documents
  shown,       \* the diagnostics the editor was last given for a document
  answered,    \* history: the versions published
  raced        \* history: documents two handlers have worked on at a time

serverVars == <<editor, sent, crashing, disk, mail, handler, docs, shown, answered>>
vars == <<serverVars, raced>>

\* Diagnostics: none at all, the E9999 of a panic, or those of a text checked
\* against version disk of the files (0: imports not resolved).
NoDiags       == [kind |-> "none", text |-> NoText, disk |-> 0]
Panic         == [kind |-> "panic", text |-> NoText, disk |-> 0]
Checked(n, v) == [kind |-> "checked", text |-> n, disk |-> v]

Absent  == [text |-> NoText, version |-> NoText, diags |-> NoDiags]

\* A job is one call of analyze; onDisk says whether workspace_dir is given.
Job(d, n, v, onDisk) == [doc |-> d, text |-> n, version |-> v, onDisk |-> onDisk]
Idle  == [at |-> "idle", jobs |-> <<>>, diags |-> NoDiags]

Message(k, d, n)   == [kind |-> k, doc |-> d, text |-> n]
InFlight(h, d)     == \E i \in DOMAIN handler[h].jobs : handler[h].jobs[i].doc = d

Init == /\ editor   = [d \in Docs |-> NoText]
        /\ sent     = 0
        /\ crashing = {}
        /\ disk     = 1
        /\ mail     = <<>>
        /\ handler  = [h \in Slots |-> Idle]
        /\ docs     = [d \in Docs |-> Absent]
        /\ shown    = [d \in Docs |-> NoDiags]
        /\ answered = {}
        /\ raced    = {}

-----------------------------------------------------------------------------
(* The editor and the file system.                                         *)

\* didOpen, or didChange with the whole new text.
Edit(d, crashes) ==
  /\ sent < MaxEdits
  /\ sent'     = sent + 1
  /\ editor'   = [editor EXCEPT ![d] = sent + 1]
  /\ crashing' = IF crashes THEN crashing \cup {sent + 1} ELSE crashing
  /\ mail'     = Append(mail, Message("analyze", d, sent + 1))
  /\ UNCHANGED <<disk, handler, docs, shown, answered>>

Close(d) ==
  /\ editor[d] # NoText
  /\ editor' = [editor EXCEPT ![d] = NoText]
  /\ mail'   = Append(mail, Message("close", d, NoText))
  /\ UNCHANGED <<sent, crashing, disk, handler, docs, shown, answered>>

\* A .ty file changes outside the editor, which reports it for no document.
FileChange ==
  /\ disk <= MaxDisk
  /\ disk' = disk + 1
  /\ mail' = Append(mail, Message("watched", CHOOSE d \in Docs : TRUE, NoText))
  /\ UNCHANGED <<editor, sent, crashing, handler, docs, shown, answered>>

-----------------------------------------------------------------------------
(* The server.                                                             *)

\* tower-lsp starts the handler of the oldest message in a free slot.
Start(h) ==
  /\ handler[h].at = "idle" /\ mail # <<>>
  /\ LET m == Head(mail) IN
     handler' = [handler EXCEPT ![h] =
       CASE m.kind = "analyze" ->
              [Idle EXCEPT !.at = "compile", !.jobs = <<Job(m.doc, m.text, m.text, FALSE)>>]
         [] m.kind = "close" ->
              [Idle EXCEPT !.at = "remove", !.jobs = <<Job(m.doc, NoText, NoText, FALSE)>>]
         [] m.kind = "watched" -> [Idle EXCEPT !.at = "snapshot"]]
  /\ mail' = Tail(mail)
  /\ UNCHANGED <<editor, sent, crashing, disk, docs, shown, answered>>

\* did_change_watched_files lists the store, in the order of its hash map.
Snapshot(h) ==
  /\ handler[h].at = "snapshot"
  /\ LET open == {d \in Docs : docs[d] # Absent} IN
     \E order \in [1..Cardinality(open) -> open] :
       /\ \A d \in open : \E i \in DOMAIN order : order[i] = d
       /\ handler' = [handler EXCEPT ![h] =
            IF open = {} THEN Idle
            ELSE [Idle EXCEPT !.at = "compile",
                              !.jobs = [i \in DOMAIN order |->
                                          Job(order[i], docs[order[i]].text, docs[order[i]].version, TRUE)]]]
  /\ UNCHANGED <<editor, sent, crashing, disk, mail, docs, shown, answered>>

\* spawn_blocking and catch_unwind: the compiler's verdict on the first job.
Compile(h) ==
  LET job == Head(handler[h].jobs) IN
  /\ handler[h].at = "compile"
  /\ handler' = [handler EXCEPT
       ![h].at    = "store",
       ![h].diags = IF job.text \in crashing THEN Panic
                    ELSE Checked(job.text, IF job.onDisk THEN disk ELSE 0)]
  /\ UNCHANGED <<editor, sent, crashing, disk, mail, docs, shown, answered>>

\* Variants named X_... stand for a bug in X that a property has to notice.
\* Here: a panic leaves the entry's version alone; it ends the handler.
Store_PanicKeepsVersion(h) ==
  LET job == Head(handler[h].jobs)
      new == [text |-> job.text, version |-> job.version, diags |-> handler[h].diags] IN
  /\ handler[h].at = "store"
  /\ docs' = [docs EXCEPT ![job.doc] =
       IF handler[h].diags # Panic THEN new
       ELSE IF @ = Absent THEN @
       ELSE [@ EXCEPT !.diags = Panic]]
  /\ handler' = [handler EXCEPT ![h].at = "publish"]
  /\ UNCHANGED <<editor, sent, crashing, disk, mail, shown, answered>>

Store_Unwinds(h) ==
  LET job == Head(handler[h].jobs)
      new == [text |-> job.text, version |-> job.version, diags |-> handler[h].diags] IN
  /\ handler[h].at = "store"
  /\ docs' = IF handler[h].diags = Panic THEN docs ELSE [docs EXCEPT ![job.doc] = new]
  /\ handler' = [handler EXCEPT ![h] = IF handler[h].diags = Panic THEN Idle ELSE [@ EXCEPT !.at = "publish"]]
  /\ UNCHANGED <<editor, sent, crashing, disk, mail, shown, answered>>

\* The result goes into the store; a panic marks the entry that is there.
Store(h) ==
  LET job == Head(handler[h].jobs)
      new == [text |-> job.text, version |-> job.version, diags |-> handler[h].diags] IN
  /\ handler[h].at = "store"
  /\ docs' = [docs EXCEPT ![job.doc] =
       IF handler[h].diags # Panic THEN new
       ELSE IF @ = Absent THEN @
       ELSE [@ EXCEPT !.diags = Panic, !.version = job.version]]
  /\ handler' = [handler EXCEPT ![h].at = "publish"]
  /\ UNCHANGED <<editor, sent, crashing, disk, mail, shown, answered>>

\* did_close takes the entry out.
Remove(h) ==
  /\ handler[h].at = "remove"
  /\ docs'    = [docs EXCEPT ![Head(handler[h].jobs).doc] = Absent]
  /\ handler' = [handler EXCEPT ![h].at = "publish"]
  /\ UNCHANGED <<editor, sent, crashing, disk, mail, shown, answered>>

\* A close that leaves the diagnostics on the screen.
Publish_NotOnClose(h) ==
  LET job  == Head(handler[h].jobs)
      rest == Tail(handler[h].jobs) IN
  /\ handler[h].at = "publish"
  /\ shown'    = IF job.version = NoText THEN shown ELSE [shown EXCEPT ![job.doc] = handler[h].diags]
  /\ answered' = answered \cup {job.version}
  /\ handler'  = [handler EXCEPT ![h] =
       IF rest = <<>> THEN Idle ELSE [Idle EXCEPT !.at = "compile", !.jobs = rest]]
  /\ UNCHANGED <<editor, sent, crashing, disk, mail, docs>>

\* The editor gets the diagnostics; the loop over the documents goes on.
Publish(h) ==
  LET job  == Head(handler[h].jobs)
      rest == Tail(handler[h].jobs) IN
  /\ handler[h].at = "publish"
  /\ shown'    = [shown EXCEPT ![job.doc] = handler[h].diags]
  /\ answered' = answered \cup {job.version}
  /\ handler'  = [handler EXCEPT ![h] =
       IF rest = <<>> THEN Idle ELSE [Idle EXCEPT !.at = "compile", !.jobs = rest]]
  /\ UNCHANGED <<editor, sent, crashing, disk, mail, docs>>

HandlerStep(h) == Snapshot(h) \/ Compile(h) \/ Store(h) \/ Remove(h) \/ Publish(h)

Step == \/ \E d \in Docs : Close(d) \/ \E crashes \in BOOLEAN : Edit(d, crashes)
        \/ FileChange
        \/ \E h \in Slots : Start(h) \/ HandlerStep(h)

Next == /\ Step
        /\ raced' = raced \cup {d \in Docs : \E g, h \in Slots :
                                  g # h /\ InFlight(g, d)' /\ InFlight(h, d)'}

Spec == Init /\ [][Next]_vars

\* The executor polls what is ready and the compiler terminates; the editor
\* owes nothing.
Fairness == /\ WF_vars(Next /\ \E h \in Slots : Start(h))
            /\ \A h \in Slots : WF_vars(Next /\ HandlerStep(h))

FairSpec == Spec /\ Fairness

-----------------------------------------------------------------------------

\* However the handlers interleave, an entry holds together: its diagnostics
\* are those of its text, and only a panic on its version explains that its
\* text is another one or that its diagnostics are E9999.
EntriesHoldTogether ==
  \A d \in Docs : docs[d] # Absent =>
    /\ docs[d].text # docs[d].version => docs[d].version \in crashing
    /\ \/ docs[d].diags.kind = "checked" /\ docs[d].diags.text = docs[d].text
       \/ docs[d].diags = Panic /\ docs[d].version \in crashing

\* Nothing is on its way to document d.
Quiet(d) == /\ \A i \in DOMAIN mail : mail[i].doc # d /\ mail[i].kind # "watched"
            /\ \A h \in Slots : ~InFlight(h, d) /\ handler[h].at # "snapshot"

\* A document whose handlers never ran at the same time is, once they are done,
\* what the editor shows: same text, same version, its diagnostics on the
\* screen and in the store, against the files as they are; or gone if closed.
SerialHandlingConverges ==
  \A d \in Docs : Quiet(d) /\ d \notin raced /\ editor[d] \notin crashing =>
    IF editor[d] = NoText
      THEN docs[d] = Absent /\ shown[d] = NoDiags
      ELSE /\ docs[d].text = editor[d] /\ docs[d].version = editor[d]
           /\ docs[d].diags = shown[d]
           /\ shown[d] \in {Checked(editor[d], 0), Checked(editor[d], disk)}

\* Every edit is answered with diagnostics for its version, even the ones that
\* crash the compiler.
EditsAreAnswered == \A n \in Texts : sent >= n ~> n \in answered
=============================================================================
