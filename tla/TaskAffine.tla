----------------------------- MODULE TaskAffine -----------------------------
(***************************************************************************)
(* The affine pass over a body (tyra-types/src/task_affine.rs): each       *)
(* handle bound by a let is followed through the text, and a second await  *)
(* is an error (E0321), a handle never awaited a warning (E0322).          *)
(*                                                                         *)
(* `let_go` is a history: the pass met one of the gaps it documents, a     *)
(* handle that escapes or one that only some branches had awaited.         *)
(***************************************************************************)
EXTENDS Bodies

Binding(state, site, depth) == [state |-> state, site |-> site, depth |-> depth]
Untracked == Binding("untracked", 0, 0)
Tracked   == {"live", "maybe", "consumed"}

Ctx(depth, exit) == [depth |-> depth, exit |-> exit]

-----------------------------------------------------------------------------
(* What bounds a statement to one run: the exit that follows it in its own *)
(* list, unless a continue of the same loop may come first.                *)

RECURSIVE HasContinue(_)
HasContinue(b) ==
  \E i \in DOMAIN b : \/ b[i].op = "continue"
                      \/ b[i].op \in Matches /\ \E j \in DOMAIN b[i].alts : HasContinue(b[i].alts[j].body)

Leaves(s) == s.op \in {"return", "break"} \/ HasContinue(<<s>>)

LoopExit_IgnoresContinue(rest) ==
  LET at == {i \in DOMAIN rest : rest[i].op \in {"return", "break"}}
  IN  IF at = {} THEN "none" ELSE rest[Min(at)].op
LoopExit(rest) ==
  LET at == {i \in DOMAIN rest : Leaves(rest[i])}
  IN  IF at # {} /\ rest[Min(at)].op \in {"return", "break"} THEN rest[Min(at)].op ELSE "none"

-----------------------------------------------------------------------------
(* The scopes.  A walker is a stack of frames and what was reported.       *)

EmptyFrame == <<>>
Walker(stack, errors, warned, let_go) ==
  [stack |-> stack, errors |-> errors, warned |-> warned, let_go |-> let_go]

Live(frame) == {frame[n].site : n \in {n \in DOMAIN frame : frame[n].state = "live"}}

Push(w) == [w EXCEPT !.stack = Append(@, EmptyFrame)]
Pop(w)  == [w EXCEPT !.stack = Front(@), !.warned = @ \cup Live(Last(w.stack))]

\* define and tombstone: a live handle under the same name is lost.
Rebind(w, name, binding) ==
  IF name = NoName THEN w
  ELSE LET top == Last(w.stack)
       IN  [w EXCEPT !.stack = Append(Front(@), (name :> binding) @@ top),
                     !.warned = @ \cup (IF name \in DOMAIN top THEN Live(name :> top[name]) ELSE {})]

Define(w, name, site, c) == Rebind(w, name, Binding("live", site, c.depth))
Tombstone(w, name)       == Rebind(w, name, Untracked)

Frames(w, name) == {i \in DOMAIN w.stack : name \in DOMAIN w.stack[i]}
Handle(w, name) == IF Frames(w, name) = {} THEN Untracked ELSE w.stack[Max(Frames(w, name))][name]

Put(w, name, binding) == [w EXCEPT !.stack[Max(Frames(w, name))][name] = binding]

Escape(w, name) ==
  IF Handle(w, name).state \in Tracked
  THEN [Put(w, name, Untracked) EXCEPT !.let_go = TRUE]
  ELSE w

\* A site deeper in loops than the binding may run again.
MayRepeat_InAnyLoop(h, c) == c.depth > 0 /\ c.exit \notin {"return", "break"}
MayRepeat(h, c) ==
  /\ h.depth < c.depth
  /\ c.exit # "return"
  /\ ~(c.exit = "break" /\ h.depth + 1 = c.depth)

Consume(w, name, site, c) ==
  LET h     == Handle(w, name)
      wrong == MayRepeat(h, c) \/ h.state = "consumed"
  IN  IF h.state = "untracked" THEN w
      ELSE [Put(w, name, [h EXCEPT !.state = "consumed"]) EXCEPT
              !.errors = IF wrong THEN @ \cup {site} ELSE @,
              !.let_go = @ \/ h.state = "maybe"]

CheckSource(w, name, site) ==
  LET h == Handle(w, name)
  IN  [w EXCEPT !.errors = IF h.state = "consumed" THEN @ \cup {site} ELSE @,
                !.let_go = @ \/ h.state = "maybe"]

-----------------------------------------------------------------------------
(* Where branches meet.                                                    *)

JoinHandle_EitherLive(a, b) ==
  [a EXCEPT !.state = IF "live" \in {a.state, b.state} THEN "live"
                      ELSE IF a.state = b.state THEN a.state ELSE "maybe"]
JoinHandle(a, b) ==
  [a EXCEPT !.state = IF a.state = b.state THEN a.state ELSE "maybe"]

JoinFrames(f, g) ==
  [n \in DOMAIN f \cup DOMAIN g |->
     IF /\ n \in DOMAIN f /\ f[n].state \in Tracked
        /\ n \in DOMAIN g /\ g[n].state \in Tracked
     THEN JoinHandle(f[n], g[n]) ELSE Untracked]

Join(w, v) == Walker([i \in DOMAIN w.stack |-> JoinFrames(w.stack[i], v.stack[i])],
                     w.errors \cup v.errors, w.warned \cup v.warned, w.let_go \/ v.let_go)

-----------------------------------------------------------------------------
(* The walk.                                                               *)

Names(b) == {Flat(b)[i].name : i \in DOMAIN Flat(b)}
EscapeAll(w, names) ==
  LET gone == {n \in names : Handle(w, n).state \in Tracked}
  IN  [w EXCEPT !.stack = [i \in DOMAIN @ |-> [n \in DOMAIN @[i] |->
                             IF n \in gone /\ i = Max(Frames(w, n)) THEN Untracked ELSE @[i][n]]],
                !.let_go = @ \/ gone # {}]

RECURSIVE VisitStmt(_, _, _)
RECURSIVE VisitStmts(_, _, _)

\* A block below a statement, in a scope of its own.
Visited(w, alt, c) == Pop(VisitStmts(Tombstone(Push(w), alt.name), alt.body, c))

VisitLambda(w, alt) ==
  LET out   == EscapeAll(w, Names(alt.body))
      inner == Visited(Walker(<<>>, {}, {}, FALSE), alt, Ctx(0, "none"))
  IN  [out EXCEPT !.errors = @ \cup inner.errors, !.warned = @ \cup inner.warned,
                  !.let_go = @ \/ inner.let_go]

VisitWhile(w, s, c) ==
  LET body == s.alts[1].body
      cond == Ctx(IF LoopExit(body) # "none" THEN c.depth ELSE c.depth + 1, "none")
  IN  Visited(IF s.name = NoName THEN w ELSE Consume(w, s.name, s.site, cond),
              s.alts[1], Ctx(c.depth + 1, "none"))

VisitStmt(w, s, c) ==
  CASE s.op = "let"            -> Tombstone(w, s.name)
    [] s.op = "spawn"          -> Define(w, s.name, s.site, c)
    [] s.op = "use"            -> Escape(w, s.name)
    [] s.op = "await"          -> Consume(w, s.name, s.site, c)
    [] s.op = "select"         -> CheckSource(w, s.name, s.site)
    [] s.op = "and"            -> Join(w, Pop(Consume(Push(w), s.name, s.site, c)))
    [] s.op \in Matches        -> LET ways == [i \in DOMAIN s.alts |-> Visited(w, s.alts[i], c)]
                                  IN  FoldLeft(Join, Head(ways), Tail(ways))
    [] s.op = "tuple"          -> FoldLeft(LAMBDA v, e : VisitStmt(v, e, c), w, s.alts[1].body)
    [] s.op \in {"for", "each"} -> Visited(w, s.alts[1], Ctx(c.depth + 1, "none"))
    [] s.op = "while"          -> VisitWhile(w, s, c)
    [] s.op = "lambda"         -> VisitLambda(w, s.alts[1])
    [] OTHER                   -> w

VisitStmts(w, b, c) ==
  IF b = <<>> THEN w
  ELSE LET next == VisitStmt(w, Head(b), Ctx(c.depth, LoopExit(b)))
       IN  IF Head(b).op \in Exits THEN next ELSE VisitStmts(next, Tail(b), c)

\* analyze_body
Analyzed(b) == Pop(VisitStmts(Walker(<<EmptyFrame>>, {}, {}, FALSE), b, Ctx(0, "none")))
==============================================================================
