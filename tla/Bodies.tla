------------------------------- MODULE Bodies -------------------------------
(***************************************************************************)
(* Bodies of functions, as far as names, control and task handles go       *)
(* (tyra-ast), and what the language says they do.                         *)
(*                                                                         *)
(* A statement has an operation, a site that tells it from the others, the *)
(* name it binds or reads, and the blocks below it.  A block says which    *)
(* name is bound on entry: the pattern of an arm, the variable of a loop   *)
(* or the parameter of a lambda.  The statements in the block of a tuple   *)
(* are its elements.  Conditions, and what a call does, are chosen freely. *)
(***************************************************************************)
EXTENDS Naturals, Sequences, FiniteSets, SequencesExt, TLC

CONSTANTS MaxRounds  \* bound: rounds of all the loops of a run

NoName == <<>>

Stmt(op, site, name, alts) == [op |-> op, site |-> site, name |-> name, alts |-> alts]
Alt(site, name, body)      == [site |-> site, name |-> name, body |-> body]

Binders == {"let", "spawn"}          \* let x = .., let x = spawn ..
Events  == {"use", "await", "select"}
Loops   == {"while", "for", "each"}  \* each: `for` over a map or a set
Matches == {"branch", "untuple"}     \* untuple: a match with a tuple pattern
Exits   == {"return", "break", "continue"}

\* All the statements of a body, in the order of the text.
RECURSIVE Flat(_)
Flat(b) == IF b = <<>> THEN <<>>
           ELSE FoldLeft(LAMBDA flat, alt : flat \o Flat(alt.body), <<Head(b)>>, Head(b).alts) \o Flat(Tail(b))

-----------------------------------------------------------------------------
(* What a body does: the events of its runs.  A value is the site that     *)
(* made it and when.                                                       *)

Value(site, ev) == <<site, Len(ev)>>
Bound(env, name, v) == IF name = NoName THEN env ELSE (name :> v) @@ env
Event(kind, v) == <<kind, v>>

\* Left of an `and`.
Decided(st, b)     == [st EXCEPT !.ev = Append(@, Event("left", <<b, 0>>))]

Result(out, st)    == [out |-> out, st |-> st]
Emits(st, kind, n) == [st EXCEPT !.ev = Append(@, Event(kind, st.env[n]))]

\* The deferred expressions run last, the one registered last first.
Deferred(sites) == [i \in DOMAIN sites |-> Event("defer", <<Reverse(sites)[i], 0>>)]

RECURSIVE Does(_, _)
RECURSIVE Rounds(_, _)
RECURSIVE Called(_, _)

RECURSIVE Steps(_, _)
Steps(b, st) ==
  IF b = <<>> THEN {Result("next", st)}
  ELSE UNION {IF r.out = "next" THEN Steps(Tail(b), r.st) ELSE {r} : r \in Does(Head(b), st)}

\* A block is a scope.
Scoped(alt, st) ==
  {[r EXCEPT !.st.env = st.env] :
     r \in Steps(alt.body, [st EXCEPT !.env = Bound(@, alt.name, Value(alt.site, st.ev))])}

Does(s, st) ==
  CASE s.op \in Binders  -> {Result("next", [st EXCEPT !.env = Bound(@, s.name, Value(s.site, st.ev))])}
    [] s.op \in Events   -> {Result("next", Emits(st, s.op, s.name))}
    [] s.op = "and"      -> {Result("next", Decided(st, FALSE)),
                             Result("next", Emits(Decided(st, TRUE), "await", s.name))}
    [] s.op \in Matches \cup {"tuple"} -> UNION {Scoped(s.alts[i], st) : i \in DOMAIN s.alts}
    [] s.op \in Loops    -> Rounds(s, st)
    [] s.op = "lambda"   -> {Result("next", st)} \cup Called(s.alts[1], st)
    [] s.op \in Exits    -> {Result(s.op, st)}
    [] s.op = "try"      -> {Result("next", st), Result("return", st)}
    [] s.op = "defer"    -> {Result("next", IF Contains(st.defers, s.site) THEN st
                                            ELSE [st EXCEPT !.defers = Append(@, s.site)])}
    [] s.op = "generic"  -> {Result("next", st)}

\* A lambda is made, and perhaps called: what it defers runs at its end.
Called(alt, st) ==
  {Result("next", [r.st EXCEPT !.ev = @ \o Deferred(r.st.defers), !.defers = st.defers]) :
     r \in Scoped(alt, [st EXCEPT !.defers = <<>>])}

\* The condition of a while, which may await, and then a round.
Rounds(s, st) ==
  LET c == IF s.op = "while" /\ s.name # NoName THEN Emits(st, "await", s.name) ELSE st
  IN  {Result("next", c)} \cup
      IF c.fuel = 0 THEN {}
      ELSE UNION {CASE r.out \in {"next", "continue"} -> Rounds(s, r.st)
                    [] r.out = "break"                -> {Result("next", r.st)}
                    [] OTHER                          -> {r} :
                    r \in Scoped(s.alts[1], [c EXCEPT !.fuel = @ - 1])}

Runs(b) == {r.st.ev \o Deferred(r.st.defers) :
              r \in Steps(b, [env |-> <<>>, ev |-> <<>>, defers |-> <<>>, fuel |-> MaxRounds])}

-----------------------------------------------------------------------------
(* The two passes of the frontend that make the names of a function        *)
(* distinct, since what is lowered knows one variable of a name in a       *)
(* function (tyra-frontend/src/lib.rs, rename_pattern_bindings and         *)
(* rename_let_shadows).  A new name is the old one with the site of its    *)
(* binder, where the code counts.  Neither pass looks into a tuple, and    *)
(* neither knows the names of a tuple pattern.                             *)

Fresh(name, site) == Append(name, site)

\* substitute_in_stmts: every reference in the text outside tuples, whatever
\* it refers to.
RECURSIVE Substituted(_, _, _)
Substituted(b, from, to) ==
  [i \in DOMAIN b |->
     IF b[i].op = "tuple" THEN b[i]
     ELSE Stmt(b[i].op, b[i].site,
               IF b[i].op \notin Binders /\ b[i].name = from THEN to ELSE b[i].name,
               [j \in DOMAIN b[i].alts |-> [b[i].alts[j] EXCEPT !.body = Substituted(@, from, to)]])]

\* process_arm, process_expr: the arms inside first.
RECURSIVE PatternsRenamed(_)
PatternsRenamed(b) ==
  [i \in DOMAIN b |->
     IF b[i].op = "tuple" THEN b[i]
     ELSE [b[i] EXCEPT !.alts = [j \in DOMAIN b[i].alts |->
        LET a == b[i].alts[j]  inner == PatternsRenamed(a.body)  new == Fresh(a.name, a.site)
        IN  IF b[i].op = "branch" /\ a.name # NoName
            THEN Alt(a.site, new, Substituted(inner, a.name, new))
            ELSE Alt(a.site, a.name, inner)]]]

-----------------------------------------------------------------------------
(* rename_let_shadows: `introduced` are the names seen so far in the       *)
(* function, `active` what a name stands for here.                         *)

Walked(out, introduced, active) == [out |-> out, introduced |-> introduced, active |-> active]
Current(active, name) == IF name \in DOMAIN active THEN active[name] ELSE name

\* The name under which a binder is kept.
Kept(name, site, introduced) == IF name \in introduced \ {NoName} THEN Fresh(name, site) ELSE name
Activated(active, name, new) == IF new = name THEN active ELSE (name :> new) @@ active

RECURSIVE WalkAlts(_, _, _, _)

WalkStmt(s, introduced, active) ==
  IF s.op \in Binders
  THEN LET new == Kept(s.name, s.site, introduced)
       IN  Walked([s EXCEPT !.name = new], introduced \cup {new}, Activated(active, s.name, new))
  ELSE IF s.op = "tuple" THEN Walked(s, introduced, active)
  ELSE LET alts == WalkAlts(s, 1, introduced, active)
       IN  Walked(Stmt(s.op, s.site, Current(active, s.name), alts.out), alts.introduced, active)

RECURSIVE WalkStmts(_, _, _)
WalkStmts(b, introduced, active) ==
  IF b = <<>> THEN Walked(<<>>, introduced, active)
  ELSE LET head == WalkStmt(Head(b), introduced, active)
           tail == WalkStmts(Tail(b), head.introduced, head.active)
       IN  Walked(<<head.out>> \o tail.out, tail.introduced, tail.active)

\* The variable of a loop is renamed like that of a let.  The parameter of a
\* lambda is not, and what its name stood for outside stays active inside.
WalkAlts_ForgetsLoops(s, i, introduced, active) ==
  IF i > Len(s.alts) THEN Walked(<<>>, introduced, active)
  ELSE LET a    == s.alts[i]
           body == WalkStmts(a.body, introduced \cup {a.name}, active)
           rest == WalkAlts(s, i + 1, IF s.op = "lambda" THEN introduced ELSE body.introduced, active)
       IN  Walked(<<Alt(a.site, a.name, body.out)>> \o rest.out, rest.introduced, active)
WalkAlts(s, i, introduced, active) ==
  IF i > Len(s.alts) THEN Walked(<<>>, introduced, active)
  ELSE LET a    == s.alts[i]
           new  == IF s.op \in {"for", "each"} THEN Kept(a.name, a.site, introduced) ELSE a.name
           body == WalkStmts(a.body, IF s.op = "untuple" THEN introduced ELSE introduced \cup {new},
                             Activated(active, a.name, new))
           rest == WalkAlts(s, i + 1, IF s.op = "lambda" THEN introduced ELSE body.introduced, active)
       IN  Walked(<<Alt(a.site, new, body.out)>> \o rest.out, rest.introduced, active)

LetsRenamed(b) == WalkStmts(b, {}, <<>>).out

Renamed(b) == LetsRenamed(PatternsRenamed(b))
==============================================================================
