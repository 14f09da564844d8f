------------------------------ MODULE Lowering ------------------------------
(***************************************************************************)
(* A body is lowered to instructions (tyra-mir/src/lower): lambdas and the *)
(* bodies of `for` over a map or a set become functions of their own, and  *)
(* what is deferred is copied before every return, under a flag that says  *)
(* whether the defer was reached.                                          *)
(*                                                                         *)
(* The lowering context `c` is one mutable struct: what a nested function  *)
(* does not put back is seen by what is lowered after it.                  *)
(***************************************************************************)
EXTENDS Bodies

I(op, name, arg) == [op |-> op, name |-> name, arg |-> arg]

Label(l)          == I("label", NoName, l)
Jump(l)           == I("jump", NoName, l)
Choice(ls)        == I("choice", NoName, ls)     \* BranchIf, on any condition
Round(body, end)  == I("round", NoName, <<body, end>>)
Copy(op, n, site) == I(op, n, site)              \* a new value, perhaps of spawn
Slot(n)           == I("slot", n, 0)             \* Alloca
Store(n, site)    == I("store", n, site)
Read(kind, n)     == I("read", n, kind)          \* the value of a name
Load(kind, n)     == I("load", n, kind)          \* what its slot holds
Flag(i, on)       == I("flag", <<"defer", i>>, on)
Test(i, run, skip) == I("test", <<"defer", i>>, <<run, skip>>)
RunDeferred(site) == I("deferred", NoName, site)
Field(n)          == I("field", n, 0)            \* a capture read from the environment
Closure(kind, fn, captures) == I(kind, NoName, [fn |-> fn, captures |-> captures])
Return            == I("return", NoName, 0)
Decide            == I("left", NoName, 0)        \* the left side of an `and`
Outcome           == I("result", NoName, 0)      \* the value of an if, a loop or a ?

Terminators == {"jump", "choice", "round", "test", "return"}

-----------------------------------------------------------------------------
(* The context.                                                            *)

Fresh0 == [code |-> <<>>, fns |-> <<>>, labels |-> 0, panic |-> FALSE,
           defers |-> <<>>, next |-> 0, count |-> 0,
           exits |-> <<>>, heads |-> <<>>,
           bound |-> {}, slots |-> {}, instantiated |-> FALSE]

Emit(c, is)      == [c EXCEPT !.code = @ \o is]
NewLabels(c, n)  == [c EXCEPT !.labels = @ + n]
Binds(c, n)      == [c EXCEPT !.bound = @ \cup {n}]

\* A name that has a slot is stored to, any other is a new value.
Assigned(c, op, n, site) ==
  Emit(Binds(c, n), IF n \in c.slots THEN <<Copy(op, NoName, site), Store(n, site)>> ELSE <<Copy(op, n, site)>>)

Reads(c, kind, n) == IF n \in c.slots THEN Load(kind, n) ELSE Read(kind, n)

\* The flags of a function: a defer below a branch or a loop has one too, one
\* in a tuple has none.
RECURSIVE CountDefers(_)
CountDefers(b) ==
  FoldSeq(+, 0, [i \in DOMAIN b |->
     IF b[i].op = "defer" THEN 1
     ELSE IF b[i].op \in {"lambda", "tuple"} THEN 0
     ELSE FoldSeq(+, 0, [j \in DOMAIN b[i].alts |-> CountDefers(b[i].alts[j].body)])])

\* The pattern names of a function, which get a slot at its start.
RECURSIVE PatternNames(_)
PatternNames(b) ==
  UNION {UNION {(IF b[i].op \in Matches THEN {b[i].alts[j].name} \ {NoName} ELSE {})
                \cup PatternNames(b[i].alts[j].body) : j \in DOMAIN b[i].alts}
         : i \in {i \in DOMAIN b : b[i].op \notin {"lambda", "tuple"}}}

\* collect_free_in_stmts: the names of the enclosing function that are read.
RECURSIVE Free(_, _, _)
Free(b, enclosing, bound) ==
  IF b = <<>> THEN {}
  ELSE LET s == Head(b)
       IN  IF s.op \in Binders THEN Free(Tail(b), enclosing, bound \cup {s.name})
           ELSE (({s.name} \cap enclosing) \ bound)
                \cup UNION {Free(s.alts[j].body, enclosing, bound \cup {s.alts[j].name}) : j \in DOMAIN s.alts}
                \cup Free(Tail(b), enclosing, bound)

-----------------------------------------------------------------------------
(* What is deferred.                                                       *)

RECURSIVE EmitEach(_, _)
EmitEach(c, defers) ==
  IF defers = <<>> THEN c
  ELSE LET d == Head(defers)  run == c.labels + 1  skip == c.labels + 2
       IN  EmitEach(Emit(NewLabels(c, 2), <<Test(d[1], run, skip), Label(run),
                                            RunDeferred(d[2]), Jump(skip), Label(skip)>>),
                    Tail(defers))

\* emit_deferred: the defers lowered so far, the last first.
EmitDeferred_Fifo(c) == EmitEach(c, c.defers)
EmitDeferred(c)      == EmitEach(c, Reverse(c.defers))

LowerDefer(c, site) ==
  IF c.next >= c.count THEN [c EXCEPT !.panic = TRUE]
  ELSE [Emit(c, <<Flag(c.next, TRUE)>>) EXCEPT !.next = @ + 1,
                                               !.defers = Append(@, <<c.next, site>>)]

ReturnWith(c) == Emit(EmitDeferred(c), <<Return>>)

-----------------------------------------------------------------------------
(* The statements.                                                         *)

RECURSIVE LowerStmts(_, _)

Terminates(c, start) ==
  LET at == {i \in (start + 1)..Len(c.code) : c.code[i].op \notin {"slot", "label"}}
  IN  at # {} /\ c.code[Max(at)].op \in Terminators

\* An if or a match: each block ends where they meet, unless it left.
RECURSIVE LowerArms(_, _, _, _)
LowerArms(c, alts, j, base) ==
  IF j > Len(alts) THEN c
  ELSE LET a     == alts[j]
           entry == Emit(c, <<Label(base + j)>> \o (IF a.name = NoName THEN <<>>
                                                    ELSE <<Store(a.name, a.site)>>))
           out   == LowerStmts(entry, a.body)
       IN  LowerArms(IF Terminates(out, Len(entry.code)) THEN out ELSE Emit(out, <<Jump(base)>>),
                     alts, j + 1, base)

\* pre_alloca_pattern_vars, which knows no tuple pattern.
Slotted(c, names) ==
  LET new == names \ c.slots
  IN  [Emit(c, [i \in DOMAIN SetToSeq(new) |-> Slot(SetToSeq(new)[i])])
         EXCEPT !.slots = @ \cup new, !.bound = @ \cup new]

LowerBranch(c, s) ==
  LET base  == c.labels + 1
      names == IF s.op = "untuple" THEN {} ELSE {s.alts[j].name : j \in DOMAIN s.alts} \ {NoName}
      start == Emit(NewLabels(Slotted(c, names), Len(s.alts) + 1),
                    <<Choice([j \in DOMAIN s.alts |-> base + j])>>)
  IN  Emit(LowerArms(start, s.alts, 1, base), <<Label(base), Outcome>>)

InLoop(c, b, exit, head) ==
  LET out == LowerStmts([c EXCEPT !.exits = Append(@, exit), !.heads = Append(@, head)], b)
  IN  [out EXCEPT !.exits = c.exits, !.heads = c.heads]

LowerWhile(c, s) ==
  LET head == c.labels + 1  body == head + 1  end == head + 2
      start == Emit(NewLabels(c, 3),
                    <<Jump(head), Label(head)>>
                    \o (IF s.name = NoName THEN <<>> ELSE <<Reads(c, "await", s.name)>>)
                    \o <<Round(body, end), Label(body)>>)
  IN  Emit(InLoop(start, s.alts[1].body, end, head), <<Jump(head), Label(end), Outcome>>)

\* `for` over a list: continue goes to the increment.
LowerFor(c, s) ==
  LET head == c.labels + 1  body == head + 1  end == head + 2  again == head + 3
      a == s.alts[1]
      start == Emit(NewLabels(c, 4), <<Jump(head), Label(head), Round(body, end), Label(body)>>)
      bound == IF a.name = NoName THEN start ELSE Assigned(start, "let", a.name, a.site)
  IN  Emit(InLoop(bound, a.body, end, again), <<Jump(again), Label(again), Jump(head), Label(end), Outcome>>)

-----------------------------------------------------------------------------
(* The functions inside.                                                   *)

Function(c, params, code) == [c EXCEPT !.fns = Append(@, [params |-> params, code |-> code])]

\* What is put back when the inner function is done.
Restored(c, inner) ==
  [inner EXCEPT !.code = c.code, !.bound = c.bound, !.slots = c.slots,
                !.defers = c.defers, !.next = c.next, !.count = c.count]

Fields(names) == [i \in DOMAIN SetToSeq(names) |-> Field(SetToSeq(names)[i])]

\* Only the callback of a loop reads a slot before it is captured.
Capture(c, kind, names) ==
  {[name |-> n, slot |-> kind = "each" /\ n \in c.slots] : n \in names}

\* lower_lifted_lambda, lower_for_each_callback: a callback ends without
\* what it deferred.
LowerInner(c, s) ==
  LET a     == s.alts[1]
      own   == {a.name} \ {NoName}
      taken == Free(a.body, c.bound, own)
      start == [c EXCEPT !.code = Fields(taken), !.bound = taken \cup own, !.slots = {}, !.defers = <<>>]
      inner == LowerStmts(start, a.body)
      done  == IF inner.code # <<>> /\ Last(inner.code).op = "return" /\ s.op = "lambda" THEN inner
               ELSE IF s.op = "lambda" THEN ReturnWith(inner)
               ELSE Emit(inner, <<Return>>)
      all   == Function(done, [name |-> a.name, site |-> a.site], done.code)
  IN  Emit(Restored(c, all), <<Closure(s.op, Len(all.fns), Capture(c, s.op, taken))>>)

\* monomorphize: the first call of a generic function lowers it, and what
\* that clears of the caller does not all come back.
LowerGeneric(c) ==
  IF c.instantiated THEN c
  ELSE [c EXCEPT !.instantiated = TRUE, !.bound = {}, !.slots = {}, !.next = 0, !.count = 0]

LowerTry(c) ==
  LET ok == c.labels + 1  fail == c.labels + 2
  IN  Emit(ReturnWith(Emit(NewLabels(c, 2), <<Choice(<<ok, fail>>), Label(fail)>>)), <<Label(ok), Outcome>>)

LowerJump(c, targets) ==
  IF targets = <<>> THEN [c EXCEPT !.panic = TRUE] ELSE Emit(c, <<Jump(Last(targets))>>)

\* Both sides of `and` are evaluated.
LowerStmt(c, s) ==
  CASE s.op \in Binders           -> Assigned(c, s.op, s.name, s.site)
    [] s.op \in Events            -> Emit(c, <<Reads(c, s.op, s.name)>>)
    [] s.op = "and"               -> Emit(c, <<Decide, Reads(c, "await", s.name)>>)
    [] s.op \in Matches           -> LowerBranch(c, s)
    [] s.op = "tuple"             -> LowerStmts(c, s.alts[1].body)
    [] s.op = "while"             -> LowerWhile(c, s)
    [] s.op = "for"               -> LowerFor(c, s)
    [] s.op \in {"each", "lambda"} -> LowerInner(c, s)
    [] s.op = "return"            -> ReturnWith(c)
    [] s.op = "break"             -> LowerJump(c, c.exits)
    [] s.op = "continue"          -> LowerJump(c, c.heads)
    [] s.op = "try"               -> LowerTry(c)
    [] s.op = "defer"             -> LowerDefer(c, s.site)
    [] s.op = "generic"           -> LowerGeneric(c)

LowerStmts(c, b) == IF b = <<>> \/ c.panic THEN c ELSE LowerStmts(LowerStmt(c, Head(b)), Tail(b))

-----------------------------------------------------------------------------
(* A function, and the statements outside functions, which count no defer. *)

LowerFn(b) ==
  LET n     == CountDefers(b)
      start == [Emit(Slotted(Fresh0, PatternNames(b)), [i \in 1..n |-> Flag(i - 1, FALSE)])
                  EXCEPT !.count = n]
      out   == LowerStmts(start, b)
      done  == IF out.code # <<>> /\ Last(out.code).op = "return" THEN out ELSE ReturnWith(out)
  IN  Function(done, [name |-> NoName, site |-> 0], done.code)

LowerTop(b) ==
  LET out  == LowerStmts(Slotted(Fresh0, PatternNames(b)), b)
      done == ReturnWith(out)
  IN  Function(done, [name |-> NoName, site |-> 0], done.code)
==============================================================================
