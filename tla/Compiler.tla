------------------------------ MODULE Compiler ------------------------------
(***************************************************************************)
(* From a body to what it does: the names are made distinct, the affine    *)
(* pass accepts or rejects, the body is lowered, and the instructions run, *)
(* natively (tyra-codegen-llvm) or interpreted (tyra-interpreter).  What   *)
(* is run is compared with what the language says the body does.           *)
(***************************************************************************)
EXTENDS TaskAffine, Lowering

CONSTANTS Sources,  \* bodies, each with whether it is outside functions: [body, top]
          Engines   \* of "native", "interpreted"

VARIABLES source,   \* what is compiled
          engine,
          outcome,  \* "new", then "running", then how it ended
          report,   \* what the affine pass said
          program,  \* the functions, the last one first to run
          meant,    \* the events of the runs the language allows
          frames,   \* of calls, each [fn, at, env]
          ev,       \* the events so far
          fuel      \* bound: rounds of loops left

vars == <<source, engine, outcome, report, program, meant, frames, ev, fuel>>

Ended == {"rejected", "crashed", "undefined", "failed", "done"}

-----------------------------------------------------------------------------
(* What native code is emitted for.                                        *)

Valued   == Binders \cup {"field"}
Declares == Valued \cup {"slot"}

Before(f, i, ops) == {f.params.name} \cup {f.code[k].name : k \in {k \in 1..(i - 1) : f.code[k].op \in ops}}
FlagsAt(f, i)     == {f.code[k].name : k \in {k \in 1..(i - 1) : f.code[k].op = "flag" /\ ~f.code[k].arg}}

CaptureNames(x)  == {p.name : p \in x.arg.captures}
CapturedByName(x) == {p.name : p \in {p \in x.arg.captures : ~p.slot}}

\* is_i2_emittable: what an instruction reads is declared before it in the text.
IsDeclared(f, i) ==
  LET x == f.code[i]
  IN  CASE x.op \in {"read", "load", "store"} -> x.name \in Before(f, i, Declares)
        [] x.op \in {"each", "lambda"}        -> CaptureNames(x) \subseteq Before(f, i, Declares)
        [] x.op = "test"                      -> x.name \in FlagsAt(f, i)
        [] x.op = "flag"                      -> x.arg => x.name \in FlagsAt(f, i)
        [] OTHER                              -> TRUE
Emittable(f) == \A i \in DOMAIN f.code : IsDeclared(f, i)

\* After a jump, the text up to the next label is skipped.
Skipped(f, i) == \E k \in 1..(i - 1) : /\ f.code[k].op \in Terminators
                                       /\ \A m \in k..i : f.code[m].op # "label"

Target(f, l) == {k \in DOMAIN f.code : f.code[k] = Label(l)}

\* A name that only has a slot has no value; a label may be another function's.
Unbuildable(f, i) ==
  LET x == f.code[i]
  IN  CASE x.op = "read"                -> x.name \notin Before(f, i, Valued)
        [] x.op \in {"each", "lambda"}  -> ~(CapturedByName(x) \subseteq Before(f, i, Valued))
        [] x.op = "jump"                -> Target(f, x.arg) = {}
        [] OTHER                        -> FALSE
CodegenPanics(f) == Emittable(f) /\ \E i \in DOMAIN f.code : ~Skipped(f, i) /\ Unbuildable(f, i)

-----------------------------------------------------------------------------
Entered(fns, fn, env) ==
  /\ frames' = Append(frames, [fn |-> fn, at |-> 1, env |-> env])
  /\ outcome' = IF engine = "native" /\ ~Emittable(fns[fn]) THEN "undefined" ELSE "running"

Init ==
  /\ source \in Sources /\ engine \in Engines
  /\ outcome = "new" /\ report = Analyzed(<<>>) /\ program = <<>> /\ meant = {}
  /\ frames = <<>> /\ ev = <<>> /\ fuel = MaxRounds

\* check_unit, lower, emit_bodies.
Compile ==
  /\ outcome = "new"
  /\ meant' = Runs(source.body)
  /\ LET renamed == Renamed(source.body)
         said    == Analyzed(renamed)
         lowered == IF source.top THEN LowerTop(renamed) ELSE LowerFn(renamed)
     IN  /\ report' = said
         /\ program' = lowered.fns
         /\ IF said.errors # {} THEN outcome' = "rejected" /\ UNCHANGED frames
            ELSE IF lowered.panic \/ (engine = "native" /\ \E i \in DOMAIN lowered.fns : CodegenPanics(lowered.fns[i]))
            THEN outcome' = "crashed" /\ UNCHANGED frames
            ELSE Entered(lowered.fns, Len(lowered.fns), <<>>)
  /\ UNCHANGED <<source, engine, ev, fuel>>

-----------------------------------------------------------------------------
(* The machine.                                                            *)

Frame == Last(frames)
Fn    == program[Frame.fn]
Here  == Fn.code[Frame.at]

At(ops) == outcome = "running" /\ frames # <<>> /\ Here.op \in ops

\* The fields of an environment are in `env` from the start.
\* The top frame goes on, at `at` and with `env`.
Moves(at, env) ==
  /\ frames' = [frames EXCEPT ![Len(frames)] = [@ EXCEPT !.at = at, !.env = env]]
  /\ UNCHANGED <<source, engine, outcome, report, program, meant>>
Goes(l) == Moves(CHOOSE k \in Target(Fn, l) : TRUE, Frame.env)
GoesOn(env) == Moves(Frame.at + 1, env)

\* The interpreter stops where there is no such name, flag or label.
Fails == /\ outcome' = "failed"
         /\ UNCHANGED <<source, engine, report, program, meant, frames, ev, fuel>>

Unknown == \/ Here.op \in {"read", "load", "test"} /\ Here.name \notin DOMAIN Frame.env
           \/ Here.op \in {"each", "lambda"} /\ ~(CaptureNames(Here) \subseteq DOMAIN Frame.env)
           \/ Here.op = "jump" /\ Target(Fn, Here.arg) = {}
Unsupported == /\ engine = "interpreted"
               /\ \/ Here.op = "spawn"
                  \/ Here.op \in {"read", "load"} /\ Here.arg \in {"await", "select"}

Stuck == outcome = "running" /\ frames # <<>> /\ (Unknown \/ Unsupported) /\ Fails

Uses == /\ At({"read", "load"}) /\ ~Unknown /\ ~Unsupported
        /\ ev' = Append(ev, Event(Here.arg, Frame.env[Here.name]))
        /\ GoesOn(Frame.env) /\ UNCHANGED fuel

Sets == /\ At(Binders \cup {"store", "slot", "flag", "label", "result", "field"}) /\ ~Unsupported
        /\ GoesOn(CASE Here.op \in Binders \cup {"store"} -> Bound(Frame.env, Here.name, Value(Here.arg, ev))
                   [] Here.op = "slot"                -> Bound(Frame.env, Here.name, Value(0, <<>>))
                   [] Here.op = "flag"                -> Bound(Frame.env, Here.name, Here.arg)
                   [] OTHER                           -> Frame.env)
        /\ UNCHANGED <<ev, fuel>>

Decides == /\ At({"left"})
           /\ \E b \in BOOLEAN : ev' = Append(ev, Event("left", <<b, 0>>))
           /\ GoesOn(Frame.env) /\ UNCHANGED fuel

RunsDeferred == /\ At({"deferred"})
                /\ ev' = Append(ev, Event("defer", <<Here.arg, 0>>))
                /\ GoesOn(Frame.env) /\ UNCHANGED fuel

Jumps == /\ \/ At({"jump"}) /\ ~Unknown /\ Goes(Here.arg)
            \/ At({"test"}) /\ ~Unknown /\ Goes(Here.arg[IF Frame.env[Here.name] THEN 1 ELSE 2])
            \/ At({"choice"}) /\ \E i \in DOMAIN Here.arg : Goes(Here.arg[i])
         /\ UNCHANGED <<ev, fuel>>

LoopsAgain == /\ At({"round"})
          /\ \/ fuel > 0 /\ fuel' = fuel - 1 /\ Goes(Here.arg[1])
             \/ fuel' = fuel /\ Goes(Here.arg[2])
          /\ UNCHANGED ev

\* A callback is called once for an element, a lambda at most once here.
Calls == /\ At({"each", "lambda"}) /\ ~Unknown
         /\ \/ GoesOn(Frame.env) /\ UNCHANGED fuel
            \/ /\ Here.op = "each" => fuel > 0
               /\ fuel' = IF Here.op = "each" THEN fuel - 1 ELSE fuel
               /\ LET f   == Here.arg.fn
                      env == [n \in CaptureNames(Here) |-> Frame.env[n]]
                  IN  Entered(program, f, Bound(env, program[f].params.name, Value(program[f].params.site, ev)))
               /\ UNCHANGED <<source, engine, report, program, meant>>
         /\ UNCHANGED ev

Returns == /\ At({"return"})
           /\ IF Len(frames) = 1 THEN frames' = <<>> /\ outcome' = "done"
              ELSE LET caller == frames[Len(frames) - 1]
                       op == program[caller.fn].code[caller.at].op
                   IN  /\ frames' = Append(SubSeq(frames, 1, Len(frames) - 2),
                                           [caller EXCEPT !.at = IF op = "lambda" THEN @ + 1 ELSE @])
                       /\ outcome' = outcome
           /\ UNCHANGED <<source, engine, report, program, meant, ev, fuel>>

Ends == outcome \in Ended /\ UNCHANGED vars

Next == \/ Compile \/ Stuck \/ Uses \/ Sets \/ Decides \/ RunsDeferred \/ Jumps \/ LoopsAgain
        \/ Calls \/ Returns \/ Ends

Spec == Init /\ [][Next]_vars

-----------------------------------------------------------------------------
(* Where the compiler is known not to follow the language.                 *)

All(b)        == Range(Flat(b))
Under(b, ops) == UNION {UNION {All(s.alts[j].body) : j \in DOMAIN s.alts} : s \in {s \in All(b) : s.op \in ops}}
Arms(b)       == UNION {Range(s.alts) : s \in {s \in All(b) : s.op \in Matches}}
Holds(b, ops) == \E s \in All(b) : s.op \in ops

\* One flag for all rounds; none in a function inside or in a tuple.
OddDefer(s) == /\ Holds(s.body, {"defer"})
               /\ s.top \/ \E x \in Under(s.body, Loops \cup {"lambda", "tuple"}) : x.op = "defer"

\* A return there leaves the callback, and a break has no loop.
OddCallback(b) == \E x \in Under(b, {"each"}) : x.op \in Exits \cup {"try"}

\* The first call of a generic forgets the flags, the captures and the slots.
OddGeneric(b) == \/ \E i, j \in DOMAIN Flat(b) : /\ i < j /\ Flat(b)[i].op = "generic"
                                                 /\ Flat(b)[j].op \in {"defer", "lambda", "each"}
                 \/ \E a \in Arms(b) : a.name # NoName /\ Holds(a.body, {"generic"})

\* A lambda cannot take the name of a pattern with it.
OddCapture(b) == \E a \in Arms(b) : /\ a.name # NoName
                                    /\ \E x \in Under(a.body, {"lambda"}) : x.name = a.name

\* What is renamed inside an arm, or below a second let, may be another's name.
Introduces(s)  == IF s.op \in Binders THEN {s.name} ELSE {s.alts[j].name : j \in DOMAIN s.alts}
OddNames(b) ==
  \/ \E a \in Arms(b) : a.name # NoName /\ \E x \in All(a.body) : a.name \in Introduces(x)
  \/ \E x \in All(b) : /\ x.op = "lambda"
                        /\ \E i, j \in DOMAIN Flat(b) : /\ i < j
                                                         /\ {Flat(b)[i].op, Flat(b)[j].op} \cap {"branch", "lambda"} = {}
                                                         /\ x.alts[1].name \in Introduces(Flat(b)[i]) \cap Introduces(Flat(b)[j])

\* What is in a tuple keeps the name of a binder that was renamed: that of an
\* arm, or of the second of two.  The name of a tuple pattern is never renamed.
Introductions(b, n, k) ==
  {i \in 1..k : n \in Introduces(Flat(b)[i])}
OddTuple(b) ==
  \/ \E k \in DOMAIN Flat(b) :
       LET s == Flat(b)[k]
       IN  /\ s \in Under(b, {"tuple"})
           /\ \E n \in ({s.name} \cup Introduces(s)) \ {NoName} :
                \/ Cardinality(Introductions(b, n, k)) > 1
                \/ \E a \in Arms(b) : a.name = n /\ s \in All(a.body)
  \/ \E s \in All(b) : /\ s.op = "untuple"
                       /\ Cardinality(Introductions(b, s.alts[1].name, Len(Flat(b)))) > 1

Odd(s) == \/ OddDefer(s) \/ OddCallback(s.body) \/ OddGeneric(s.body) \/ OddTuple(s.body)
          \/ OddCapture(s.body) \/ OddNames(s.body) \/ Holds(s.body, {"and"})

\* The return that ends a round of an inner loop may come after a break.
OddReturn(b) == \E s \in Under(b, Loops) : /\ s.op \in Loops
                                            /\ Holds(s.alts[1].body, {"break"})
                                            /\ Holds(s.alts[1].body, {"return"})

-----------------------------------------------------------------------------
(* Properties.                                                             *)

\* Whatever passes of the compiler a body goes through, what it does when run
\* is what the language says: in which order, with which bindings and which
\* deferred expressions; and neither does the compiler stop on it nor a
\* function become `unreachable`.
RunsAsWritten ==
  \/ outcome \in {"new", "running", "rejected"}
  \/ outcome = "done" /\ ev \in meant
  \/ outcome = "failed" /\ engine = "interpreted" /\ Holds(source.body, {"spawn"})
  \/ Odd(source)

AwaitedTwice(e) ==
  \E i, j \in DOMAIN e : i < j /\ e[i][1] = "await" /\ e[j][1] \in {"await", "select"} /\ e[i][2] = e[j][2]

\* A body that the affine pass accepts, and in which no handle escaped it, never
\* awaits a handle twice, or selects one that was awaited.
AcceptedAwaitsOnce ==
  ~AwaitedTwice(ev) \/ report.let_go \/ OddReturn(source.body) \/ Odd(source)

\* What the pass reports is true: a handle it says is never awaited is not, on
\* any run (E0322), and where nothing leaves a block early a body is rejected
\* only if one of its runs awaits a handle twice (E0321).
ReportsAreTrue ==
  /\ (\A i \in DOMAIN ev : ev[i][1] = "await" => ev[i][2][1] \notin report.warned) \/ Odd(source)
  /\ outcome = "rejected" => \/ Holds(source.body, Exits \cup {"try"}) \/ OddNames(source.body)
                             \/ \E r \in meant : AwaitedTwice(r)
==============================================================================
