------------------------------- MODULE Names -------------------------------
(***************************************************************************)
(* What the names of a program mean, and what the compiler makes of them:  *)
(* the frontend's own imports and rewriting (tyra-frontend/src/lib.rs),    *)
(* the resolver (tyra-resolve), the calls of the type checker              *)
(* (tyra-types/src/checker.rs), their lowering (tyra-mir/src/lower) and    *)
(* the function the two engines run.                                       *)
(*                                                                         *)
(* A file is a sequence of items; what an item or a call is called by      *)
(* elsewhere is `at`, its place in the text, which no rewriting changes.   *)
(* A body is the sequence of what opens and closes its blocks, what binds  *)
(* a name and what uses one, in the order of the text.  Of the expressions *)
(* it has those that a pass leaves out where another goes on:              *)
(*   tuple    the elements of a tuple literal                              *)
(*   part     what is matched on, an element of a list or map, a piece of  *)
(*            a string, the head of a loop, what ? or .await follow        *)
(*   untuple  the arm of a tuple pattern, an `arm` being that of another   *)
(* Calls with explicit type arguments are left out.                        *)
(***************************************************************************)
EXTENDS Imports, Integers

NoBinds == [n \in {} |-> FALSE]           \* of a name: is it bound to a function

Item(k, at, name) ==
  [k |-> k, at |-> at, name |-> name, source |-> name, path |-> <<>>, alias |-> "", params |-> NoBinds,
   body |-> <<>>, export |-> FALSE, merged |-> FALSE, fails |-> FALSE, panics |-> FALSE, lines |-> "plain"]
Import(at, path, alias) == [Item("import", at, IF alias = "" THEN Last(path) ELSE alias) EXCEPT
                              !.path = path, !.alias = alias]
Fn(at, name, params, body) == [Item("fn", at, name) EXCEPT !.params = params, !.body = body]
Impl(at, type, method, params, body) == [Fn(at, type \o "__" \o method, params, body) EXCEPT
                                           !.k = "impl", !.source = method]

Event(e, at, name, mod, callable, binds) ==
  [e |-> e, at |-> at, name |-> name, mod |-> mod, callable |-> callable, binds |-> binds, mark |-> ""]
Open(at, e, binds)       == Event(e, at, "", "", FALSE, binds)     \* e in Opens
Close(at)                == Event("close", at, "", "", FALSE, NoBinds)
Let(at, name, callable)  == Event("let", at, name, "", callable, NoBinds)
Call(at, name)           == Event("call", at, name, "", FALSE, NoBinds)
Qualified(at, mod, name) == Event("qualified", at, name, mod, FALSE, NoBinds)
Return(at)               == Event("return", at, "", "", FALSE, NoBinds)
Marked(call, mark)       == [call EXCEPT !.mark = mark]            \* "?" or ".await"

Opens == {"block", "arm", "untuple", "lambda", "tuple", "part"}    \* block: a loop has variables
Uses  == {"call", "qualified"}
UsedName(ev) == IF ev.e = "call" THEN ev.name ELSE ev.mod

\* The elements of a sequence that are in a set, in their order.
Picked(s, S) ==
  LET P[i \in 0..Len(s)] ==
        IF i = 0 THEN <<>> ELSE IF s[i] \in S THEN Append(P[i - 1], s[i]) ELSE P[i - 1]
  IN  P[Len(s)]
OfKind(unit, kinds) == Picked(unit, {it \in Range(unit) : it.k \in kinds})

\* The statements of a file are one body, that of the main nobody wrote.
ImplicitBody(unit) == FlattenSeq([i \in DOMAIN OfKind(unit, {"stmt"}) |-> OfKind(unit, {"stmt"})[i].body])

PreludeFunctions == {"print", "eprintln", "panic", "__string_trim"}
Builtins         == PreludeFunctions \cup {"sys__exit"}            \* what the engines provide
AutoModules      == <<"string", "list", "io">>
StringHints      == {"trim", "is_empty"}

-----------------------------------------------------------------------------
(* Lexical scoping, the meaning: a name is the last binder of it in a      *)
(* block that is still open.                                               *)

Depth(b, i) == Cardinality({j \in 1..i : b[j].e \in Opens}) - Cardinality({j \in 1..i : b[j].e = "close"})
Binds(ev, name) == (ev.e = "let" /\ ev.name = name) \/ (ev.e \in Opens /\ name \in DOMAIN ev.binds)
StillOpen(b, j, i) == \A k \in j..i : Depth(b, k) >= Depth(b, j)
BindersOf(b, i, name) == {j \in 1..(i - 1) : Binds(b[j], name) /\ StillOpen(b, j, i)}
Latest(S) == CHOOSE j \in S : \A k \in S : k <= j
Around(b, i, e) == {j \in 1..(i - 1) : b[j].e = e /\ StillOpen(b, j, i)}
InTuple(b, i) == Around(b, i, "tuple") # {}

\* The lambda a place is in, 0 for none.
Level(b, i) == IF Around(b, i, "lambda") = {} THEN 0 ELSE Latest(Around(b, i, "lambda"))

\* An identity is the place of what a name stands for, and the name.
Nothing == <<0, "">>
Prelude(name) == <<0, name>>
AutoImport(m) == <<0 - 1, m>>

MeantGlobal(own, name) ==
  LET named == {i \in DOMAIN own : own[i].name = name /\ own[i].k \in {"fn", "type", "import"}}
  IN  IF named # {} THEN <<own[CHOOSE i \in named : TRUE].at, name>>
      ELSE IF name \in PreludeFunctions THEN Prelude(name)
      ELSE IF name \in Range(AutoModules) THEN AutoImport(name) ELSE Nothing

\* `item` is the function, or the statements as one.
Meant(own, item, i, name) ==
  LET local == BindersOf(item.body, i, name)
  IN  IF local # {} THEN <<item.body[Latest(local)].at, name>>
      ELSE IF name \in DOMAIN item.params THEN <<item.at, name>>
      ELSE MeantGlobal(own, name)

IsCallable(item, i, name) ==
  LET local == BindersOf(item.body, i, name)
  IN  IF local # {} THEN LET ev == item.body[Latest(local)]
                         IN  IF ev.e = "let" THEN ev.callable ELSE ev.binds[name]
      ELSE name \notin DOMAIN item.params \/ item.params[name]

-----------------------------------------------------------------------------
(* The frontend before the resolver.                                       *)

\* auto_import_stdlib: an import the program forgot.  It runs before the tests
\* are functions and looks into neither them nor tuples.
Needs(unit, m) ==
  \E i \in DOMAIN unit : unit[i].k \in {"fn", "stmt", "impl"} /\ \E j \in DOMAIN unit[i].body :
     LET ev == unit[i].body[j]
     IN  /\ ev.e = "qualified" /\ (ev.mod = m \/ (m = "string" /\ ev.name \in StringHints))
         /\ ~InTuple(unit[i].body, j)
Already(unit) == {unit[i].name : i \in {i \in DOMAIN unit : unit[i].k = "import" /\ Len(unit[i].path) = 1}}
AutoImports(unit) == Picked(AutoModules, {m \in Range(AutoModules) : Needs(unit, m)} \ Already(unit))
WithAutoImports(unit) ==
  [i \in DOMAIN AutoImports(unit) |-> Import(0 - 1, <<AutoImports(unit)[i]>>, "")] \o unit

\* desugar_test_blocks: a test is a function.
Sanitized(name) == IF name = "it works" THEN "it_works" ELSE name
TestFn(it) ==
  [it EXCEPT !.k = "fn", !.name = (IF it.panics THEN "test_panics__" ELSE "test__") \o Sanitized(it.name)]
TestsDesugared(unit) == [i \in DOMAIN unit |-> IF unit[i].k = "test" THEN TestFn(unit[i]) ELSE unit[i]]

\* The two renaming passes.  A name that is new takes after the place of its
\* binder.  What is in a tuple keeps the names it has.
Fresh(name, mark, at) == name \o mark \o ToString(at)

NamesOf(ev) == {ev.name, ev.mod} \cup DOMAIN ev.binds
WithNames(ev, new) ==
  [ev EXCEPT !.name  = IF ev.e \in {"call", "let"} THEN new[@] ELSE @,
             !.mod   = IF ev.e = "qualified" THEN new[@] ELSE @,
             !.binds = [m \in {new[n] : n \in DOMAIN @} |-> \E n \in DOMAIN @ : new[n] = m /\ @[n]]]

\* rename_pattern_bindings: the names of a pattern are new, in the whole arm.
PatternName(b, i, name) ==
  LET arms == {j \in BindersOf(b, i, name) : b[j].e = "arm"}
  IN  IF InTuple(b, i) THEN name
      ELSE IF b[i].e = "arm" THEN Fresh(name, "__p", b[i].at)
      ELSE IF b[i].e \in Uses /\ arms # {} THEN Fresh(name, "__p", b[Latest(arms)].at)
      ELSE name
PatternsRenamed(unit) ==
  [i \in DOMAIN unit |-> [unit[i] EXCEPT !.body =
     [j \in DOMAIN @ |-> WithNames(@[j], [n \in NamesOf(@[j]) |-> PatternName(unit[i].body, j, n)])]]]

\* rename_let_shadows: a let or a loop variable is new if the function has had
\* the name before.  A lambda forgets its own when it ends; its parameters are
\* not seen where a name is used.
Introduced(b, params, j, name) ==
  \/ name \in DOMAIN params
  \/ \E k \in 1..(j - 1) : /\ Binds(b[k], name) /\ ~InTuple(b, k)
                           /\ CASE b[k].e = "lambda"            -> StillOpen(b, k, j)
                                [] b[k].e \in {"arm", "untuple"} -> FALSE
                                [] OTHER -> Level(b, k) = 0 \/ StillOpen(b, Level(b, k), j)
LetName(b, params, j, name) == IF Introduced(b, params, j, name) THEN Fresh(name, "__l", b[j].at) ELSE name
ShadowName_AfterBlocks(b, params, i, name) ==
  LET lets == {j \in 1..(i - 1) : Binds(b[j], name) /\ b[j].e \in {"let", "block"}}
  IN  IF InTuple(b, i) THEN name
      ELSE IF b[i].e \in {"let", "block"} THEN LetName(b, params, i, name)
      ELSE IF b[i].e \in Uses /\ lets # {} THEN LetName(b, params, Latest(lets), name)
      ELSE name
ShadowName(b, params, i, name) ==
  LET lets == {j \in BindersOf(b, i, name) : b[j].e \in {"let", "block"}}
  IN  IF InTuple(b, i) THEN name
      ELSE IF b[i].e \in {"let", "block"} THEN LetName(b, params, i, name)
      ELSE IF b[i].e \in Uses /\ lets # {} THEN LetName(b, params, Latest(lets), name)
      ELSE name

\* The statements of a file are one function.
TextAround(unit, i) == IF unit[i].k = "stmt" THEN ImplicitBody(unit) ELSE unit[i].body
TextBefore(unit, i) == IF unit[i].k = "stmt" THEN Len(ImplicitBody(SubSeq(unit, 1, i - 1))) ELSE 0
ShadowsRenamed(unit) ==
  [i \in DOMAIN unit |-> [unit[i] EXCEPT !.body =
     [j \in DOMAIN @ |-> WithNames(@[j], [n \in NamesOf(@[j]) |->
        ShadowName(TextAround(unit, i), unit[i].params, TextBefore(unit, i) + j, n)])]]]

\* What an import adds to the unit: exported functions under the name the
\* importer gave the module, exported types and every impl as they are.
Merged(file, local) ==
  LET kept == Picked(file.items, {it \in Range(file.items) : \/ it.k = "impl"
                                                             \/ it.k \in {"fn", "type"} /\ it.export})
  IN  [i \in DOMAIN kept |->
         [kept[i] EXCEPT !.merged = TRUE, !.name = IF kept[i].k = "fn" THEN local \o "__" \o @ ELSE @]]

-----------------------------------------------------------------------------
(* The resolver.  A scope is a function from names to identities, a stack  *)
(* of them the scopes that are open, the global one at the bottom.         *)

Define(stack, name, id) == [stack EXCEPT ![Len(stack)] = (name :> id) @@ @]
Lookup(stack, name) ==
  LET known == {d \in DOMAIN stack : name \in DOMAIN stack[d]}
  IN  IF known = {} THEN Nothing ELSE stack[Latest(known)][name]
WithPrelude == <<[n \in PreludeFunctions |-> Prelude(n)]>>

\* collect_top_level and define_or_report: a name of the prelude may be taken
\* once, any other only if it is free.
Declares(it) == it.k \in {"fn", "type", "import"}
Declared(before, it) ==
  LET had  == Lookup(before.scope, it.name)
      free == had = Nothing \/ had = Prelude(it.name)
  IN  [scope  |-> IF Declares(it) /\ free THEN Define(before.scope, it.name, <<it.at, it.source>>)
                  ELSE before.scope,
       errors |-> before.errors \cup (IF Declares(it) /\ ~free THEN {<<"E0201", it.at>>} ELSE {})]
TopLevel(unit) ==
  LET G[i \in 0..Len(unit)] ==
        IF i = 0 THEN [scope |-> WithPrelude, errors |-> {}] ELSE Declared(G[i - 1], unit[i])
  IN  G[Len(unit)]

\* validate_top_level_restrictions: what stands in a block, a tuple or another
\* part of an expression is not looked at.
Restricted_InLambdas(unit) ==
  UNION {LET b == unit[i].body IN {<<"E0210", b[j].at>> : j \in {j \in DOMAIN b : b[j].e = "return"}} :
           i \in {i \in DOMAIN unit : unit[i].k = "stmt"}}
Restricted(unit) ==
  {<<"E0213", unit[i].at>> : i \in {i \in DOMAIN unit :
      unit[i].k = "fn" /\ unit[i].name = "main" /\ OfKind(unit, {"stmt"}) # <<>>}}
  \cup UNION {LET b == unit[i].body IN
      {<<IF b[j].e = "return" THEN "E0210" ELSE IF b[j].mark = "?" THEN "E0211" ELSE "E0212", b[j].at>> :
         j \in {j \in DOMAIN b : Depth(b, j) = 0 /\ (b[j].e = "return" \/ b[j].mark # "")}} :
      i \in {i \in DOMAIN unit : unit[i].k = "stmt"}}

\* resolve_stmt and resolve_expr: the stack after each event of a body.
ScopeAfter_BlocksLeak(stack, ev) ==
  CASE ev.e \in Opens  -> Append(stack, [n \in DOMAIN ev.binds |-> <<ev.at, n>>])
    [] ev.e = "close"  -> Append(SubSeq(stack, 1, Len(stack) - 2), stack[Len(stack)] @@ stack[Len(stack) - 1])
    [] ev.e = "let"    -> Define(stack, ev.name, <<ev.at, ev.name>>)
    [] OTHER           -> stack
ScopeAfter(stack, ev) ==
  CASE ev.e \in Opens  -> Append(stack, [n \in DOMAIN ev.binds |-> <<ev.at, n>>])
    [] ev.e = "close"  -> Front(stack)
    [] ev.e = "let"    -> Define(stack, ev.name, <<ev.at, ev.name>>)
    [] OTHER           -> stack
Scopes(b, stack) ==
  LET S[i \in 0..Len(b)] == IF i = 0 THEN stack ELSE ScopeAfter(S[i - 1], b[i]) IN S

\* What a body refers to: of each use its identity, Nothing if it has none.
Referred(b, stack) ==
  LET S == Scopes(b, stack)
  IN  {<<b[i].at, Lookup(S[i - 1], UsedName(b[i]))>> : i \in {i \in DOMAIN b : b[i].e \in Uses}}

\* resolve: the statements of the file define in the global scope, for the
\* functions below them too.
Visited(before, it) ==
  LET given == DOMAIN it.params \cup (IF it.k = "impl" THEN {"self"} ELSE {})
      inner == IF it.k = "stmt" THEN before.scope ELSE Append(before.scope, [n \in given |-> <<it.at, n>>])
  IN  [scope |-> IF it.k = "stmt" THEN Scopes(it.body, inner)[Len(it.body)] ELSE before.scope,
       refs  |-> before.refs \cup (IF it.k \in {"fn", "impl", "stmt"} THEN Referred(it.body, inner) ELSE {})]
References(unit) ==
  LET R[i \in 0..Len(unit)] ==
        IF i = 0 THEN [scope |-> TopLevel(unit).scope, refs |-> {}] ELSE Visited(R[i - 1], unit[i])
  IN  R[Len(unit)].refs
Resolved(unit) ==
  LET refs == References(unit)
  IN  [index  |-> {r \in refs : r[2][1] # 0},
       errors |-> TopLevel(unit).errors \cup Restricted(unit)
                   \cup {<<"E0200", r[1]>> : r \in {r \in refs : r[2] = Nothing}}]

\* collect_symbols: the names an editor is offered, as they are by now.
BoundBy(ev) == DOMAIN ev.binds \cup (IF ev.e = "let" THEN {ev.name} ELSE {})
SymbolsOf(it) ==
  (IF it.k = "stmt" THEN {} ELSE {IF it.k = "impl" THEN it.source ELSE it.name})
    \cup DOMAIN it.params \cup UNION {BoundBy(it.body[j]) : j \in DOMAIN it.body}
Symbols(unit) == UNION {SymbolsOf(unit[i]) : i \in DOMAIN unit}

-----------------------------------------------------------------------------
(* From a resolved program to the functions its calls run: the calls       *)
(* through a module in the type checker, the main that may fail, the calls *)
(* in MIR, and the function of a name in the two engines.                  *)

\* What is lowered to a function, in that order.
Implicit(unit) ==
  IF OfKind(unit, {"stmt"}) = <<>> THEN <<>>
  ELSE <<Fn(0 - 2, "main", NoBinds, ImplicitBody(unit))>>
Owners(unit) == OfKind(unit, {"fn"}) \o OfKind(unit, {"impl"}) \o Implicit(unit)

KnownFn(unit, name) == \E i \in DOMAIN unit : unit[i].k = "fn" /\ unit[i].name = name
ImportsNamed(unit, mod) == {i \in DOMAIN unit : unit[i].k = "import" /\ unit[i].name = mod}
IsLocal(item, i, name) == BindersOf(item.body, i, name) # {} \/ name \in DOMAIN item.params

-----------------------------------------------------------------------------
(* The type checker.  What the compiler itself provides is known by the    *)
(* last word of a path, and only while no file has given the module a      *)
(* function.  A module without functions is not looked into.               *)

Provided(canonical) ==
  CASE canonical = "sys"   -> {"args", "env", "exit"}
    [] canonical = "tasks" -> {"join_all", "select"}
    [] OTHER               -> {}

HasMerged(unit, mod) ==
  \E i \in DOMAIN unit : unit[i].k = "fn" /\ unit[i].merged /\ unit[i].name = mod \o "__" \o unit[i].source

UnknownOf(unit, mod, name) ==
  LET canonical == Last(unit[Latest(ImportsNamed(unit, mod))].path)
  IN  /\ ~KnownFn(unit, mod \o "__" \o name)
      /\ HasMerged(unit, mod) \/ (canonical \in {"sys", "tasks"} /\ name \notin Provided(canonical))

Checked(unit) ==
  UNION {{<<"E0318", it.body[j].at>> : j \in {j \in DOMAIN it.body :
            /\ it.body[j].e = "qualified" /\ ImportsNamed(unit, it.body[j].mod) # {}
            /\ ~IsLocal(it, j, it.body[j].mod)
            /\ UnknownOf(unit, it.body[j].mod, it.body[j].name)}} : it \in Range(Owners(unit))}

-----------------------------------------------------------------------------
(* desugar_err_main and rename_free_fn_refs: a main that may fail is       *)
(* called by one that reports it.  What calls main calls the one written.  *)

Inner == "__tyra_main_inner"
ErrWrapper ==
  Fn(0 - 3, "main", NoBinds,
     <<Call(0 - 4, Inner), Open(0 - 5, "arm", [n \in {"__tyra_err"} |-> FALSE]),
       Call(0 - 6, "eprintln"), Call(0 - 7, "sys__exit"), Close(0 - 8)>>)

CallsMain_Always(item, i) == item.body[i].e = "call" /\ item.body[i].name = "main"
CallsMain(item, i) ==
  /\ item.body[i].e = "call" /\ item.body[i].name = "main"
  /\ ~IsLocal(item, i, "main")

ErrMain(unit) ==
  LET mains == {i \in DOMAIN unit : unit[i].k = "fn" /\ unit[i].name = "main"}
      first == CHOOSE i \in mains : \A j \in mains : i <= j
  IN  IF mains = {} THEN unit
      ELSE IF ~unit[first].fails THEN unit
      ELSE Append([i \in DOMAIN unit |->
                     [unit[i] EXCEPT
                        !.name = IF i = first THEN Inner ELSE @,
                        !.body = [j \in DOMAIN @ |-> IF CallsMain(unit[i], j)
                                                     THEN [@[j] EXCEPT !.name = Inner] ELSE @[j]]]],
                  ErrWrapper)

-----------------------------------------------------------------------------
(* MIR.  closure_vars: the variables a call of which is a call of what     *)
(* they hold.  The end of a block removes none of them, a pattern adds     *)
(* none, a lambda starts with none, its parameters and what it captures    *)
(* included.                                                               *)

OwnClosures(item, i) ==
  LET b == item.body
      lets == {j \in 1..(i - 1) : b[j].e = "let" /\ b[j].callable /\ Level(b, j) = Level(b, i)}
  IN  {b[j].name : j \in lets} \cup {p \in DOMAIN item.params : Level(b, i) = 0 /\ item.params[p]}

\* lower_fn clears them.  The main nobody wrote starts with what the function
\* before it left.
Stale(owners, o) ==
  IF owners[o].at # 0 - 2 \/ o = 1 THEN {}
  ELSE OwnClosures(owners[o - 1], Len(owners[o - 1].body) + 1)

\* The variable a call reads: that of the last assignment.
HeldBy(item, i, name) ==
  LET lets == {j \in 1..(i - 1) : item.body[j].e = "let" /\ item.body[j].name = name}
  IN  IF lets # {} THEN <<item.body[Latest(lets)].at, name>>
      ELSE IF name \in DOMAIN item.params THEN <<item.at, name>> ELSE Nothing

\* The functions a call through a module may name.
Intrinsics(unit) ==
  {"sys__exit"} \cup (IF \E i \in DOMAIN unit : unit[i].k = "import" /\ unit[i].path = <<"core", "sys">>
                      THEN {"sys__args"} ELSE {})
Nameable(unit) == {it.name : it \in Range(OfKind(unit, {"fn", "impl"}))} \cup Intrinsics(unit)

Direct(name)   == <<"direct", name>>
Held(variable) == <<"held", variable>>
Method         == <<"method">>
Refused        == <<"refused">>           \* the compiler gives up

\* The rule of a call that takes a name: the one of eprintln goes first.
Awaits == {"join_all", "select"}
LoweredCall(item, i, stale) ==
  LET name == item.body[i].name
  IN  IF name # "eprintln" /\ (name \in OwnClosures(item, i) \/ (name \in stale /\ Level(item.body, i) = 0))
      THEN Held(HeldBy(item, i, name)) ELSE Direct(name)
LoweredQualified(unit, ev) ==
  LET name == ev.mod \o "__" \o ev.name
  IN  IF ImportsNamed(unit, ev.mod) = {} THEN Method
      ELSE IF ev.name \in Awaits THEN Direct(ev.name)
      ELSE IF name \in Nameable(unit) THEN Direct(name) ELSE Refused

Lowered(unit) ==
  LET owners == Owners(unit)
  IN  [o \in DOMAIN owners |->
         LET it == owners[o]
             uses == {i \in DOMAIN it.body : it.body[i].e \in Uses}
         IN  [name |-> it.name, id |-> <<it.at, it.source>>,
              calls |-> {<<it.body[i].at, IF it.body[i].e = "call" THEN LoweredCall(it, i, Stale(owners, o))
                                          ELSE LoweredQualified(unit, it.body[i])>> : i \in uses}]]
GivesUp(program) == \E o \in DOMAIN program : \E c \in program[o].calls : c[2] = Refused

-----------------------------------------------------------------------------
(* The function an engine calls: of two with a name the compiled program   *)
(* has the last, the interpreter finds the first, after its own builtins.  *)
(* It has no tasks.                                                        *)

Engines == {"native", "interpreter"}
Provides(engine) == Builtins \cup {"sys__args"} \cup (IF engine = "native" THEN Awaits ELSE {})
Ran(program, engine, target) ==
  LET named == {o \in DOMAIN program : program[o].name = target[2]}
      builtin == target[2] \in Provides(engine)
      pick  == IF engine = "native" THEN Latest(named) ELSE CHOOSE o \in named : \A q \in named : o <= q
  IN  IF target[1] # "direct" THEN target[2]
      ELSE IF builtin /\ (engine = "interpreter" \/ named = {}) THEN Prelude(target[2])
      ELSE IF named = {} THEN Nothing
      ELSE program[pick].id

\* Where a run begins.
Entry(program, engine) == Ran(program, engine, Direct("main"))
=============================================================================
