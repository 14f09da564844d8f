----------------------------- MODULE MethodCalls -----------------------------
(***************************************************************************)
(* Programs that call methods and functions of modules on values of every  *)
(* kind: what the type checker accepts, and what the lowering, which has   *)
(* no types, makes of it.                                                  *)
(*                                                                         *)
(* A program is one function,                                              *)
(*                                                                         *)
(*     fn f(x: param) -> ret                                               *)
(*       let y: hint = expr                                                *)
(*       expr                                                              *)
(*     end                                                                 *)
(*                                                                         *)
(* with or without the let.  An action writes one more call around the     *)
(* expression; only programs that the checker accepts are continued.       *)
(***************************************************************************)
EXTENDS MethodLower, TLC

CONSTANTS Headers,   \* the heads of the functions: [param, ret, impls, imports],
                     \* the annotations of the let, and what the bodies start with
          Methods,   \* the names of the methods that are called
          MaxCalls   \* how many calls a body has

VARIABLES header, vars, hint, place, expr, calls
cvars == <<header, vars, hint, place, expr, calls>>

NoExpr == Expr("none", "", "", None, <<>>, <<>>)

Env == [vars |-> vars, ret |-> header.ret, hint |-> hint,
        impls |-> header.impls, imports |-> header.imports]

\* what the lowering records of a parameter: the containers are left out
OfParameter(t) ==
  CASE t = Float                               -> Known(FALSE, TRUE, None, "", None)
    [] t = String                              -> KnownStr
    [] Head1(t) \in {"Option", "Result", "List"} -> KnownGen(t)
    [] Head1(t) \in Declared                   -> Known(FALSE, FALSE, None, t[1], None)
    [] Head1(t) = "Fn"                         -> Known(FALSE, FALSE, None, "", t)
    [] OTHER                                   -> Nothing

(* What a let records of the value it binds: what the temporary is known   *)
(* to be, what the expression's shape tells, and the annotation.           *)
OfLet(temp, e, env) ==
  LET bound == StructBound(e, env)
      noted == Head1(env.hint) \in {"Option", "Result", "List", "Set", "Map"}
  IN Known(temp.str \/ IsString(e, env), temp.flt \/ IsFloat(e, env),
           IF noted THEN env.hint ELSE temp.gen,
           IF Head1(env.hint) \in Declared THEN env.hint[1]
             ELSE IF bound # "" THEN bound ELSE temp.named,
           temp.fn)

-----------------------------------------------------------------------------
(* What an expression means: its type, and the operation of that type,     *)
(* taken from the declarations and never from what the lowering knows.     *)
(* No type: it has no meaning.                                             *)
Sense(type, code) == [type |-> type, code |-> code]
Senseless == Sense(None, Undefined)

\* the operations: the types they take and the type they return
Operation(t, m) ==
  CASE m = "len" /\ Head1(t) \in Containers \union {"List"} -> Sig(<<>>, Int)
    [] Head1(t) = "List" /\ m = "get"             -> Sig(<<Int>>, Option(t[2]))
    [] Head1(t) \in Keyed /\ m = "insert"         -> Sig(<<t[2], t[3]>>, t)
    [] Head1(t) \in Keyed /\ m = "remove"         -> Sig(<<t[2]>>, t)
    [] Head1(t) \in Keyed /\ m = "contains_key"   -> Sig(<<t[2]>>, Bool)
    [] Head1(t) \in Keyed /\ m = "get"            -> Sig(<<t[2]>>, Option(t[3]))
    [] Head1(t) \in Elements /\ m \in {"insert", "remove"} -> Sig(<<t[2]>>, t)
    [] Head1(t) \in Elements /\ m = "contains"    -> Sig(<<t[2]>>, Bool)
    [] OTHER -> None

\* the functions of a module, for the types they are given; those on lists
\* that do not look at an element serve lists of anything
AnyList(f, given) ==
  CASE f = "len"  -> Sig(<<given>>, Int)
    [] f = "get"  -> Sig(<<given, Int>>, Option(given[2]))
    [] f = "push" -> Sig(<<given, given[2]>>, given)

RECURSIVE Meaning(_, _)

Types(ms) == [i \in DOMAIN ms |-> ms[i].type]
Operands(ms) == [i \in DOMAIN ms |-> ms[i].code]

\* pairs of which one means nothing, or has other types than the first
Unlike(ms) == \E i \in DOMAIN ms : ms[i].type = None \/ ms[i].type # ms[2 - (i % 2)].type

MeaningOfMethod(e, env) ==
  LET ms == [i \in DOMAIN e.args |-> Meaning(e.args[i], env)]
      t  == ms[1].type
      op == Operation(t, e.name)
      own == <<Head1(t), e.name>>
      str == StringFunction(e.name)
  IN CASE \E i \in DOMAIN ms : ms[i].type = None -> Senseless
       [] op # None ->
            IF Tail(Types(ms)) # op[1] THEN Senseless
            ELSE Sense(op[2], Code(<<t[1], e.name>>, Args(t), Operands(ms)))
       [] Head1(t) = "Option" /\ e.name = "ok_or" /\ Len(ms) = 2 ->
            Sense(Result(t[2], ms[2].type), Code(<<"ok_or">>, <<t[2], ms[2].type>>, Operands(ms)))
       [] own \in DOMAIN env.impls /\ Len(ms) = 1 ->
            Sense(env.impls[own], Code(<<"impl", own[1], own[2]>>, <<>>, Operands(ms)))
       [] t = String /\ str # None ->
            IF Types(ms) # str[1] THEN Senseless
            ELSE Sense(str[2], Code(<<"string", e.name>>, <<>>, Operands(ms)))
       [] OTHER -> Senseless

(* v.copy(f: a): the value with one field replaced. *)
MeaningOfCopy(e, env) ==
  LET v      == Meaning(e.args[1], env)
      fields == Fields(Head1(v.type))
      new    == Meaning(e.args[2], env)
      at     == {j \in DOMAIN fields : fields[j][1] = e.labels[2]}
  IN IF Head1(v.type) \notin Declared \ DataTypes THEN Senseless
     ELSE IF Len(e.args) = 1 THEN v
     ELSE IF at = {} \/ \E j \in at : fields[j][2] # new.type THEN Senseless
     ELSE Sense(v.type, Code(<<"struct", v.type[1]>>, <<>>,
            [j \in DOMAIN fields |-> IF j \in at THEN new.code
              ELSE Code(<<"field", fields[j][1]>>, <<v.type>>, <<v.code>>)]))

MeaningOfCtor(e, env) ==
  LET fields == Fields(e.name)
      ms     == [i \in DOMAIN e.args |-> Meaning(e.args[i], env)]
      \* the argument of each field: by its label, or by its place when
      \* no argument has a label
      arg(j) == {i \in DOMAIN ms : IF e.labels[i] = "" THEN i = j ELSE e.labels[i] = fields[j][1]}
      right(j) == Cardinality(arg(j)) = 1 /\ \A i \in arg(j) : ms[i].type = fields[j][2]
  IN IF \E j \in DOMAIN fields : ~right(j) THEN Senseless
     ELSE Sense(<<e.name>>, Code(<<"struct", e.name>>, <<>>,
            [j \in DOMAIN fields |-> ms[CHOOSE i \in arg(j) : TRUE].code]))

MeaningOfModule(e, env) ==
  LET ms   == [i \in DOMAIN e.args |-> Meaning(e.args[i], env)]
      ts   == Types(ms)
      f    == Function(e.on, e.name)
      any  == e.on = "list" /\ e.name \in {"len", "get", "push"} /\ Head1(ts[1]) = "List"
                /\ ts[1] # List(Int)
      pick == CASE e.on = "assert" /\ e.name \in {"eq", "ne"} /\ ts[1] = String -> e.name \o "_str"
                [] e.on = "assert" /\ e.name \in {"eq", "ne"} /\ ts[1] = Bool   -> e.name \o "_bool"
                [] OTHER -> e.name
  IN CASE f = None \/ \E i \in DOMAIN ts : ts[i] = None -> Senseless
       [] any -> IF AnyList(e.name, ts[1])[1] # ts THEN Senseless
                 ELSE Sense(AnyList(e.name, ts[1])[2],
                            Code(<<"List", e.name>>, Args(ts[1]), Operands(ms)))
       [] OTHER -> IF Function(e.on, pick)[1] # ts THEN Senseless
                   ELSE Sense(f[2], Code(<<e.on, pick>>, <<>>, Operands(ms)))

MeaningOfShow(e, env) ==
  LET v == Meaning(e.args[1], env)
      how == CASE OptionShown(v.type) -> "option"
               [] v.type = String     -> "%s"
               [] v.type = Float      -> "%g"
               [] OTHER               -> "%ld"
  IN IF v.type \notin {Int, Bool, String, Float} /\ ~OptionShown(v.type) THEN Senseless
     ELSE Sense(String, Code(<<"show", how>>,
                             IF how = "option" THEN Args(v.type) ELSE <<>>, <<v.code>>))

Meaning(e, env) ==
  CASE e.kind = "lit"  -> Sense(e.type, Code(<<"const">>, <<e.type>>, <<>>))
    [] e.kind = "var"  -> Sense(env.vars[e.name].means, Code(<<"var", e.name>>, <<>>, <<>>))
    [] e.kind = "make" -> Sense(e.type, Code(<<"make">>, <<e.type>>, <<>>))
    [] e.kind = "list" ->
         LET ms == [i \in DOMAIN e.args |-> Meaning(e.args[i], env)]
             t  == ms[1].type
         IN IF t = None \/ \E i \in DOMAIN ms : ms[i].type # t THEN Senseless
            ELSE Sense(List(t), Code(<<"list">>, <<t>>, Operands(ms)))
    [] e.kind = "pairs" ->
         LET ms == [i \in DOMAIN e.args |-> Meaning(e.args[i], env)]
             t  == <<"Tuple", ms[1].type, ms[2].type>>
         IN IF Unlike(ms) THEN Senseless
            ELSE Sense(List(t), Code(<<"list">>, <<t>>, TupleCodes(Types(ms), Operands(ms))))
    [] e.kind = "new"  ->
         LET c == Made(e.on)
             hinted == PeelTo(c, env.hint)
             t == IF hinted # None THEN hinted ELSE PeelTo(c, env.ret)
         IN IF t = None THEN Senseless ELSE Sense(t, Code(<<c, "new">>, Args(t), <<>>))
    [] e.kind = "from" ->
         LET pairs == e.args[1].args
             ms == [i \in DOMAIN pairs |-> Meaning(pairs[i], env)]
             t  == <<"LinkedMap", ms[1].type, ms[2].type>>
         IN IF Unlike(ms) THEN Senseless ELSE Sense(t, Inserts(t, Operands(ms)))
    [] e.kind = "field" ->
         LET v  == Meaning(e.args[1], env)
             fs == IF Head1(v.type) \in Declared THEN Fields(v.type[1]) ELSE <<>>
             at == {i \in DOMAIN fs : fs[i][1] = e.name}
         IN IF at = {} THEN Senseless
            ELSE Sense(fs[CHOOSE i \in at : TRUE][2],
                       Code(<<"field", e.name>>, <<v.type>>, <<v.code>>))
    [] e.kind = "ctor"   -> MeaningOfCtor(e, env)
    [] e.kind = "module" -> MeaningOfModule(e, env)
    [] e.kind = "show"   -> MeaningOfShow(e, env)
    [] e.name = "copy"   -> MeaningOfCopy(e, env)
    [] OTHER             -> MeaningOfMethod(e, env)

-----------------------------------------------------------------------------
Literals  == {Lit(Int), Lit(String), Lit(Bool)}
Callbacks == {Lit(Fn1(Int, Int)), Lit(Fn1(Int, Bool)), Lit(Fn1(String, Bool)), Lit(Fn2(Int, Int, Int))}
Exported  == {"len", "get", "push", "contains", "index_of", "sum", "sort_str", "map", "filter",
              "filter_str", "fold", "is_empty", "trim", "parse_int", "byte_at", "split", "eq", "ne"}

Record(type, means, known) == [type |-> type, means |-> means, known |-> known]

Init ==
  /\ header \in Headers
  /\ vars = ("x" :> Record(header.param, header.param, OfParameter(header.param)))
  /\ hint \in {None} \union header.annotations
  /\ place \in (IF hint = None THEN {"let", "tail"} ELSE {"let"})
  /\ expr = NoExpr /\ calls = 0

RECURSIVE Settled(_)
Settled(t) == t # Error /\ \A i \in 2..Len(t) : Settled(t[i])

\* the checker knows the types of the operands and of the whole
Followed(e, env) == /\ Settled(Check(e, env).type)
                    /\ \A i \in Looked(e) : Settled(Check(e.args[i], env).type)

(* The checker accepts the expression so far; one that it does not follow, *)
(* and that has no meaning, is left aside.                                 *)
Accepted(e) == /\ Check(e, Env).ok
               /\ Followed(e, Env) \/ Meaning(e, Env).type # None
               /\ expr' = e

Start ==
  /\ expr = NoExpr
  /\ \E e \in header.starts \union {Var(x) : x \in DOMAIN vars} : Accepted(e)
  /\ UNCHANGED <<header, vars, hint, place, calls>>

\* what is built so far is right: one fault is not reported again
Right == LET m == Meaning(expr, Env)
         IN m.type # None /\ Lower(expr, Env).code = m.code

(* The calls that can be written around an expression. *)
MethodCallsOf(e) ==
  {Call(e, m, args) : m \in Methods, args \in {<<>>} \union {<<a>> : a \in Literals}
                                                 \union {<<a, b>> : a, b \in Literals}}
Copies(e) == {Copy(e, f, a) : f \in {"", "n", "s"}, a \in Literals} \union {Call(e, "copy", <<>>)}

\* a function of a module, with as many arguments as it is declared with
FunctionCalls(e) ==
  LET arity(mod, f) == IF Function(mod, f) = None THEN 0 ELSE Len(Function(mod, f)[1])
      args(n) == CASE n = 0 -> {}
                   [] n = 1 -> {<<e>>}
                   [] n = 2 -> {<<e, a>> : a \in Literals \union Callbacks}
                                 \union {<<a, e>> : a \in Literals}
                   [] n = 3 -> {<<e, a, g>> : a \in Literals, g \in Callbacks}
  IN UNION {{ModCall(mod, f, as) : as \in args(arity(mod, f))} :
              mod \in header.imports, f \in Exported}

\* lists of one and of two, also with a literal or a call of no method
ListsOf(e) == {ListLit(<<e>>), ListLit(<<e, e>>), ListLit(<<Lit(Int), e>>)}
                \union {ListLit(<<e, a>>) : a \in {Lit(Int), Call(Lit(Int), "trim", <<>>)}}
Wrapped(e) == ListsOf(e) \union {Show(e), Field(e, "n"), Field(e, "s")}

Write ==
  /\ expr # NoExpr /\ calls < MaxCalls /\ Right
  /\ \E e \in MethodCallsOf(expr) \union Copies(expr) \union FunctionCalls(expr) \union Wrapped(expr) :
       Accepted(e)
  /\ calls' = calls + 1
  /\ UNCHANGED <<header, vars, hint, place>>

Bind ==
  /\ place = "let" /\ expr # NoExpr
  /\ Right
  /\ IF hint = None THEN TRUE ELSE Fits(hint, Check(expr, Env).type)
  /\ vars' = ("y" :> Record(IF hint = None THEN Check(expr, Env).type ELSE hint,
                            Meaning(expr, Env).type, OfLet(Lower(expr, Env).known, expr, Env)))
  /\ place' = "tail" /\ hint' = None /\ expr' = NoExpr
  /\ UNCHANGED <<header, calls>>

-----------------------------------------------------------------------------
(* The lowering can tell what an expression of type t is, in the way a     *)
(* call on it asks.                                                        *)
Seen(e, t, env) ==
  CASE Head1(t) \in Containers -> Infer(Head1(t), e, env) # None
    [] Head1(t) = "List"       -> InferList(e, env) # None
    [] Head1(t) \in Declared   -> StructOf(e, env) # ""
    [] t = String              -> IsString(e, env)
    [] t = Float               -> IsFloat(e, env)
    [] Head1(t) = "Option" \/ t = Bool -> InferType(e, env) # None
    [] OTHER                   -> TRUE

Tracked(e, env) ==
  \A i \in DOMAIN e.args :
    IF e.kind \in {"list", "pairs"} THEN i \in Looked(e) => InferType(e.args[i], env) # None
    ELSE Seen(e.args[i], Meaning(e.args[i], env).type, env)

\* what is looked at of a list means something, but there is more
Unseen(e, env) == /\ e.kind \in {"list", "pairs"}
                  /\ Looked(e) # DOMAIN e.args
                  /\ \A i \in Looked(e) : Meaning(e.args[i], env).type # None

(* Calls that the checker lets pass though they mean nothing: the index of *)
(* a list and the key of a Map's get are compared with nothing, list.push  *)
(* takes anything, list.contains and list.index_of compare Ints, labelled  *)
(* fields and the arguments of an impl's method are compared with nothing, *)
(* and the elements of a list after the first, or the pairs of             *)
(* LinkedMap.from, are not looked at.                                      *)
Lenient(e, env) ==
  \/ e.kind = "call" /\ e.name = "get"
  \/ e.kind = "module" /\ e.on = "list" /\ e.name \in {"push", "contains", "index_of"}
  \/ e.kind = "ctor" /\ \E i \in DOMAIN e.labels : e.labels[i] # ""
  \/ e.kind = "call" /\ Len(e.args) > 1 /\ \E k \in DOMAIN env.impls : k[2] = e.name
  \/ Unseen(IF e.kind = "from" THEN e.args[1] ELSE e, env)

(* Expressions whose shape tells something else than their type: a new     *)
(* container whose type is inside the annotation or the result type;       *)
(* LinkedMap.from without an annotation; list.get and its like of a list   *)
(* that is not of Ints; a variable bound to a container, which is also     *)
(* noted as a string.                                                      *)
Misread(e, env) ==
  \/ /\ e.kind = "new"
     /\ Made(e.on) \notin {Head1(env.hint)} \union
           (IF e.on \in Keyed THEN {} ELSE {Head1(env.ret)})
  \/ e.kind = "from" /\ Head1(env.hint) # "LinkedMap"
  \/ e.kind = "module" /\ e.on = "list" /\ Meaning(e.args[1], env).type # List(Int)
  \/ e.kind = "var" /\ env.vars[e.name].known.str /\ env.vars[e.name].known.gen # None

\* a method of an impl with the name of a function of a module, or of a
\* method of another type, takes the call
Taken(e, env) ==
  /\ e.kind \in {"call", "module"}
  /\ \E k \in DOMAIN env.impls :
       /\ k[2] = e.name
       /\ e.kind = "call" => k[1] # Head1(Meaning(e.args[1], env).type)

(* The calls that are left out: those that another rule takes; those whose *)
(* operand is misread; a new container, or a list that is no variable and  *)
(* not of Ints, whose type is needed at once; the functions on strings     *)
(* that are others without their module.                                   *)
Odd(e, env) ==
  \/ Taken(e, env)
  \/ "string" \notin env.imports /\ e.name \in {"parse_int", "byte_at", "split"}
  \/ e.kind \in {"new", "from"} /\ Misread(e, env)
  \/ e.kind = "module" /\ e.args[1].kind # "var" /\ Misread(e, env)
  \/ \E i \in DOMAIN e.args :
       Misread(e.args[i], env) /\ (e.args[i].kind = "var" => e.kind \in {"list", "pairs"})

(* A program that the checker follows and accepts means something, and the *)
(* code does it wherever the lowering can tell what the operands are.      *)
CallsAreRight ==
  expr # NoExpr =>
    LET m == Meaning(expr, Env)
    IN IF m.type = None THEN Lenient(expr, Env)
       ELSE Tracked(expr, Env) /\ ~Odd(expr, Env) => Lower(expr, Env).code = m.code

(* What the lowering believes of an expression it may not know, but it is  *)
(* never wrong.                                                            *)
BeliefsAreTrue ==
  expr # NoExpr =>
    LET t == Meaning(expr, Env).type
        inferred == InferType(expr, Env)
        told == Tracked(expr, Env) /\ ~Odd(expr, Env) /\ ~Misread(expr, Env)
    IN t # None /\ told =>
         /\ inferred \in {None, t}
         /\ InferList(expr, Env) \in {None, t}
         /\ \A c \in Containers : Infer(c, expr, Env) \in {None, t}
         /\ StructOf(expr, Env) # "" => t = <<StructOf(expr, Env)>>
         /\ IsString(expr, Env) => t = String
         /\ IsFloat(expr, Env) => t = Float

Next == Start \/ Write \/ Bind
Spec == Init /\ [][Next]_cvars
=============================================================================
