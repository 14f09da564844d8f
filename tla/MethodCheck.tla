----------------------------- MODULE MethodCheck -----------------------------
(***************************************************************************)
(* The types and the expressions of method calls, and what the type       *)
(* checker (compiler/crates/tyra-types/src/checker.rs, infer_expr) says of *)
(* them: whether it reports an error, and the type it goes on with.  It    *)
(* has a table of methods for each container; it leaves the methods of the *)
(* declared types to the lowering, with the type Error.                    *)
(*                                                                         *)
(* A type is a tuple: its head and its arguments, <<"Int">>,               *)
(* <<"List", <<"Int">>>>, <<"Fn", parameter, ..., result>>; a value or     *)
(* data type is its name.  <<"Error">> is the type the checker gives to    *)
(* what it does not follow: it fits everything.                            *)
(*                                                                         *)
(* An expression is a record with one shape: its kind, the module or the   *)
(* collection it is called on, the name of the method, field or variable,  *)
(* the type it is declared with, its operands (the receiver of a call      *)
(* first) and their labels.                                                *)
(*                                                                         *)
(* env is the surrounding function: vars (the bindings), ret (its result   *)
(* type), hint (the annotation of the let the expression is the value of,  *)
(* or None), impls (the result of each method of an impl), imports.        *)
(***************************************************************************)
EXTENDS Naturals, Sequences, FiniteSets

None    == <<>>
Error   == <<"Error">>
Int     == <<"Int">>
Bool    == <<"Bool">>
String  == <<"String">>
Float   == <<"Float">>
Unit    == <<"Unit">>
List(t)      == <<"List", t>>
Option(t)    == <<"Option", t>>
Result(t, u) == <<"Result", t, u>>

Head1(t) == IF t = None THEN "" ELSE t[1]
Args(t)  == Tail(t)

Keyed    == {"Map", "LinkedMap", "SortedMap"}
Elements == {"Set", "LinkedSet", "SortedSet"}
Containers == Keyed \union Elements

\* the types a program declares: V is a value, D a data type
Declared  == {"V", "D"}
DataTypes == {"D"}
Fields(name) == IF name = "V" THEN <<<<"n", Int>>, <<"s", String>>>>
                              ELSE <<<<"s", String>>>>

Expr(kind, on, name, type, args, labels) ==
  [kind |-> kind, on |-> on, name |-> name, type |-> type, args |-> args, labels |-> labels]

Lit(t)            == Expr("lit", "", "", t, <<>>, <<>>)        \* a literal, or a function's name
Var(x)            == Expr("var", "", x, None, <<>>, <<>>)
Make(t)           == Expr("make", "", "", t, <<>>, <<>>)       \* a call of fn make() -> t
ListLit(es)       == Expr("list", "", "", None, es, <<>>)      \* [e, ...]
Pairs(es)         == Expr("pairs", "", "", None, es, <<>>)     \* [(k, v), ...]
New(c)            == Expr("new", c, "new", None, <<>>, <<>>)
From(e)           == Expr("from", "LinkedMap", "from", None, <<e>>, <<>>)
Field(e, f)       == Expr("field", "", f, None, <<e>>, <<>>)
Ctor(t, labels, args) == Expr("ctor", "", t, None, args, labels)
Call(e, m, args)  == Expr("call", "", m, None, <<e>> \o args, <<>>)
Copy(e, f, a)     == Expr("call", "", "copy", None, <<e, a>>, <<"", f>>)
ModCall(mod, f, args) == Expr("module", mod, f, None, args, <<>>)
Show(e)           == Expr("show", "", "", None, <<e>>, <<>>)   \* "#{e}"

-----------------------------------------------------------------------------
(* unify, on types without variables *)
RECURSIVE Fits(_, _)
Fits(a, b) ==
  \/ a = Error \/ b = Error
  \/ /\ a[1] = b[1]
     /\ Len(a) = Len(b)
     /\ \A i \in 2..Len(a) : Fits(a[i], b[i])

OptionShown(t) == Head1(t) = "Option" /\ t[2] \in {Int, Float, String}
Displayable(t) == t \in {Int, Float, Bool, String, Error} \/ OptionShown(t)

(* The container inside the annotation or the result type a constructor of *)
(* an empty container takes its type from.                                  *)
RECURSIVE PeelTo(_, _)
PeelTo(c, t) ==
  IF Head1(t) = c THEN t
  ELSE IF Head1(t) \in {"Option", "Result"} \/ (c = "Set" /\ Head1(t) = "List")
       THEN PeelTo(c, t[2]) ELSE None

Made(on) == IF on = "set" THEN "Set" ELSE on

SortedKeyOk(t) == Head1(t) \in {"SortedMap", "SortedSet"} => t[2] \in {Int, Bool, String}

-----------------------------------------------------------------------------
(* The verdict of the checker.                                             *)

Verdict(ok, type) == [ok |-> ok, type |-> type]
Sig(params, ret)  == <<params, ret>>

(* The methods of the containers, of lists and of options: what their      *)
(* arguments are compared with (Error: with nothing) and what they return. *)
KeyedMethod(t, m, n) ==
  CASE m = "insert" /\ n = 2       -> Sig(<<t[2], t[3]>>, t)
    [] m = "remove" /\ n = 1       -> Sig(<<t[2]>>, t)
    [] m = "contains_key" /\ n = 1 -> Sig(<<t[2]>>, Bool)
    [] m = "get" /\ n = 1          -> Sig(<<IF t[1] = "Map" THEN Error ELSE t[2]>>, Option(t[3]))
    [] m = "len" /\ n = 0          -> Sig(<<>>, Int)
    [] OTHER                       -> None

ElementMethod(t, m, n) ==
  CASE m \in {"insert", "remove"} /\ n = 1 -> Sig(<<t[2]>>, t)
    [] m = "contains" /\ n = 1             -> Sig(<<t[2]>>, Bool)
    [] m = "len" /\ n = 0                  -> Sig(<<>>, Int)
    [] OTHER                               -> None

ListMethod(t, m, n) ==
  CASE m = "get" /\ n = 1 -> Sig(<<Error>>, Option(t[2]))
    [] m = "len" /\ n = 0 -> Sig(<<>>, Int)
    [] OTHER              -> None

MethodOf(t, m, n) ==
  CASE Head1(t) \in Keyed    -> KeyedMethod(t, m, n)
    [] Head1(t) \in Elements -> ElementMethod(t, m, n)
    [] Head1(t) = "List"     -> ListMethod(t, m, n)
    [] OTHER                 -> None

-----------------------------------------------------------------------------
(* What the modules of the standard library export. *)
Fn1(a, r)    == <<"Fn", a, r>>
Fn2(a, b, r) == <<"Fn", a, b, r>>

ListFunction(f) ==
  CASE f = "len"              -> Sig(<<List(Int)>>, Int)
    [] f = "get"              -> Sig(<<List(Int), Int>>, Option(Int))
    [] f = "push"             -> Sig(<<List(Int), Int>>, List(Int))
    [] f = "contains"         -> Sig(<<List(Int), Int>>, Bool)
    [] f = "index_of"         -> Sig(<<List(Int), Int>>, Option(Int))
    [] f = "sum"              -> Sig(<<List(Int)>>, Int)
    [] f \in {"max", "min"}   -> Sig(<<List(Int)>>, Option(Int))
    [] f = "sort"             -> Sig(<<List(Int)>>, List(Int))
    [] f = "sort_str"         -> Sig(<<List(String)>>, List(String))
    [] f = "map"              -> Sig(<<List(Int), Fn1(Int, Int)>>, List(Int))
    [] f = "map_str"          -> Sig(<<List(String), Fn1(String, String)>>, List(String))
    [] f = "filter"           -> Sig(<<List(Int), Fn1(Int, Bool)>>, List(Int))
    [] f = "filter_str"       -> Sig(<<List(String), Fn1(String, Bool)>>, List(String))
    [] f = "fold"             -> Sig(<<List(Int), Int, Fn2(Int, Int, Int)>>, Int)
    [] f = "fold_str"         -> Sig(<<List(String), String, Fn2(String, String, String)>>, String)
    [] OTHER                  -> None

StringFunction(f) ==
  CASE f = "len"                       -> Sig(<<String>>, Int)
    [] f = "is_empty"                  -> Sig(<<String>>, Bool)
    [] f \in {"trim", "reverse"}       -> Sig(<<String>>, String)
    [] f = "contains"                  -> Sig(<<String, String>>, Bool)
    [] f = "parse_int"                 -> Sig(<<String>>, Option(Int))
    [] f = "byte_at"                   -> Sig(<<String, Int>>, Option(Int))
    [] f = "split"                     -> Sig(<<String, String>>, List(String))
    [] OTHER                           -> None

AssertFunction(f) ==
  CASE f \in {"eq", "ne"}           -> Sig(<<Int, Int>>, Result(Unit, String))
    [] f \in {"eq_str", "ne_str"}   -> Sig(<<String, String>>, Result(Unit, String))
    [] f \in {"eq_bool", "ne_bool"} -> Sig(<<Bool, Bool>>, Result(Unit, String))
    [] OTHER                        -> None

Function(mod, f) ==
  CASE mod = "list"   -> ListFunction(f)
    [] mod = "string" -> StringFunction(f)
    [] mod = "assert" -> AssertFunction(f)
    [] OTHER          -> None

IntOnly    == {"sum", "max", "min", "sort", "sort_str"}
Structural == {"len", "get", "push", "contains", "index_of"}
Higher     == {"map", "map_str", "filter", "filter_str", "fold", "fold_str"}

-----------------------------------------------------------------------------
RECURSIVE Check(_, _)

\* The operands that the checker looks at: of a list, only the first element.
Looked(e) == IF e.kind \in {"list", "pairs"}
             THEN DOMAIN e.args \intersect (IF e.kind = "list" THEN {1} ELSE {1, 2})
             ELSE DOMAIN e.args

Compared(params, args, env) ==
  \A i \in DOMAIN args :
    LET v == Check(args[i], env) IN v.ok /\ Fits(params[i], v.type)

AllOk(args, env) == \A i \in DOMAIN args : Check(args[i], env).ok

(* set.new(), LinkedMap.new(), ...: the annotation of the let, else the    *)
(* result type of the function, else an error; a sorted container also     *)
(* needs a key that has an order.                                          *)
CheckNew(e, env) ==
  LET hinted == PeelTo(Made(e.on), env.hint)
      wanted == IF hinted # None THEN hinted ELSE PeelTo(Made(e.on), env.ret)
  IN IF wanted = None THEN Verdict(FALSE, Error) ELSE Verdict(SortedKeyOk(wanted), wanted)

(* LinkedMap.from([...]): the annotation, which must be the type of the    *)
(* pairs, else the type of the first pair.  Only a list literal is taken.  *)
CheckFrom(e, env) ==
  LET pairs  == e.args[1]
      hinted == PeelTo("LinkedMap", env.hint)
      given  == Check(pairs, env)
  IN IF pairs.kind \notin {"pairs", "list"} THEN Verdict(FALSE, Error)
     ELSE IF Head1(given.type[2]) # "Tuple"
          THEN IF hinted # None THEN Verdict(given.ok, hinted) ELSE Verdict(FALSE, Error)
     ELSE LET own == <<"LinkedMap", given.type[2][2], given.type[2][3]>>
          IN IF hinted = None THEN Verdict(given.ok, own)
             ELSE IF hinted = own THEN Verdict(given.ok, hinted)
             ELSE Verdict(FALSE, Error)

(* assert.eq and assert.ne take two Ints, Strings or Bools. *)
CheckAssert(e, env) ==
  LET a == Check(e.args[1], env)
      b == Check(e.args[2], env)
  IN Verdict(/\ a.ok /\ b.ok
             /\ a.type \in {Int, String, Bool, Error}
             /\ b.type # Float
             /\ Fits(a.type, b.type),
             Result(Unit, String))

(* list.len and its like take a list of anything, though they are declared *)
(* for lists of Int: their type follows the list that is given.            *)
CheckStructural(e, env) ==
  LET xs    == Check(e.args[1], env)
      elem  == IF Head1(xs.type) = "List" THEN xs.type[2] ELSE Error
      known == Head1(xs.type) = "List"
      args  == IF Len(e.args) = 1 THEN TRUE
               ELSE LET v == Check(e.args[2], env)
                    IN v.ok /\ Fits(IF e.name = "get" THEN Int ELSE elem, v.type)
  IN IF ~known /\ xs.type # Error THEN Verdict(FALSE, Error)
     ELSE Verdict(xs.ok /\ args,
            CASE e.name = "len"      -> Int
              [] e.name = "contains" -> Bool
              [] e.name = "index_of" -> Option(Int)
              [] e.name = "get"      -> IF known THEN Option(elem) ELSE Error
              [] OTHER               -> IF known THEN xs.type ELSE Error)

(* The functions of a module with the types they are declared with.  Two   *)
(* containers of one kind with different elements are not compared; the    *)
(* type of the call is then not known.                                     *)
CheckDeclared(e, env) ==
  LET f == Function(e.on, e.name)
      v == [i \in DOMAIN e.args |-> Check(e.args[i], env)]
      skipped(i) == /\ Len(f[1][i]) > 1
                    /\ Head1(f[1][i]) \notin {"Fn"}
                    /\ Head1(f[1][i]) = Head1(v[i].type)
                    /\ ~Fits(f[1][i], v[i].type)
  IN IF f = None THEN Verdict(FALSE, Error)
     ELSE IF Len(f[1]) # Len(e.args) THEN Verdict(FALSE, f[2])
     ELSE Verdict(\A i \in DOMAIN v : v[i].ok /\ (skipped(i) \/ Fits(f[1][i], v[i].type)),
                  IF \E i \in DOMAIN v : skipped(i) THEN Error ELSE f[2])

(* list.push and the functions that take a function are checked first, and *)
(* without looking at the declarations.                                    *)
CheckModule(e, env) ==
  LET f == Function(e.on, e.name) IN
  CASE e.on = "list" /\ e.name = "push" /\ Len(e.args) = 2 ->
         LET xs == Check(e.args[1], env)
             x  == Check(e.args[2], env)
         IN Verdict(xs.ok /\ x.ok /\ (Head1(xs.type) = "List" => Fits(xs.type[2], x.type)),
                    xs.type)
    [] e.on = "list" /\ e.name \in Higher ->
         Verdict(Len(e.args) = Len(f[1]) /\ Compared(f[1], e.args, env), f[2])
    [] e.on = "assert" /\ e.name \in {"eq", "ne"} /\ Len(e.args) = 2 -> CheckAssert(e, env)
    [] e.on = "list" /\ e.name \in IntOnly /\ Len(e.args) = Len(f[1]) ->
         Verdict(Compared(f[1], e.args, env), f[2])
    [] e.on = "list" /\ e.name \in Structural /\ Len(e.args) = Len(f[1]) -> CheckStructural(e, env)
    [] OTHER -> CheckDeclared(e, env)

(* What is left when no table has the method: the method of an impl; an    *)
(* error for the types that have no methods of the user's; silence for the *)
(* declared types and for the containers with an order, whose type is then *)
(* not known.                                                              *)
CheckOther(e, obj, argsOk, env) ==
  LET t == obj.type IN
  CASE t = Error -> Verdict(argsOk, Error)
    [] <<Head1(t), e.name>> \in DOMAIN env.impls ->
         Verdict(argsOk, env.impls[<<Head1(t), e.name>>])
    [] Head1(t) \in Declared \union {"LinkedMap", "LinkedSet", "SortedMap", "SortedSet"} ->
         Verdict(argsOk, Error)
    [] OTHER -> Verdict(FALSE, Error)

CheckMethod(e, env) ==
  LET obj  == Check(e.args[1], env)
      rest == Tail(e.args)
      sig  == MethodOf(obj.type, e.name, Len(rest))
      \* a method to_string belongs to the trait Stringable
      trait == e.name = "to_string" /\ Head1(obj.type) \in Declared
                 => <<Head1(obj.type), "to_string">> \in DOMAIN env.impls
  IN CASE sig # None -> Verdict(obj.ok /\ Compared(sig[1], rest, env), sig[2])
       [] Head1(obj.type) = "Option" /\ e.name = "ok_or" /\ Len(rest) = 1 ->
            LET err == Check(rest[1], env)
            IN Verdict(obj.ok /\ err.ok, Result(obj.type[2], err.type))
       [] OTHER -> LET v == CheckOther(e, obj, AllOk(rest, env), env)
                   IN Verdict(obj.ok /\ trait /\ v.ok, v.type)

(* A constructor: the order of labelled arguments is free, so that they    *)
(* are not compared with the fields.                                       *)
CheckCtor(e, env) ==
  LET fields == Fields(e.name) IN
  Verdict(/\ Len(e.args) = Len(fields)
          /\ IF \E i \in DOMAIN e.labels : e.labels[i] # "" THEN AllOk(e.args, env)
             ELSE Compared([i \in DOMAIN fields |-> fields[i][2]], e.args, env),
          <<e.name>>)

Check(e, env) ==
  CASE e.kind = "lit"   -> Verdict(TRUE, e.type)
    [] e.kind = "var"   -> Verdict(TRUE, env.vars[e.name].type)
    [] e.kind = "make"  -> Verdict(TRUE, e.type)
    [] e.kind = "list"  -> LET v == Check(e.args[1], env) IN Verdict(v.ok, List(v.type))
    [] e.kind = "pairs" -> LET k == Check(e.args[1], env)
                               v == Check(e.args[2], env)
                           IN Verdict(k.ok /\ v.ok, List(<<"Tuple", k.type, v.type>>))
    [] e.kind = "new"   -> CheckNew(e, env)
    [] e.kind = "from"  -> CheckFrom(e, env)
    [] e.kind = "field" -> Verdict(Check(e.args[1], env).ok, Error)
    [] e.kind = "ctor"  -> CheckCtor(e, env)
    [] e.kind = "show"  -> LET v == Check(e.args[1], env)
                           IN Verdict(v.ok /\ Displayable(v.type), String)
    [] e.kind = "module" -> CheckModule(e, env)
    [] OTHER             -> CheckMethod(e, env)
=============================================================================
