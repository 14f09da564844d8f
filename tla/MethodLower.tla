----------------------------- MODULE MethodLower -----------------------------
(***************************************************************************)
(* What the lowering makes of an expression                                *)
(* (compiler/crates/tyra-mir/src/lower/call.rs and types.rs).              *)
(*                                                                         *)
(* The lowering has no types: it follows what it knows of each variable    *)
(* and temporary (strings, floats, the generic type, the declared type, a  *)
(* closure), and asks the shape of an expression for the rest.  A call is  *)
(* taken by the first rule of a long chain that applies.                   *)
(*                                                                         *)
(* The code of an expression is a term: the operation, the types it is     *)
(* made for, its operands.  Undefined is a call of a function that does    *)
(* not exist: the back end then makes the whole function one instruction   *)
(* that must never be reached, without a word.  Refused is an error, or a  *)
(* panic that the driver reports as one.                                   *)
(***************************************************************************)
EXTENDS MethodCheck

Code(op, of, args) == [op |-> op, of |-> of, args |-> args]
Undefined == Code(<<"undefined">>, <<>>, <<>>)
Refused   == Code(<<"refused">>, <<>>, <<>>)

\* what is known of a value: string_vars, float_vars, generic_var_types,
\* var_types, closure_fn_types
Known(str, flt, gen, named, fn) ==
  [str |-> str, flt |-> flt, gen |-> gen, named |-> named, fn |-> fn]
Nothing     == Known(FALSE, FALSE, None, "", None)
KnownGen(t) == Known(FALSE, FALSE, t, "", None)
KnownStr    == Known(TRUE, FALSE, None, "", None)

\* after a call whose declared result is t
KnownResult(t) ==
  CASE t = String               -> KnownStr
    [] t = Float                -> Known(FALSE, TRUE, None, "", None)
    [] Head1(t) \in Declared    -> Known(FALSE, FALSE, None, t[1], None)
    [] Len(t) > 1 /\ t[1] # "Fn" -> KnownGen(t)
    [] OTHER                    -> Nothing

\* after a call of a function of the same file
KnownPlain(t) ==
  CASE Head1(t) \in {"Option", "Result", "List", "Set", "Map"} -> KnownGen(t)
    [] Head1(t) = "Fn" -> Known(FALSE, FALSE, None, "", t)
    [] OTHER           -> Nothing

Lowered(code, known) == [code |-> code, known |-> known]

-----------------------------------------------------------------------------
(* What the shape of an expression tells. *)
RECURSIVE StructOf(_, _), Infer(_, _, _)

(* resolve_struct_type: the declared type of a variable, or of a field of  *)
(* one; nothing for the result of a call.                                  *)
StructOf(e, env) ==
  CASE e.kind = "var" -> env.vars[e.name].known.named
    [] e.kind = "field" ->
         LET of     == StructOf(e.args[1], env)
             fields == Fields(of)
             at     == {i \in DOMAIN fields : of # "" /\ fields[i][1] = e.name}
         IN IF at = {} THEN ""
            ELSE LET t == fields[CHOOSE i \in at : TRUE][2]
                 IN IF Head1(t) \in Declared THEN t[1] ELSE ""
    [] OTHER -> ""

FieldType(e, env) ==
  LET of     == StructOf(e.args[1], env)
      fields == Fields(of)
      at     == {i \in DOMAIN fields : of # "" /\ fields[i][1] = e.name}
  IN IF at = {} THEN None ELSE fields[CHOOSE i \in at : TRUE][2]

(* resolve_impl_method: the impl of the receiver's type, else the only     *)
(* impl that has the method, whatever the receiver is: the name of a       *)
(* module is also looked up as a receiver.                                 *)
ImplOf(e, env) ==
  LET own    == <<IF e.kind = "call" THEN StructOf(e.args[1], env) ELSE "", e.name>>
      others == {k \in DOMAIN env.impls : k[2] = e.name}
  IN CASE own \in DOMAIN env.impls -> own
       [] others = {}              -> None
       [] Cardinality(others) = 1  -> CHOOSE k \in others : TRUE
       [] OTHER                    -> <<"ambiguous", e.name>>

\* the methods that are known to return the container they are called on
Chained(c) == CASE c \in {"Set", "LinkedMap", "LinkedSet"} -> {"insert"}
                [] c \in {"SortedMap", "SortedSet"}        -> {"insert", "remove"}
                [] OTHER                                   -> {}

Default(c) == IF c \in Keyed THEN <<c, String, Int>> ELSE <<c, Int>>

\* the container in the annotation or in the result type, without peeling
Wanted(c, env) ==
  CASE Head1(env.hint) = c -> env.hint
    [] Head1(env.ret) = c  -> env.ret
    [] OTHER               -> Default(c)

\* set.new: the set inside the annotation, inside the result type, or of Ints
NewSet(env) ==
  LET hinted == PeelTo("Set", env.hint)
      wanted == PeelTo("Set", env.ret)
  IN CASE hinted # None -> hinted
       [] wanted # None -> wanted
       [] OTHER         -> Default("Set")

(* infer_map_type ... infer_sorted_set_type: the container of kind c that  *)
(* an expression is, or None.                                              *)
Infer(c, e, env) ==
  CASE e.kind = "var" ->
         LET t == env.vars[e.name].known.gen IN IF Head1(t) = c THEN t ELSE None
    [] e.kind = "call" /\ e.name \in Chained(c) -> Infer(c, e.args[1], env)
    [] e.kind = "new" /\ Made(e.on) = c /\ c # "Map" ->
         IF c \in {"LinkedMap", "SortedMap"}
         THEN IF Head1(env.hint) = c THEN env.hint ELSE Default(c)
         ELSE Wanted(c, env)
    [] e.kind = "make" /\ c # "Map" -> IF Head1(e.type) = c THEN e.type ELSE None
    [] OTHER -> None

(* call_returns_type *)
CallReturns(e, t, env) ==
  CASE e.kind = "make"   -> e.type = t
    [] e.kind = "module" -> LET f == Function(e.on, e.name) IN f # None /\ f[2] = t
    [] e.kind = "call"   -> LET m == ImplOf(e, env)
                            IN m \in DOMAIN env.impls /\ env.impls[m] = t
    [] OTHER -> FALSE

IsString(e, env) ==
  CASE e.kind = "lit"   -> e.type = String
    [] e.kind = "show"  -> TRUE
    [] e.kind = "var"   -> env.vars[e.name].known.str
    [] e.kind = "field" -> FieldType(e, env) = String
    [] OTHER            -> CallReturns(e, String, env)

IsFloat(e, env) ==
  CASE e.kind = "lit"   -> e.type = Float
    [] e.kind = "var"   -> env.vars[e.name].known.flt
    [] e.kind = "field" -> FieldType(e, env) = Float
    [] OTHER            -> CallReturns(e, Float, env)

(* expr_struct_type: what a let learns from the expression it binds. *)
StructBound(e, env) ==
  CASE e.kind = "ctor" -> e.name
    [] e.kind = "make" -> IF Head1(e.type) \in Declared THEN e.type[1] ELSE ""
    [] e.kind = "call" /\ e.name = "copy" -> StructOf(e.args[1], env)
    [] e.kind \in {"call", "module"} ->
         LET m == ImplOf(e, env)
         IN IF m \in DOMAIN env.impls /\ Head1(env.impls[m]) \in Declared
            THEN env.impls[m][1] ELSE ""
    [] e.kind = "var" -> env.vars[e.name].known.named
    [] OTHER -> ""

-----------------------------------------------------------------------------
(* infer_expr_type: the type where one is needed to choose an operation.   *)
RECURSIVE InferType(_, _)
InferList(e, env) ==
  CASE e.kind = "var" ->
         LET t == env.vars[e.name].known.gen IN IF Head1(t) = "List" THEN t ELSE None
    [] e.kind = "list" -> InferType(e, env)
    [] OTHER -> None

InferVar(known) ==
  CASE known.flt         -> Float
    [] known.str         -> String
    [] known.gen # None  -> known.gen
    [] known.named # ""  -> <<known.named>>
    [] OTHER             -> None

OrInt(t) == IF t = None THEN Int ELSE t

InferCall_KeyForValue(e, env) ==
  LET gen == IF e.args[1].kind = "var" THEN env.vars[e.args[1].name].known.gen ELSE None
  IN IF Head1(gen) \in {"Map", "LinkedMap"} /\ e.name = "get" THEN Option(gen[2]) ELSE None

InferCall(e, env) ==
  LET obj == e.args[1]
      gen == IF obj.kind = "var" THEN env.vars[obj.name].known.gen ELSE None
      str == StringFunction(e.name)
  IN CASE e.name = "copy" -> InferType(obj, env)
       [] IsString(obj, env) /\ "string" \in env.imports /\ str # None -> str[2]
       [] Head1(gen) \in {"Map", "LinkedMap"} /\ e.name = "contains_key" -> Bool
       [] Head1(gen) \in {"Set", "LinkedSet"} /\ e.name = "contains"     -> Bool
       [] Head1(gen) \in {"Map", "Set", "List", "LinkedMap", "LinkedSet"} /\ e.name = "len" -> Int
       [] Head1(gen) \in {"Map", "LinkedMap"} /\ e.name = "get" -> Option(gen[3])
       [] Head1(gen) = "List" /\ e.name = "get" -> Option(gen[2])
       [] OTHER -> None

InferType(e, env) ==
  CASE e.kind = "lit"    -> e.type
    [] e.kind = "show"   -> String
    [] e.kind = "var"    -> InferVar(env.vars[e.name].known)
    [] e.kind = "list"   -> List(OrInt(InferType(e.args[1], env)))
    [] e.kind = "pairs"  -> List(<<"Tuple", OrInt(InferType(e.args[1], env)),
                                            OrInt(InferType(e.args[2], env))>>)
    [] e.kind = "make"   -> e.type
    [] e.kind = "ctor"   -> <<e.name>>
    [] e.kind = "new" /\ e.on = "set" -> NewSet(env)
    [] e.kind = "module" -> LET f == Function(e.on, e.name) IN IF f = None THEN None ELSE f[2]
    [] e.kind = "call"   -> InferCall(e, env)
    [] e.kind = "field"  -> FieldType(e, env)
    [] OTHER -> None

-----------------------------------------------------------------------------
(* The chain of rules that takes a call (lower_call), and the code each    *)
(* emits.                                                                  *)

\* the operations of a container by their method's name
ElementNames == {"insert", "remove", "contains"}

Takes(c, m, n) ==
  \/ c \in Keyed /\ m = "insert" /\ n = 2
  \/ c \in Keyed /\ m \in {"remove", "get", "contains_key"} /\ n = 1
  \/ c \in Elements /\ m \in ElementNames /\ n = 1

\* the order in which len asks what its receiver is
LenOrder == <<"List", "Map", "Set", "LinkedMap", "LinkedSet", "SortedMap", "SortedSet">>

\* the rules for a method call, in the order of lower_call
RuleOrder == <<"Map", "len", "Set", "LinkedMap", "LinkedSet", "SortedMap", "SortedSet",
               "list get", "ok_or", "copy", "impl", "string", "plain">>

\* the functions on strings that are there without an import
Intrinsic(f) ==
  CASE f \in {"parse_int", "byte_at"} -> Int
    [] f = "split"                    -> None
    [] OTHER -> LET s == StringFunction(f) IN IF s = None THEN None ELSE s[2]

OfKind(c, obj, env) == IF c = "List" THEN InferList(obj, env) ELSE Infer(c, obj, env)

Applies(rule, e, env) ==
  LET obj == e.args[1]
      n   == Len(e.args) - 1
  IN CASE rule \in Containers -> Takes(rule, e.name, n) /\ Infer(rule, obj, env) # None
       [] rule = "len"      -> /\ e.name = "len" /\ n = 0
                               /\ \E i \in DOMAIN LenOrder : OfKind(LenOrder[i], obj, env) # None
       [] rule = "list get" -> e.name = "get" /\ n = 1 /\ InferList(obj, env) # None
       [] rule = "ok_or"    -> e.name = "ok_or" /\ n = 1
       [] rule = "copy"     -> e.name = "copy" /\ StructOf(obj, env) \in Declared \ DataTypes
       [] rule = "impl"     -> ImplOf(e, env) # None
       [] rule = "string"   -> IsString(obj, env)
       [] OTHER             -> TRUE

\* the first rule that applies: plain applies to every call
RuleFor(e, env) ==
  SelectSeq(RuleOrder, LAMBDA rule : Applies(rule, e, env))[1]

-----------------------------------------------------------------------------
RECURSIVE Lower(_, _)

Codes(args, env) == [i \in DOMAIN args |-> Lower(args[i], env).code]

LowerContainer_KeyForValue(c, t, e, env) ==
  Lowered(Code(<<c, e.name>>, Args(t), Codes(e.args, env)),
          IF e.name = "get" THEN KnownGen(Option(t[2])) ELSE Known(TRUE, FALSE, t, "", None))

(* A method of a container: the handle in the container's struct, the      *)
(* arguments, the runtime's function for the types, and a new struct.      *)
LowerContainer(c, t, e, env) ==
  Lowered(Code(<<c, e.name>>, Args(t), Codes(e.args, env)),
    CASE e.name \in {"insert", "remove"} -> Known(TRUE, FALSE, t, "", None)
      [] e.name = "get"                  -> KnownGen(Option(t[3]))
      [] OTHER                           -> Nothing)

LowerLen(e, env) ==
  LET c == SelectSeq(LenOrder, LAMBDA k : OfKind(k, e.args[1], env) # None)[1]
  IN Lowered(Code(<<c, "len">>, Args(OfKind(c, e.args[1], env)), Codes(e.args, env)), Nothing)

LowerListGet(t, e, env) ==
  Lowered(Code(<<"List", "get">>, Args(t), Codes(e.args, env)), KnownGen(Option(t[2])))

(* ok_or lowers its receiver first, to learn from the temporary what it    *)
(* is; the error is the type of the argument, or of the enclosing result.  *)
OkOrError(given, arg, env) ==
  CASE given # None              -> given
    [] arg.known.named # ""      -> <<arg.known.named>>
    [] Head1(env.ret) = "Result" -> env.ret[3]
    [] OTHER                     -> <<"the prelude's Error">>

OkOr(opt, err, codes) ==
  IF Head1(opt) # "Option" THEN Lowered(Undefined, Nothing)
  ELSE Lowered(Code(<<"ok_or">>, <<opt[2], err>>, codes), KnownGen(Result(opt[2], err)))

LowerOkOr(e, env) ==
  LET obj == Lower(e.args[1], env)
      arg == Lower(e.args[2], env)
  IN OkOr(IF obj.known.gen # None THEN obj.known.gen ELSE InferType(e.args[1], env),
          OkOrError(InferType(e.args[2], env), arg, env), <<obj.code, arg.code>>)

(* lower_copy: the fields that a label names, the others from the value.   *)
LowerCopy(e, env) ==
  LET obj    == Lower(e.args[1], env)
      name   == StructOf(e.args[1], env)
      fields == Fields(name)
      given(f) == {i \in 2..Len(e.args) : e.labels[i] = f}
  IN IF Len(e.args) = 1 THEN obj
     ELSE Lowered(Code(<<"struct", name>>, <<>>,
            [j \in DOMAIN fields |->
               IF given(fields[j][1]) # {}
               THEN Lower(e.args[CHOOSE i \in given(fields[j][1]) : TRUE], env).code
               ELSE Code(<<"field", fields[j][1]>>, <<<<name>>>>, <<obj.code>>)]), Nothing)

(* A call of an impl's function; the name of a module is no value that     *)
(* could be passed as self.                                                *)
LowerImpl(m, e, env) ==
  IF m \notin DOMAIN env.impls \/ e.kind = "module" THEN Lowered(Undefined, Nothing)
  ELSE Lowered(Code(<<"impl", m[1], m[2]>>, <<>>, Codes(e.args, env)), KnownResult(env.impls[m]))

(* A method on a string is the function of the module, or the intrinsic    *)
(* when the module is not imported.                                        *)
LowerString(e, env) ==
  LET exported == IF StringFunction(e.name) = None THEN None ELSE StringFunction(e.name)[2]
      f == IF "string" \in env.imports THEN exported ELSE Intrinsic(e.name)
  IN IF f = None THEN Lowered(Refused, Nothing)
     ELSE Lowered(Code(<<IF f = exported THEN "string" ELSE "intrinsic", e.name>>, <<>>,
                       Codes(e.args, env)), KnownResult(f))

\* what no rule takes is a call of a function named <receiver>.<method>
LowerUnknown == Lowered(Undefined, Nothing)

LowerBy(rule, e, env) ==
  CASE rule \in Containers -> LowerContainer(rule, Infer(rule, e.args[1], env), e, env)
    [] rule = "len"        -> LowerLen(e, env)
    [] rule = "list get"   -> LowerListGet(InferList(e.args[1], env), e, env)
    [] rule = "ok_or"      -> LowerOkOr(e, env)
    [] rule = "copy"       -> LowerCopy(e, env)
    [] rule = "impl"       -> LowerImpl(ImplOf(e, env), e, env)
    [] rule = "string"     -> LowerString(e, env)
    [] OTHER               -> LowerUnknown

LowerMethod(e, env) == LowerBy(RuleFor(e, env), e, env)

-----------------------------------------------------------------------------
(* The constructors of empty containers. *)
LowerNew(t) == Lowered(Code(<<t[1], "new">>, Args(t), <<>>), Known(TRUE, FALSE, t, "", None))

\* an empty map, and one insert for each of the pairs <<k, v, k, v, ...>>
RECURSIVE Inserts(_, _)
Inserts(t, kvs) ==
  IF kvs = <<>> THEN Code(<<"LinkedMap", "new">>, Args(t), <<>>)
  ELSE LET n == Len(kvs)
       IN Code(<<"LinkedMap", "insert">>, Args(t),
               <<Inserts(t, SubSeq(kvs, 1, n - 2)), kvs[n - 1], kvs[n]>>)

\* the tuples of a list of pairs, each of its own types
TupleCodes(ts, kvs) ==
  [i \in 1..(Len(kvs) \div 2) |->
     Code(<<"tuple">>, <<ts[2 * i - 1], ts[2 * i]>>, <<kvs[2 * i - 1], kvs[2 * i]>>)]

(* LinkedMap.from *)
LowerFrom(e, env) ==
  LET t     == Wanted("LinkedMap", env)
      pairs == e.args[1]
  IN Lowered(Inserts(t, IF pairs.kind = "pairs" THEN Codes(pairs.args, env) ELSE <<>>),
             Known(TRUE, FALSE, t, "", None))

(* The arguments of a constructor, by their labels and then in order. *)
CtorArg(e, j) ==
  LET fields == Fields(e.name)
      named  == {i \in DOMAIN e.args : e.labels[i] = fields[j][1]}
      \* those that the fields before have taken
      RECURSIVE taken(_)
      taken(k) == IF k = 0 THEN {}
                  ELSE LET before == taken(k - 1)
                           own    == {i \in DOMAIN e.args \ before : e.labels[i] = fields[k][1]}
                           free   == DOMAIN e.args \ before
                           least(s) == CHOOSE i \in s : \A x \in s : i <= x
                       IN IF own # {} THEN before \union {least(own)}
                          ELSE IF free # {} THEN before \union {least(free)} ELSE before
  IN taken(j) \ taken(j - 1)

LowerCtor(e, env) ==
  Lowered(Code(<<"struct", e.name>>, <<>>,
            [j \in DOMAIN Fields(e.name) |->
               IF CtorArg(e, j) = {} THEN Code(<<"const">>, <<Unit>>, <<>>)
               ELSE Lower(e.args[CHOOSE i \in CtorArg(e, j) : TRUE], env).code]),
          Nothing)

-----------------------------------------------------------------------------
(* A function of a module.  The rule for impls comes first; list.len, get  *)
(* and push of a variable known to be a list of anything but Int become    *)
(* the operations on lists; assert.eq and assert.ne become the function    *)
(* for the type of their first argument.                                   *)
Redirected(e, env) ==
  LET gen == IF e.args[1].kind = "var" THEN env.vars[e.args[1].name].known.gen ELSE None
  IN /\ e.on = "list" /\ e.name \in {"len", "get", "push"} /\ e.args # <<>>
     /\ gen # None /\ ~(Head1(gen) = "List" /\ gen[2] = Int)
     /\ Len(e.args) = (IF e.name = "len" THEN 1 ELSE 2)

LowerRedirected(e, env) ==
  LET gen  == env.vars[e.args[1].name].known.gen
      elem == IF Head1(gen) = "List" THEN gen[2] ELSE Int
  IN Lowered(Code(<<"List", e.name>>, IF e.name = "len" THEN Args(gen) ELSE <<elem>>, Codes(e.args, env)),
       CASE e.name = "get"  -> KnownGen(Option(elem))
         [] e.name = "push" -> KnownGen(List(elem))
         [] OTHER           -> Nothing)

AssertVariant(f, t) == CASE t = String -> f \o "_str"
                         [] t = Bool   -> f \o "_bool"
                         [] OTHER      -> f

LowerAssert(e, env) ==
  Lowered(Code(<<"assert", AssertVariant(e.name, InferType(e.args[1], env))>>, <<>>, Codes(e.args, env)),
          KnownGen(Result(Unit, String)))

LowerFunction(f, e, env) ==
  IF f = None THEN Lowered(Refused, Nothing)
  ELSE Lowered(Code(<<e.on, e.name>>, <<>>, Codes(e.args, env)), KnownResult(f[2]))

LowerModule(e, env) ==
  CASE ImplOf(e, env) # None -> LowerImpl(ImplOf(e, env), e, env)
    [] Redirected(e, env)    -> LowerRedirected(e, env)
    [] e.on = "assert" /\ e.name \in {"eq", "ne"} /\ Len(e.args) = 2 -> LowerAssert(e, env)
    [] OTHER -> LowerFunction(Function(e.on, e.name), e, env)

(* "#{e}": how the value is written follows from what the expression looks *)
(* like (the lowering of interpolation, and emit_adt_display).             *)
Shown(t, how, codes) ==
  Lowered(IF OptionShown(t) THEN Code(<<"show", "option">>, Args(t), codes)
          ELSE Code(<<"show", how>>, <<>>, codes), Nothing)

LowerShow(e, env) ==
  Shown(InferType(e.args[1], env),
        CASE IsString(e.args[1], env) -> "%s"
          [] IsFloat(e.args[1], env)  -> "%g"
          [] OTHER                    -> "%ld",
        Codes(e.args, env))

LowerField(e, env) ==
  LET t == FieldType(e, env) IN
  IF t = None THEN Lowered(Undefined, Nothing)
  ELSE Lowered(Code(<<"field", e.name>>, <<<<StructOf(e.args[1], env)>>>>, Codes(e.args, env)),
               KnownResult(t))

Lower(e, env) ==
  CASE e.kind = "lit"  -> Lowered(Code(<<"const">>, <<e.type>>, <<>>),
                                  IF Head1(e.type) = "Fn" THEN Known(FALSE, FALSE, None, "", e.type)
                                                          ELSE Nothing)
    [] e.kind = "var"  -> Lowered(Code(<<"var", e.name>>, <<>>, <<>>),
                                  env.vars[e.name].known)
    [] e.kind = "make" -> Lowered(Code(<<"make">>, <<e.type>>, <<>>), KnownPlain(e.type))
    [] e.kind = "list" ->
         LET elem == OrInt(InferType(e.args[1], env))
         IN Lowered(Code(<<"list">>, <<elem>>, Codes(e.args, env)), KnownGen(List(elem)))
    [] e.kind = "pairs" ->
         LET ts == [i \in DOMAIN e.args |-> OrInt(InferType(e.args[i], env))]
             t  == <<"Tuple", ts[1], ts[2]>>
         IN Lowered(Code(<<"list">>, <<t>>, TupleCodes(ts, Codes(e.args, env))), KnownGen(List(t)))
    [] e.kind = "new"    -> LowerNew(IF e.on = "set" THEN NewSet(env) ELSE Wanted(e.on, env))
    [] e.kind = "from"   -> LowerFrom(e, env)
    [] e.kind = "field"  -> LowerField(e, env)
    [] e.kind = "ctor"   -> LowerCtor(e, env)
    [] e.kind = "show"   -> LowerShow(e, env)
    [] e.kind = "module" -> LowerModule(e, env)
    [] OTHER             -> LowerMethod(e, env)
=============================================================================
