----------------------------- MODULE Comparisons -----------------------------
(***************************************************************************)
(* Declared types and the operators on them: the abilities a type derives  *)
(* from its fields (tyra-types/src/checker.rs, collect_top_level_types,    *)
(* pass 2), which operators the checker accepts (infer_binop), what        *)
(* tyra-mir makes of an operator (lower_value_type_binop,                  *)
(* ast_binop_to_mir), and what the native program (emit_binop,             *)
(* emit_adt_compare) and the interpreter (eval_binop) answer.              *)
(*                                                                         *)
(* A type is a name with arguments.  A declaration has one list of fields, *)
(* or, if it is an ADT, one for each variant.  A value has the number of   *)
(* its variant, or itself if it is a scalar, as head, and its fields.      *)
(* Strings, Floats and Bools are numbers in the order of their kind.       *)
(*                                                                         *)
(* A program's matches and its operators do not touch one another: a       *)
(* behaviour of this module follows one match or one operator.             *)
(***************************************************************************)
EXTENDS MatchArms, Integers, SequencesExt

CONSTANTS
  Programs,   \* [decls : sequence of declarations, asks : types operators are used on]
  Width,      \* bound: bits of an Int
  Depth       \* bound: how deep a value is

VARIABLES
  decls,      \* [name, kind, mutable, variants], in the order of the file
  asks,       \* the types operators are used on
  abilities,  \* name -> the abilities it has as far as is known
  turn,       \* the declaration whose abilities are derived next
  changed,    \* this pass has changed something
  question    \* <<>>, or the expression compiled and its code, <<>> if it is reported

typeVars == <<decls, asks, abilities, turn, changed, question>>

Type(name, args) == [name |-> name, args |-> args]
Plain(name)      == Type(name, <<>>)
TInt   == Plain("Int")
TBool  == Plain("Bool")
TFloat == Plain("Float")
TString == Plain("String")

Abilities == {"Eq", "Hash", "Ord", "Debug"}
Primitive == {"Int", "Bool", "String", "Unit"}
Wrappers  == {"Option", "Result"}

Arithmetic == {"+", "-", "*", "/"}
Equality   == {"==", "!="}
Ordering     == {"<", "<=", ">", ">="}
Logical    == {"and", "or"}
Unary      == {"neg", "not"}
Operators  == Arithmetic \cup Equality \cup Ordering \cup Logical \cup Unary \cup {"%", "==="}

Names == {decls[i].name : i \in DOMAIN decls}
DeclOf(name) == decls[CHOOSE i \in DOMAIN decls : decls[i].name = name]
AllFields(d) == FlattenSeq(d.variants)

-----------------------------------------------------------------------------
(* The checker.  An operand is a variable, a field of one, or a call.      *)

Shapes == {"var", "field", "call"}

RECURSIVE HasAbility(_, _, _)
HasAbility(known, t, x) ==
  CASE t.name \in Primitive -> TRUE
    [] t.name = "Float"     -> x = "Debug"
    [] t.name \in Wrappers  -> x # "Ord" /\ \A i \in DOMAIN t.args : HasAbility(known, t.args[i], x)
    [] OTHER                -> t.name \in DOMAIN known /\ x \in known[t.name]

\* Ord only for a value with one field, Hash not with a field that is mut.
Derived(known, d) ==
  LET fields == AllFields(d)
  IN  {x \in Abilities : \A i \in DOMAIN fields : HasAbility(known, fields[i], x)}
      \ ((IF d.kind = "value" /\ Len(fields) = 1 THEN {} ELSE {"Ord"})
         \cup (IF d.mutable THEN {"Hash"} ELSE {}))

\* Named and Generic types; the others have operators built in, or none.
Nominal(t) == t.name \notin Primitive \cup {"Float", "Fn"}

WellTyped(op, l, r) ==
  CASE op \in Arithmetic -> l = r /\ l \in {TInt, TFloat}
    [] op = "%"          -> l = TInt /\ r = TInt
    [] op \in Equality   -> /\ TFloat \notin {l, r} /\ l = r
                            /\ Nominal(l) => HasAbility(abilities, l, "Eq")
    [] op = "==="        -> l = r
    [] op \in Ordering     -> /\ l = r
                            /\ \/ l \in {TInt, TFloat}
                               \/ Nominal(l) /\ HasAbility(abilities, l, "Ord")
    [] op \in Logical    -> l = TBool /\ r = TBool
    [] op = "neg"        -> l \in {TInt, TFloat}
    [] op = "not"        -> l = TBool

\* The type of a field is not looked up: nothing is said of one, nor of what
\* it stands beside.
Accepts(op, l, r, shapes) == "field" \in ToSet(shapes) \/ WellTyped(op, l, r)

-----------------------------------------------------------------------------
(* The lowering.                                                           *)

\* resolve_struct_type: what a call returns is not looked up.
Resolved(t, shape) == /\ shape \in {"var", "field"}
                      /\ t.name \in Names /\ DeclOf(t.name).kind \in {"value", "data"}

Mir(does, on) == [does |-> does, on |-> on]

AstBinop(op, isFloat) ==
  Mir(IF op = "===" THEN "==" ELSE op,
      IF isFloat /\ op \in Arithmetic \cup Ordering THEN "Float" ELSE "Int")

\* field: the one compared, 0 for the operands themselves.
Once(mir, i) == [conds |-> <<[mir |-> mir, field |-> i]>>, negated |-> FALSE]

FieldByField_FirstOnly(fields, op) ==
  [conds   |-> [i \in DOMAIN fields \cap {1} |->
                  [mir |-> Mir("==", IF fields[i] = TString THEN "String" ELSE "Int"), field |-> i]],
   negated |-> op = "!="]

FieldByField(fields, op) ==
  [conds   |-> [i \in DOMAIN fields |->
                  [mir |-> Mir("==", IF fields[i] = TString THEN "String" ELSE "Int"), field |-> i]],
   negated |-> op = "!="]

Lower(op, t, u, shapes) ==
  LET fields  == DeclOf(t.name).variants[1]
      struct  == t = u /\ Resolved(t, shapes[1]) /\ Resolved(u, shapes[2])
      isFloat == TFloat \in {t, u}
  IN  IF op \in Equality /\ TString \in {t, u} THEN Once(Mir(op, "String"), 0)
      ELSE IF op \in Equality /\ struct /\ TFloat \notin ToSet(fields) THEN FieldByField(fields, op)
      ELSE IF op \in Ordering /\ struct /\ Len(fields) = 1 THEN Once(AstBinop(op, fields[1] = TFloat), 1)
      ELSE Once(AstBinop(op, isFloat), 0)

-----------------------------------------------------------------------------
(* Numbers.  An outcome is the set of the values there may be; it is empty *)
(* if the compiler or the program stops.                                   *)

Least == - 2 ^ (Width - 1)
Ints  == Least .. - Least - 1
Wrap(n) == ((n - Least) % 2 ^ Width) + Least

Magnitude(n) == IF n < 0 THEN - n ELSE n
Quotient(a, b) == LET q == Magnitude(a) \div Magnitude(b) IN IF (a < 0) = (b < 0) THEN q ELSE - q
Divides(a, b) == b # 0 /\ ~ (a = Least /\ b = -1)

Truth(p) == IF p THEN 1 ELSE 0

\* Operators on numbers; division only where it divides.
Answer(does, a, b) ==
  CASE does = "+"  -> a + b
    [] does = "-"  -> a - b
    [] does = "*"  -> a * b
    [] does = "/"  -> Quotient(a, b)
    [] does = "%"  -> a - b * Quotient(a, b)
    [] does = "==" -> Truth(a = b)
    [] does = "!=" -> Truth(a # b)
    [] does = "<"  -> Truth(a < b)
    [] does = "<=" -> Truth(a <= b)
    [] does = ">"  -> Truth(a > b)
    [] does = ">=" -> Truth(a >= b)
    [] does = "and" -> Truth(a = 1 /\ b = 1)
    [] does = "or"  -> Truth(a = 1 \/ b = 1)
    [] does = "neg" -> - a
    [] does = "not" -> 1 - a

-----------------------------------------------------------------------------
(* The native program.                                                     *)

IsDeclared(t, kinds) == t.name \in Names /\ DeclOf(t.name).kind \in kinds
Tagged(t) == t.name \in Wrappers \/ IsDeclared(t, {"adt"})
IsData(t) == IsDeclared(t, {"data"})

VariantsOf(t) == CASE t.name = "Option" -> <<<<t.args[1]>>, <<>>>>
                   [] t.name = "Result" -> <<<<t.args[1]>>, <<t.args[2]>>>>
                   [] OTHER             -> DeclOf(t.name).variants

\* The fields of the struct a type becomes: the tag, then those of every variant.
Slots(t) == (IF Tagged(t) THEN <<Plain("tag")>> ELSE <<>>) \o FlattenSeq(VariantsOf(t))
\* Where those of a variant begin.
Offset(t, variant) ==
  IF Tagged(t) THEN 1 + Len(FlattenSeq(SubSeq(VariantsOf(t), 1, variant - 1))) ELSE 0

\* An ADT whose variants have no fields is its tag.
HasStruct(t) == \/ t.name \in Wrappers \/ IsDeclared(t, {"value", "data"})
                \/ IsDeclared(t, {"adt"}) /\ FlattenSeq(VariantsOf(t)) # <<>>

\* A field of the ADT's own type is a pointer.
Recursive(t, i) == IsDeclared(t, {"adt"}) /\ Slots(t)[i].name = t.name

Layout(t) == CASE t.name \in {"String", "Fn"} \/ IsData(t) -> "ptr"
               [] HasStruct(t)  -> "struct"
               [] t = TFloat    -> "float"
               [] t = TBool     -> "bit"
               [] OTHER         -> "int"
SlotLayout(t, i) == IF Recursive(t, i) THEN "ptr" ELSE Layout(Slots(t)[i])

Word(layout, n, fields) == [layout |-> layout, n |-> n, fields |-> fields]
Zero(layout) == Word(layout, IF layout = "ptr" THEN -1 ELSE 0, <<>>)

RECURSIVE Native(_, _)
Native(t, v) ==
  IF ~ HasStruct(t) THEN Word(Layout(t), v.head, <<>>)
  ELSE LET from == Offset(t, v.head)
       IN  Word(Layout(t), 0,
             [i \in DOMAIN Slots(t) |->
                CASE Tagged(t) /\ i = 1           -> Word("int", v.head, <<>>)
                  [] i - from \notin DOMAIN v.args -> Zero(SlotLayout(t, i))
                  [] Recursive(t, i)              -> Word("ptr", 0, <<>>)
                  [] OTHER                        -> Native(Slots(t)[i], v.args[i - from])])

IsInt(w) == w.layout \in {"int", "bit"}
\* One bit, read as a number with a sign, is 0 or -1.
Signed(w) == IF w.layout = "bit" THEN - w.n ELSE w.n

\* Undefined where it does not divide.
OnInts(does, l, r) ==
  CASE ~ IsInt(l) \/ ~ IsInt(r)                     -> {}
    [] does \in {"/", "%"} /\ ~ Divides(l.n, r.n)   -> Ints
    [] does \in Ordering                              -> {Answer(does, Signed(l), Signed(r))}
    [] does \in Arithmetic \cup {"neg"}             -> {Wrap(Answer(does, l.n, r.n))}
    [] OTHER                                        -> {Answer(does, l.n, r.n)}

EmitBinop(mir, l, r) ==
  CASE mir.does = "neg" /\ l.layout = "float" -> {Answer("neg", l.n, r.n)}
    [] mir.on = "Int"    -> OnInts(mir.does, l, r)
    [] mir.on = "Float"  -> IF {l.layout, r.layout} = {"float"} THEN {Answer(mir.does, l.n, r.n)} ELSE {}
    [] mir.on = "String" -> {Answer(mir.does, l.n, r.n)}

\* Field by field, the first always taken for the tag; by the first alone if
\* there is a field it cannot compare.
AdtCompare(t, does, l, r) ==
  LET text(i)   == i # 1 /\ Slots(t)[i] = TString
      opaque    == {i \in DOMAIN Slots(t) : i # 1 /\ ~ text(i) /\ SlotLayout(t, i) \in {"ptr", "struct"}}
      looked    == IF opaque = {} THEN DOMAIN Slots(t) ELSE {1}
      stops     == \E i \in looked : ~ text(i) /\ ~ IsInt(l.fields[i])
      same      == \A i \in looked : l.fields[i].n = r.fields[i].n
  IN  IF l.layout # "struct" \/ stops THEN {} ELSE {Truth(same = (does = "=="))}

\* What type_scan knows to be a struct; of a field only a declared type.
StructTemp(t, shape) == /\ HasStruct(t) /\ ~ IsData(t)
                        /\ shape = "field" => t.name \in Names

EmitCond(cond, t, shapes, l, r) ==
  IF cond.mir.on = "Int" /\ cond.mir.does \in Equality /\ \E i \in DOMAIN shapes : StructTemp(t, shapes[i])
  THEN AdtCompare(t, cond.mir.does, l, r) ELSE EmitBinop(cond.mir, l, r)

\* Both sides are computed, one condition after the other.
Conjunction(outcomes) ==
  IF {} \in ToSet(outcomes) THEN {} ELSE {Truth(\A i \in DOMAIN outcomes : outcomes[i] = {1})}

Outcome(code, outcomes) ==
  IF Len(outcomes) = 1 /\ ~ code.negated THEN outcomes[1]
  ELSE {IF code.negated THEN 1 - x ELSE x : x \in Conjunction(outcomes)}

RunNative(q, l, r) ==
  LET nl == Native(q.type, l)  nr == Native(q.type, r)
      cond(c) == IF c.field = 0 THEN EmitCond(c, q.type, q.shapes, nl, nr)
                 ELSE EmitCond(c, Slots(q.type)[c.field], <<"field", "field">>, nl.fields[c.field], nr.fields[c.field])
  IN  Outcome(q.code, [i \in DOMAIN q.code.conds |-> cond(q.code.conds[i])])

-----------------------------------------------------------------------------
(* The interpreter.                                                        *)

RECURSIVE Held(_, _)
Held(t, v) ==
  CASE t \in {TBool, TFloat, TString} -> Word(t.name, v.head, <<>>)
    [] t.name = "Fn"      -> Word("Closure", v.head, <<>>)
    [] ~ HasStruct(t)     -> Word("Int", v.head, <<>>)
    [] Tagged(t)          -> Word("Struct", 0, <<Word("Int", v.head, <<>>)>>
                               \o [i \in DOMAIN v.args |-> Held(VariantsOf(t)[v.head][i], v.args[i])])
    [] OTHER              -> Word(IF IsData(t) THEN "DataRef" ELSE "Struct", 0,
                               [i \in DOMAIN v.args |-> Held(Slots(t)[i], v.args[i])])

\* A Bool is a number where one is asked for; any other kind of value stops.
\* Negation of the least number wraps, or stops in a build that checks.
EvalBinop(mir, l, r) ==
  LET are(kinds) == l.layout \in kinds /\ r.layout \in kinds
      does == mir.does
  IN  CASE does \in Logical \cup {"not"} -> IF are({"Bool"}) THEN {Answer(does, l.n, r.n)} ELSE {}
        [] mir.on = "Float" \/ (does = "neg" /\ are({"Float"})) ->
             IF are({"Float"}) THEN {Answer(does, l.n, r.n)} ELSE {}
        [] mir.on = "String" -> IF are({"String"}) THEN {Answer(does, l.n, r.n)} ELSE {}
        [] ~ are({"Int", "Bool"}) -> {}
        [] does \in {"/", "%"} /\ ~ Divides(l.n, r.n) -> {}
        [] does \in Arithmetic \cup {"neg"} -> {Wrap(Answer(does, l.n, r.n))}
        [] OTHER -> {Answer(does, l.n, r.n)}

Interpreted(q, l, r) ==
  LET hl == Held(q.type, l)  hr == Held(q.type, r)
      cond(c) == IF c.field = 0 THEN EvalBinop(c.mir, hl, hr)
                 ELSE EvalBinop(c.mir, hl.fields[c.field], hr.fields[c.field])
  IN  Outcome(q.code, [i \in DOMAIN q.code.conds |-> cond(q.code.conds[i])])

-----------------------------------------------------------------------------
InitTypes == /\ \E p \in Programs : decls = p.decls /\ asks = p.asks
             /\ abilities = [name \in Names |-> Abilities]
             /\ turn = 1
             /\ changed = FALSE
             /\ question = <<>>

Derive == /\ turn \in DOMAIN decls
          /\ LET d == decls[turn]
             IN  /\ abilities' = [abilities EXCEPT ![d.name] = Derived(abilities, d)]
                 /\ changed' = (changed \/ abilities' # abilities)
          /\ turn' = turn + 1
          /\ UNCHANGED <<decls, asks, question>>

\* A pass is over: another one if it has changed something.
NextPass == /\ turn = Len(decls) + 1 /\ changed
            /\ turn' = 1
            /\ changed' = FALSE
            /\ UNCHANGED <<decls, asks, abilities, question>>

Settled_OnePass == turn = Len(decls) + 1

Settled == turn = Len(decls) + 1 /\ ~ changed

\* The checker reports the expression, or it is compiled.
Refuse(op, t, u, shapes) ==
  /\ Settled /\ question = <<>>
  /\ ~ Accepts(op, t, u, shapes)
  /\ question' = <<[op |-> op, type |-> t, other |-> u, accepted |-> FALSE]>>
  /\ UNCHANGED <<decls, asks, abilities, turn, changed>>

Compile(op, t, u, shapes) ==
  /\ Settled /\ question = <<>>
  /\ Accepts(op, t, u, shapes)
  /\ question' = <<[op |-> op, type |-> t, other |-> u, accepted |-> TRUE,
                    shapes |-> shapes, code |-> Lower(op, t, u, shapes)]>>
  /\ UNCHANGED <<decls, asks, abilities, turn, changed>>

NextTypes == \/ Derive
             \/ NextPass
             \/ \E op \in Operators, t \in asks, u \in asks, l \in Shapes, r \in Shapes :
                  /\ op \in Unary => t = u /\ l = r
                  /\ \/ Refuse(op, t, u, <<l, r>>)
                     \/ Compile(op, t, u, <<l, r>>)
-----------------------------------------------------------------------------
(* A match or an operator.                                                 *)

OneMatch == /\ Init
            /\ decls = <<>> /\ asks = {} /\ abilities = <<>> /\ turn = 1
            /\ changed = FALSE /\ question = <<>>
OneOperator == /\ InitTypes
               /\ type = "Bool" /\ arms = <<Wild>> /\ subject = [head |-> "true", args |-> <<>>]
               /\ hoisted = FALSE /\ at = 1 /\ pc = "done" /\ slots = {}

InitBoth == OneMatch \/ OneOperator
NextBoth == (Next /\ UNCHANGED typeVars) \/ (NextTypes /\ UNCHANGED vars)
SpecBoth == InitBoth /\ [][NextBoth]_<<vars, typeVars>>
-----------------------------------------------------------------------------
(* Properties.                                                             *)

Parts(t) == IF t.name \in Names THEN ToSet(AllFields(DeclOf(t.name))) ELSE ToSet(t.args)

\* The types that make up those of ts.
RECURSIVE Within(_)
Within(ts) == LET more == ts \cup UNION {Parts(t) : t \in ts} IN IF more = ts THEN ts ELSE Within(more)

\* What a type itself lets its values have, whatever its parts are.
Allows(t, x) ==
  CASE t.name \in Primitive -> TRUE
    [] t = TFloat           -> x = "Debug"
    [] t.name \in Wrappers  -> x # "Ord"
    [] t.name \in Names     ->
         /\ (x = "Ord" => DeclOf(t.name).kind = "value" /\ Len(AllFields(DeclOf(t.name))) = 1)
         /\ (x = "Hash" => ~ DeclOf(t.name).mutable)
    [] OTHER -> FALSE

\* When the passes have ended a type has an ability exactly if it and all the
\* types it is made of allow it, whatever the order of the declarations and
\* through any recursion (collect_top_level_types).
AbilitiesAreDerived ==
  (Settled /\ question = <<>>) =>
    \A n \in Names : abilities[n] = {x \in Abilities : \A t \in Within({Plain(n)}) : Allows(t, x)}

RECURSIVE ValuesOf(_, _)
ValuesOf(t, depth) ==
  IF t.name \in {"Int", "Bool", "String", "Float", "Fn"} THEN {[head |-> n, args |-> <<>>] : n \in 0 .. 1}
  ELSE IF depth = 0 THEN {}
  ELSE UNION {{[head |-> i, args |-> a] :
                 a \in Tuples([j \in DOMAIN VariantsOf(t)[i] |-> ValuesOf(VariantsOf(t)[i][j], depth - 1)])} :
                i \in DOMAIN VariantsOf(t)}

Operands(t) == IF t = TInt THEN {[head |-> n, args |-> <<>>] : n \in Ints} ELSE ValuesOf(t, Depth)

RECURSIVE Key(_)
Key(v) == IF v.args = <<>> THEN v.head ELSE Key(v.args[1])

\* What the language says the operator gives: equality of values is that of
\* their parts, a value with one field is ordered as the field is, and
\* functions and objects cannot be told apart by the values they have.
Meant(op, t, l, r) ==
  CASE op \in Equality \cup {"==="} ->
         IF t.name = "Fn" \/ (op = "===" /\ IsData(t)) THEN {} ELSE {Truth((l = r) = (op # "!="))}
    [] op \in Ordering -> {Answer(op, Key(l), Key(r))}
    [] (op \in Arithmetic \cup {"neg"}) /\ t = TInt -> {Wrap(Answer(op, l.head, r.head))}
    [] OTHER -> {Answer(op, l.head, r.head)}

\* A struct with a part that comparing two of it natively does not look at.
Opaque(t) == StructTemp(t, "var")
             /\ \E i \in DOMAIN Slots(t) :
                  SlotLayout(t, i) \in {"ptr", "struct"} /\ (i = 1 \/ Slots(t)[i] # TString)
SeenThrough(t) == /\ ~ Opaque(t)
                  /\ HasStruct(t) => \A i \in DOMAIN Slots(t) : ~ Opaque(Slots(t)[i])

\* Scalars, and ADTs that are their tag.
Flat(t) == t.name # "Fn" /\ t # TFloat /\ ~ HasStruct(t)

\* The expressions that both engines answer: on scalars, and on a value or data
\* of scalars that stands in a variable or a field.
AnswersBoth(q) ==
  \/ ~ HasStruct(q.type) /\ q.type.name # "Fn" /\ (q.op = "===" => Flat(q.type) /\ q.type # TString)
  \/ /\ Resolved(q.type, q.shapes[1]) /\ Resolved(q.type, q.shapes[2])
     /\ \A i \in DOMAIN Slots(q.type) : Flat(Slots(q.type)[i])
     /\ q.op # "===" /\ (q.op \in Ordering => Slots(q.type)[1] # TString)

\* And those on ADTs whose payloads are scalars, natively.
AnswersNatively(q) ==
  \/ AnswersBoth(q)
  \/ /\ Tagged(q.type) /\ \A i \in 2 .. Len(Slots(q.type)) : Flat(Slots(q.type)[i])
     /\ \E i \in 1 .. 2 : StructTemp(q.type, q.shapes[i])

\* A well-typed operator gives in both engines what the language says
\* or stops; natively but for parts no comparison looks at, and the order of
\* Bools in a value; and it gives an answer where only scalars are compared.
\* Divisions the language leaves open are left out; so is what is ill-typed and
\* accepted because one side is a field.
OperatorsAreRight ==
  (question # <<>> /\ question[1].accepted /\ WellTyped(question[1].op, question[1].type, question[1].other)) =>
    LET q == question[1]
    IN  \A l \in Operands(q.type) : \A r \in IF q.op \in Unary THEN {l} ELSE Operands(q.type) :
          (q.op \in {"/", "%"} => Divides(l.head, r.head)) =>
            LET native == RunNative(q, l, r)  held == Interpreted(q, l, r)  meant == Meant(q.op, q.type, l, r)
            IN  /\ held \subseteq meant
                /\ (/\ SeenThrough(q.type)
                    /\ ~ (q.op \in Ordering /\ Nominal(q.type) /\ Slots(q.type)[1] = TBool))
                     => native \subseteq meant
                /\ AnswersBoth(q) => held # {}
                /\ AnswersNatively(q) => native # {}

\* The abilities are right, and so are the operators that depend on them.
ComparisonsAreRight == AbilitiesAreDerived /\ OperatorsAreRight
==============================================================================
