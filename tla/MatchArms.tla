------------------------------ MODULE MatchArms ------------------------------
(***************************************************************************)
(* `match`: what the checker says of the arms of a match                   *)
(* (tyra-types/src/checker.rs, check_match_exhaustiveness,                 *)
(* check_nested_exhaustiveness, check_redundant_arms) and what the program *)
(* the compiler emits does with them (tyra-mir/src/lower/match_lower.rs).  *)
(*                                                                         *)
(* A value is a head, its constructor or itself when it is a literal, and  *)
(* its fields.  A pattern is `_`, a name, a literal, a constructor with    *)
(* patterns for some of its fields, or a tuple.  A field pattern says at   *)
(* which declared field its label points.  A name is the path to the place *)
(* it stands in: the frontend makes the names of an arm distinct.          *)
(*                                                                         *)
(* Patterns are well typed and tuple patterns stand at the top only.       *)
(***************************************************************************)
EXTENDS Naturals, Sequences, FiniteSets, Functions

CONSTANTS
  Types,     \* type -> [kind, variants : constructor -> sequence of types]
  Scalars,   \* scalar type -> its values
  MaxArms    \* bound: type of the subject -> arms of the match

VARIABLES
  type,      \* the type of the subject
  arms,      \* the patterns of the arms
  subject,   \* the value that is matched
  hoisted,   \* the match is a statement or the value of one, not an operand
  at,        \* the arm being tested
  pc,        \* "test", "bind", "done" or "undefined"
  slots      \* the names that hold something, and what

vars == <<type, arms, subject, hoisted, at, pc, slots>>

KindOf(t) == IF t \in DOMAIN Scalars THEN "scalar" ELSE Types[t].kind
FieldsOf(t, c) == Types[t].variants[c]
Ctors(t) == DOMAIN Types[t].variants

\* Sequences whose i-th element is in set[i].
Tuples(set) == {s \in [DOMAIN set -> UNION {set[i] : i \in DOMAIN set}] :
                  \A i \in DOMAIN set : s[i] \in set[i]}

RECURSIVE Values(_)
Values(t) ==
  IF KindOf(t) = "scalar" THEN {[head |-> s, args |-> <<>>] : s \in Scalars[t]}
  ELSE UNION {{[head |-> c, args |-> a] :
                 a \in Tuples([i \in DOMAIN FieldsOf(t, c) |-> Values(FieldsOf(t, c)[i])])} :
                c \in Ctors(t)}

Pattern(kind, name, fields) == [kind |-> kind, name |-> name, fields |-> fields]
Wild       == Pattern("wild", "_", <<>>)
Name(path) == Pattern("ident", path, <<>>)

\* The orders in which fields may be given: all of them in either direction,
\* or the last one alone.
Orders(n) == {[i \in 1 .. n |-> i], [i \in 1 .. n |-> n + 1 - i]}
             \cup {<<i>> : i \in {n} \cap {2}}

RECURSIVE Patterns(_, _)
Patterns(t, path) ==
  {Wild, Name(path)}
  \cup IF KindOf(t) = "scalar" THEN {Pattern("lit", s, <<>>) : s \in Scalars[t]}
       ELSE UNION {UNION {
              LET fieldsOf == FieldsOf(t, c)
                  each == [i \in DOMAIN o |-> {[label |-> o[i], pat |-> p] :
                                                 p \in Patterns(fieldsOf[o[i]], Append(path, o[i]))}]
              IN  {Pattern(IF KindOf(t) = "tuple" THEN "tuple" ELSE "ctor", c, f) : f \in Tuples(each)} :
              o \in IF KindOf(t) = "tuple" THEN {<<1, 2>>} ELSE Orders(Len(FieldsOf(t, c)))} :
              c \in Ctors(t)}

CatchAll(p) == p.kind \in {"wild", "ident"}
FieldPats(p) == {p.fields[i].pat : i \in DOMAIN p.fields}

-----------------------------------------------------------------------------
(* What the language says a pattern means.                                 *)

RECURSIVE Matches(_, _)
Matches(p, v) == CASE CatchAll(p)      -> TRUE
                   [] p.kind = "lit"   -> v.head = p.name
                   [] OTHER            -> /\ v.head = p.name
                                          /\ \A i \in DOMAIN p.fields :
                                               Matches(p.fields[i].pat, v.args[p.fields[i].label])

\* The pairs <<name, part of the value>> the pattern introduces.
RECURSIVE Bound(_, _)
Bound(p, v) == IF p.kind = "ident" THEN {<<p.name, v>>}
               ELSE UNION {Bound(p.fields[i].pat, v.args[p.fields[i].label]) : i \in DOMAIN p.fields}

Covered(t, a) == \A v \in Values(t) : \E i \in DOMAIN a : Matches(a[i], v)

-----------------------------------------------------------------------------
(* The checker.                                                            *)

Expected(t) == IF t = "Bool" THEN Scalars[t]
               ELSE IF KindOf(t) \in {"unit", "struct", "generic"} THEN Ctors(t) ELSE {}

HasCatchAll(a) == \E i \in DOMAIN a : CatchAll(a[i])
Heads(a) == {a[i].name : i \in {j \in DOMAIN a : a[j].kind \in {"ctor", "lit"}}}

MissingHeads(t, a) == IF HasCatchAll(a) THEN {} ELSE Expected(t) \ Heads(a)

\* The patterns for the payload of constructor c.
Payloads(a, c) == {a[i].fields[1].pat : i \in {j \in DOMAIN a : a[j].name = c /\ a[j].fields # <<>>}}

\* A user-defined type is looked into; Option and Result, and what is deeper, are not.
MissingInner_NoneSeen(t, a) ==
  IF KindOf(t) # "generic" \/ HasCatchAll(a) THEN {}
  ELSE {c \in Ctors(t) : /\ FieldsOf(t, c) # <<>>
                         /\ KindOf(FieldsOf(t, c)[1]) \in {"unit", "struct"}
                         /\ ~ (Ctors(FieldsOf(t, c)[1]) \subseteq {p.name : p \in Payloads(a, c)})}
MissingInner(t, a) ==
  IF KindOf(t) # "generic" \/ HasCatchAll(a) THEN {}
  ELSE {c \in Ctors(t) : /\ FieldsOf(t, c) # <<>>
                         /\ KindOf(FieldsOf(t, c)[1]) \in {"unit", "struct"}
                         /\ ~ \E p \in Payloads(a, c) : CatchAll(p)
                         /\ ~ (Ctors(FieldsOf(t, c)[1]) \subseteq {p.name : p \in Payloads(a, c)})}

Rejected(t, a) == MissingHeads(t, a) # {} \/ MissingInner(t, a) # {}

Distinguishes(p) == \E q \in FieldPats(p) : ~ CatchAll(q)

\* Arms warned of as unreachable.
Redundant_AnyRepeat(a) ==
  {i \in DOMAIN a : \E j \in 1 .. i - 1 :
     \/ CatchAll(a[j])
     \/ a[i].kind \in {"ctor", "lit"} /\ a[j].name = a[i].name /\ ~ Distinguishes(a[i])}
Redundant(a) ==
  {i \in DOMAIN a : \E j \in 1 .. i - 1 :
     \/ CatchAll(a[j])
     \/ /\ a[i].kind \in {"ctor", "lit"} /\ a[j].name = a[i].name
        /\ ~ Distinguishes(a[i]) /\ ~ Distinguishes(a[j])}

-----------------------------------------------------------------------------
(* The tests the lowering emits.                                           *)

Prelude == {"Some", "None", "Ok", "Err"}

\* Nested constructors are compared only where the field is of a user-defined
\* type with payload; fields are taken by position, whatever their label.
RECURSIVE NestedTest(_, _, _)
NestedTest(t, p, v) ==
  \A i \in DOMAIN p.fields :
    LET q == p.fields[i].pat  ft == FieldsOf(t, p.name)[i]
    IN  q.kind = "ctor" /\ KindOf(ft) = "struct"
          => v.args[i].head = q.name /\ NestedTest(ft, q, v.args[i])

RECURSIVE NestedStores(_, _, _)
NestedStores(t, p, v) ==
  UNION {LET q == p.fields[i].pat  ft == FieldsOf(t, p.name)[i]
         IN  CASE q.kind = "ident" -> {<<q.name, v.args[i]>>}
               [] q.kind = "ctor" /\ KindOf(ft) = "struct" -> NestedStores(ft, q, v.args[i])
               [] OTHER -> {} :
         i \in DOMAIN p.fields}

\* The payload of an Option or a Result.
PayloadTest_TagOnly(t, p, v) == TRUE
PayloadTest(t, p, v) ==
  LET q == p.fields[1].pat  pt == FieldsOf(t, p.name)[1]
  IN  CASE q.kind = "ctor" /\ KindOf(pt) = "unit"   -> v.args[1].head = q.name
        [] q.kind = "ctor" /\ KindOf(pt) = "struct" -> v.args[1].head = q.name /\ NestedTest(pt, q, v.args[1])
        [] q.kind = "lit" /\ pt \in {"Int", "Bool"} -> v.args[1].head = q.name
        [] OTHER -> TRUE

\* A tuple pattern is not tested at all; a user-defined type by its tag only.
ArmTest(t, p, v) ==
  CASE p.kind \in {"wild", "ident", "tuple"} -> TRUE
    [] p.kind = "lit"                        -> v.head = p.name
    [] OTHER -> v.head = p.name /\ (p.name \in Prelude /\ p.fields # <<>> => PayloadTest(t, p, v))

ArmStores(t, p, v) ==
  CASE p.kind = "ctor" /\ p.name \in Prelude /\ p.fields # <<>> ->
         LET q == p.fields[1].pat  pt == FieldsOf(t, p.name)[1]
         IN  CASE q.kind = "ident" -> {<<q.name, v.args[1]>>}
               [] q.kind = "ctor" /\ KindOf(pt) = "struct" -> NestedStores(pt, q, v.args[1])
               [] OTHER -> {}
    [] p.kind \in {"ctor", "tuple"} ->
         {<<p.fields[i].pat.name, v.args[i]>> : i \in {j \in DOMAIN p.fields : p.fields[j].pat.kind = "ident"}}
    [] OTHER -> {}

\* A bare name is copied to a value, not stored.  The body reads it from its
\* slot where a slot was made for it.
ArmCopies(p, v) == IF p.kind = "ident" /\ ~ hoisted THEN {<<p.name, v>>} ELSE {}

\* A store to a name without a slot: the function becomes `unreachable`.
Emittable(p) ==
  CASE p.kind = "tuple" -> hoisted \/ \A q \in FieldPats(p) : q.kind # "ident"
    [] p.kind = "ctor" /\ p.name \notin Prelude -> \A q \in FieldPats(p) : CatchAll(q)
    [] OTHER -> TRUE

-----------------------------------------------------------------------------
Init == /\ type \in DOMAIN MaxArms
        /\ arms \in [1 .. MaxArms[type] -> Patterns(type, <<>>)]
        /\ subject \in Values(type)
        /\ hoisted \in BOOLEAN
        /\ at = 1
        /\ pc = "test"
        /\ slots = {}

Undefined == /\ pc = "test" /\ at = 1
             /\ \E i \in DOMAIN arms : ~ Emittable(arms[i])
             /\ pc' = "undefined"
             /\ UNCHANGED <<type, arms, subject, hoisted, at, slots>>

Emitted == \A i \in DOMAIN arms : Emittable(arms[i])

Take == /\ pc = "test" /\ at \in DOMAIN arms /\ Emitted
        /\ ArmTest(type, arms[at], subject)
        /\ pc' = "bind"
        /\ UNCHANGED <<type, arms, subject, hoisted, at, slots>>

Next1 == /\ pc = "test" /\ at \in DOMAIN arms /\ Emitted
         /\ ~ ArmTest(type, arms[at], subject)
         /\ at' = at + 1
         /\ UNCHANGED <<type, arms, subject, hoisted, pc, slots>>

Bind == /\ pc = "bind"
        /\ slots' = ArmStores(type, arms[at], subject) \cup ArmCopies(arms[at], subject)
        /\ pc' = "done"
        /\ UNCHANGED <<type, arms, subject, hoisted, at>>

\* The last test failed: the result is what the slot of the result held.
FallThrough == /\ pc = "test" /\ at \notin DOMAIN arms
               /\ pc' = "done"
               /\ UNCHANGED <<type, arms, subject, hoisted, at, slots>>

Next == Undefined \/ Take \/ Next1 \/ Bind \/ FallThrough

Spec == Init /\ [][Next]_vars
-----------------------------------------------------------------------------
(* Properties.                                                             *)

\* The patterns that the lowering tests and binds in full.
InPlace(p) == \A i \in DOMAIN p.fields : p.fields[i].label = i /\ CatchAll(p.fields[i].pat)

Supported(t, p) ==
  CASE p.kind = "wild"  -> TRUE
    [] p.kind = "ident" -> ~ hoisted
    [] p.kind = "lit"   -> TRUE
    [] p.kind = "tuple" -> hoisted /\ InPlace(p)
    [] InPlace(p)       -> TRUE
    [] OTHER -> /\ p.name \in Prelude
                /\ LET q == p.fields[1].pat  pt == FieldsOf(t, p.name)[1]
                   IN  \/ q.kind = "lit" /\ pt \in {"Int", "Bool"}
                       \/ q.kind = "ctor" /\ KindOf(pt) \in {"unit", "struct"} /\ InPlace(q)

\* Of arms in these forms, the one that runs is the first that matches the
\* subject, none when no arm does, and each name it introduces holds the part
\* of the subject it stands for (lower_match, lower_ctor_payload_and_vars).
FirstMatchRuns ==
  (pc = "done" /\ \A i \in DOMAIN arms : Supported(type, arms[i])) =>
    /\ \A i \in DOMAIN arms : i < at => ~ Matches(arms[i], subject)
    /\ at \in DOMAIN arms => Matches(arms[at], subject) /\ slots = Bound(arms[at], subject)

\* Arms the checker looks into as deep as they go.
InDepth(t, p) ==
  \/ CatchAll(p) \/ InPlace(p)
  \/ /\ p.kind = "ctor" /\ KindOf(t) = "generic"
     /\ LET q == p.fields[1].pat
        IN q.kind = "ctor" /\ KindOf(FieldsOf(t, p.name)[1]) \in {"unit", "struct"} /\ InPlace(q)

\* E0400 and E0401 are reported only of a match some value of the subject's
\* type falls through, and of every such match whose patterns are no deeper
\* than the checker looks (checker.rs: heads, and one level into the payload of
\* an Option or a Result); and an arm it warns of as unreachable (W0401) is never
\* taken.
VerdictIsRight ==
  /\ pc \in {"bind", "done"} => at \notin Redundant(arms)
  /\ Rejected(type, arms) => ~ Covered(type, arms)
  /\ (Expected(type) # {} /\ \A i \in DOMAIN arms : InDepth(type, arms[i])) =>
        (Covered(type, arms) => ~ Rejected(type, arms)) /\ (~ Covered(type, arms) => Rejected(type, arms))
==============================================================================
