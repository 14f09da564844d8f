------------------------------- MODULE Parser -------------------------------
(***************************************************************************)
(* The parser (compiler/crates/tyra-parser): from tokens to a tree.         *)
(*                                                                         *)
(* A node is [k, v, c, l, e]: its kind, its name or operator, its children, *)
(* the line it starts on and the line its span ends on.  The span of a call *)
(* or of a block reaches to the token after it, as in the source.           *)
(*                                                                         *)
(* A stream is [toks, pos, depth, ok]: inside brackets (depth > 0) line     *)
(* breaks are not seen; ok is that no error has been reported.  A parser    *)
(* returns [s, n], the stream it leaves and the node (or nodes) it read.    *)
(* An error is reported and parsing goes on, with a node in the hole.       *)
(*                                                                         *)
(* Each function of the parser calls others in a fixed order, so most of    *)
(* them are a list of steps (Steps): a token that must come, or the name of *)
(* a part of the grammar (Read).                                            *)
(***************************************************************************)
EXTENDS Lexer, SequencesExt

Node(k, v, c, l, e) == [k |-> k, v |-> v, c |-> c, l |-> l, e |-> e]
None == Node("none", <<>>, <<>>, 0, 0)
Group(k, c) == Node(k, <<>>, c, 0, 0)
Name(v) == Node("name", v, <<>>, 0, 0)
Flag(k, on) == IF on THEN <<Group(k, <<>>)>> ELSE <<>>
R(s, n) == [s |-> s, n |-> n]
Latest(a, b) == IF a > b THEN a ELSE b

----------------------------------------------------------------------------
(* The stream of tokens *)

RECURSIVE PastNewlines(_, _)
\* The first place from i on that is no line break; the last token is none.
PastNewlines(toks, i) ==
    IF i >= Len(toks) THEN Len(toks)
    ELSE IF toks[i].t = "newline" THEN PastNewlines(toks, i + 1) ELSE i

NewStream(toks, ok) == [toks |-> toks, pos |-> 1, depth |-> 0, ok |-> ok]

Peek(s) == s.toks[s.pos].t
Value(s) == s.toks[s.pos].v
Line(s) == s.toks[s.pos].l
Sees(s, word) == Peek(s) = "ident" /\ Value(s) = <<word>>
\* The kind of the first token from place i on, line breaks skipped.
PeekPast(s, i) == s.toks[PastNewlines(s.toks, i)].t

DepthAfter(s) ==
    CASE Peek(s) \in {"(", "[", "{"} -> s.depth + 1
      [] Peek(s) \in {")", "]", "}"} /\ s.depth > 0 -> s.depth - 1
      [] OTHER -> s.depth

\* The next token becomes the one at hand; the last one stays.
Advance(s) ==
    [s EXCEPT !.depth = DepthAfter(s),
              !.pos = CASE @ = Len(s.toks) -> @
                        [] @ < Len(s.toks) /\ DepthAfter(s) > 0 -> PastNewlines(s.toks, @ + 1)
                        [] OTHER -> @ + 1]

Error(s) == [s EXCEPT !.ok = FALSE]
Expect(s, t) == IF Peek(s) = t THEN Advance(s) ELSE Error(s)
Eat(s, t) == IF Peek(s) = t THEN Advance(s) ELSE s
SkipNewlines(s) == [s EXCEPT !.pos = PastNewlines(s.toks, @)]

\* The end of a statement: a line break outside brackets, or a token that
\* ends the block.
EndOfStatement(s) ==
    IF s.depth > 0 \/ Peek(s) \in {"eof", "end", "else", "when"} THEN s ELSE Expect(s, "newline")

FieldKeywords == {"value", "data", "type", "trait", "impl", "mut", "async", "await", "spawn",
                  "import", "export", "defer"}
NameKeywords == {"value", "data", "type", "trait", "impl"}

\* An identifier; and an identifier or a keyword that may be a field's name.
Ident(s) == IF Peek(s) = "ident" THEN R(Advance(s), Value(s)) ELSE R(Error(s), <<>>)
FieldName(s) ==
    IF Peek(s) \in FieldKeywords THEN R(Advance(s), <<Peek(s)>>) ELSE Ident(s)

Upper(name) == name # <<>> /\ name[1] \in Capitals

InfixPrec ==
    [op \in {"or", "and", "==", "!=", "===", "<", ">", "+", "-", "*"} |->
        CASE op = "or" -> 2 [] op = "and" -> 3 [] op \in {"==", "!=", "==="} -> 4
          [] op \in {"<", ">"} -> 5 [] op \in {"+", "-"} -> 6 [] OTHER -> 7]
AssignPrec == 1
UnaryPrec == 8
PostfixPrec == 9

----------------------------------------------------------------------------
(* Nodes from what was read: r is [s, n] with the children, s the stream at *)
(* the node's first token.                                                  *)

\* The span ends at the token at hand, at the last child, or on its own line.
Closed(k, v, s, r) == R(r.s, Node(k, v, r.n, Line(s), Line(r.s)))
Ended(k, v, s, r) == R(r.s, Node(k, v, r.n, Line(s), Latest(Line(s), Last(r.n).e)))
At(k, v, s, r) == R(r.s, Node(k, v, r.n, Line(s), Line(s)))

Then(r, t) == R(Expect(r.s, t), r.n)
Ahead(a, rest) == R(rest.s, <<a.n>> \o rest.n)
Alone(a) == R(a.s, <<a.n>>)
AtLeastTwo(r) == IF Len(r.n.c) >= 2 THEN r ELSE R(Error(r.s), r.n)

\* One part of the grammar, by its name: defined at the end.
RECURSIVE Read(_, _)

RECURSIVE Steps(_, _, _)
\* The steps of a function, in order, with the nodes read before them.
Steps(s, steps, c) ==
    IF steps = <<>> THEN R(s, c)
    ELSE IF Head(steps) \in Marks \cup Keywords
    THEN Steps(Expect(s, Head(steps)), Tail(steps), c)
    ELSE IF Head(steps) = "end_of_statement" THEN Steps(EndOfStatement(s), Tail(steps), c)
    ELSE LET a == Read(s, Head(steps)) IN Steps(a.s, Tail(steps), Append(c, a.n))

RECURSIVE List(_, _, _)
\* A comma separated list up to its closing token; a comma may end it.
Listed(a, close, what) ==
    IF Peek(a.s) = "," THEN Ahead(a, List(Advance(a.s), close, what)) ELSE Alone(a)
List(s, close, what) ==
    IF Peek(s) \in {close, "eof"} THEN R(s, <<>>) ELSE Listed(Read(s, what), close, what)

\* A list without a closing token to look for: a comma needs a next item.
OpenList(s, what) == List(s, "no token", what)

\* Where another one of what is repeated begins.
Begins(what, t) ==
    CASE what = "stmt" -> t \notin {"end", "else", "when", "eof"}
      [] what = "arm" -> t = "when"
      [] what \in {"fn", "signature"} -> t = "fn"
      [] what = "field_line" -> t \notin {"end", "eof"}
      [] what = "variant" -> t = "|"
      [] what = "item" -> t # "eof"

RECURSIVE Many(_, _)
\* Parts of one kind, with line breaks before, between and after them.
Many(s, what) ==
    IF Begins(what, Peek(s))
    THEN LET a == Read(s, what) IN Ahead(a, Many(SkipNewlines(a.s), what))
    ELSE R(s, <<>>)

ManyOf(k, s, what) == LET r == Many(SkipNewlines(s), what) IN R(r.s, Group(k, r.n))
ListOf(k, r) == R(r.s, Group(k, r.n))

\* Nothing, unless the token before it is there.
Optional(s, t, what) == IF Peek(s) = t THEN Read(Advance(s), what) ELSE R(s, None)

----------------------------------------------------------------------------
(* What lists are made of *)

\* name: T, _ name: T, label name: T
ParamOf(s, label, name) ==
    Ended("param", name.n, s, Steps(name.s, <<":", "type_expr">>, <<Name(label)>>))
Param(s) ==
    LET first == FieldName(s)
    IN  CASE Sees(s, "_") -> ParamOf(s, <<"_">>, FieldName(Advance(s)))
          [] ~ Sees(s, "_") /\ Peek(first.s) = "ident" -> ParamOf(s, first.n, FieldName(first.s))
          [] OTHER -> ParamOf(s, first.n, first)

\* An argument: a label is a name, or a keyword, before a colon.
ArgOf(s, a) ==
    IF Peek(a.s) = ":" /\ a.n.k = "ident"
    THEN Ended("arg", a.n.v, s, Steps(a.s, <<":", "expr">>, <<>>))
    ELSE Ended("arg", <<>>, s, Alone(a))
Arg(s) ==
    IF Peek(s) \in FieldKeywords /\ PeekPast(s, s.pos + 1) = ":"
    THEN Ended("arg", <<Peek(s)>>, s, Steps(Advance(s), <<":", "expr">>, <<>>))
    ELSE ArgOf(s, Read(s, "expr"))

\* A name in a pattern: a constructor or a binding.
Constructor(s, name) ==
    IF Peek(name.s) = "("
    THEN Then(At("ctor", name.n, s, List(Advance(name.s), ")", "pattern_field")), ")")
    ELSE At("ctor", name.n, s, R(name.s, <<>>))
Bind(s, name) == At("bind", name.n, s, R(name.s, <<>>))

\* A field of a constructor pattern: field: pattern, a name alone, or any
\* other pattern.
FieldPattern(s, name) ==
    CASE Peek(name.s) = ":" -> Steps(name.s, <<":", "pattern">>, <<>>)
      [] Peek(name.s) # ":" /\ Upper(name.n) -> Alone(Constructor(s, name))
      [] OTHER -> Alone(Bind(s, name))
PatternField(s) ==
    IF Peek(s) \in FieldKeywords \cup {"ident"}
    THEN At("pfield", FieldName(s).n, s, FieldPattern(s, FieldName(s)))
    ELSE At("pfield", <<>>, s, Steps(s, <<"pattern">>, <<>>))

\* name, name: A or name: A + B
BoundOf(s, a) == IF Peek(a.s) = "+" THEN Steps(a.s, <<"+", "type_expr">>, a.n) ELSE a
TypeParamOf(s, name) ==
    At("tparam", name.n, s,
       IF Peek(name.s) = ":" THEN BoundOf(s, Steps(name.s, <<":", "type_expr">>, <<>>)) ELSE R(name.s, <<>>))

\* name: T, in a variant or in a record (where mut may stand before it)
FieldOf(s, k, name) == Ended(k, name.n, s, Steps(name.s, <<":", "type_expr">>, <<>>))
RecordField(s) ==
    IF Peek(s) = "mut" THEN FieldOf(s, "mut_field", FieldName(Advance(s)))
    ELSE FieldOf(s, "field", FieldName(s))
FieldLine(s) == LET f == RecordField(s) IN R(EndOfStatement(f.s), f.n)

Entry(s) == Ended("entry", <<>>, s, Steps(s, <<"expr", ":", "expr">>, <<>>))

----------------------------------------------------------------------------
(* Types and patterns *)

\* A qualified name is the name after the dot.
TypeName(s) == IF Peek(Advance(s)) = "." THEN Ident(Advance(Advance(s))) ELSE R(Advance(s), Value(s))
NamedType(s, name) ==
    IF Peek(name.s) = "<"
    THEN Then(Closed("generic", name.n, s, OpenList(Advance(name.s), "type_expr")), ">")
    ELSE At("named", name.n, s, R(name.s, <<>>))

Type(s) ==
    CASE Peek(s) = "(" -> AtLeastTwo(Then(Closed("tuple_type", <<>>, s, List(Advance(s), ")", "type_expr")), ")"))
      [] Peek(s) = "fn" -> Ended("fn_type", <<>>, s, Steps(s, <<"fn", "(", "types", ")", "->", "type_expr">>, <<>>))
      [] Peek(s) = "ident" -> NamedType(s, TypeName(s))
      [] OTHER -> At("named", <<>>, s, R(Error(Advance(s)), <<>>))

TypeParams(s) ==
    IF Peek(s) = "<" THEN Then(ListOf("type_params", OpenList(Advance(s), "type_param")), ">")
    ELSE R(s, Group("type_params", <<>>))

Pattern(s) ==
    LET next == R(Advance(s), <<>>)
    IN  CASE Sees(s, "_") -> At("wildcard", <<>>, s, next)
          [] Peek(s) \in {"int", "string", "true", "false"} -> At(Peek(s), Value(s), s, next)
          [] Peek(s) = "-" /\ Peek(next.s) = "int" ->
               At("minus", Value(next.s), s, R(Advance(next.s), <<>>))
          [] Peek(s) = "ident" /\ ~ Sees(s, "_") ->
               IF Peek(next.s) = "(" \/ Upper(Value(s)) THEN Constructor(s, Ident(s)) ELSE Bind(s, Ident(s))
          [] Peek(s) = "(" ->
               AtLeastTwo(Then(At("tuple_pattern", <<>>, s, List(next.s, ")", "pattern")), ")"))
          [] OTHER -> At("wildcard", <<>>, s, R(Error(next.s), <<>>))

----------------------------------------------------------------------------
(* Expressions *)

\* An expression with one more operator after it.
Grown(e, k, v, r) == R(r.s, Node(k, v, r.n, e.l, Latest(e.e, Line(r.s))))
OneMore(r) == R(Advance(r.s), r.n)

AfterDot(e, dot) ==
    CASE Peek(dot) = "await" -> OneMore(Grown(e, "await", <<>>, R(dot, <<e>>)))
      [] Peek(dot) = "ident" -> OneMore(Grown(e, "field_access", Value(dot), R(dot, <<e>>)))
      [] Peek(dot) \in NameKeywords -> OneMore(Grown(e, "field_access", <<Peek(dot)>>, R(dot, <<e>>)))

RECURSIVE Postfix(_)
Postfix(r) ==
    LET s == r.s
        e == r.n
    IN  CASE Peek(s) = "." ->
               IF Peek(Advance(s)) \in NameKeywords \cup {"await", "ident"}
               THEN Postfix(AfterDot(e, Advance(s))) ELSE R(Error(Advance(s)), e)
          [] Peek(s) = "?" -> Postfix(OneMore(Grown(e, "propagate", <<>>, R(s, <<e>>))))
          [] Peek(s) = "(" -> Postfix(Grown(e, "call", <<>>, Steps(s, <<"(", "args", ")">>, <<e>>)))
          [] Peek(s) = "::" ->
               Postfix(Grown(e, "turbofish", <<>>,
                             Steps(s, <<"::", "<", "type_args", ">", "(", "args", ")">>, <<e>>)))
          [] Peek(s) = "[" ->
               Postfix(Then(Grown(e, "index", <<>>, Steps(s, <<"[", "expr">>, <<e>>)), "]"))
          [] OTHER -> r

\* The level of an operator, and what it makes of its operands.
InfixLevel(op) == IF op = "=" THEN AssignPrec ELSE InfixPrec[op]
BothOf(left, op, right) ==
    R(right.s, Node(IF op = "=" THEN "assign" ELSE "binary", <<op>>, <<left.n, right.n>>,
                    left.n.l, Latest(left.n.e, right.n.e)))

\* An expression whose operators bind tighter than min.
RECURSIVE Expr(_, _)

RECURSIVE Infix(_, _)
\* An assignment or binary operators after an operand; one that does not bind
\* tighter than min is left.
Infix(left, min) ==
    IF \/ Peek(left.s) = "=" /\ min <= AssignPrec
       \/ Peek(left.s) \in DOMAIN InfixPrec /\ InfixPrec[Peek(left.s)] > min
    THEN Infix(Postfix(BothOf(left, Peek(left.s), Expr(Advance(left.s), InfixLevel(Peek(left.s))))), min)
    ELSE left

\* The parts of an interpolated string are parsed on their own, and what goes
\* wrong there is not reported.
PartOf(lexed) == Read(NewStream(lexed.toks, lexed.ok), "expr").n
StringPart(part) == IF part.text THEN PartOf(Tokenize(part.x)) ELSE Node("text", part.x, <<>>, 0, 0)

\* After an opening parenthesis: nothing, an expression or a tuple.
Parens(s, first) ==
    IF Peek(first.s) = ","
    THEN Then(Closed("tuple", <<>>, s, Ahead(first, List(Advance(first.s), ")", "expr"))), ")")
    ELSE Then(first, ")")

Prefix(s) ==
    LET t == Peek(s)
        next == R(Advance(s), <<>>)
    IN  CASE t \in {"int", "string", "true", "false", "ident"} -> At(t, Value(s), s, next)
          [] t = "raw_string" -> At("string", Value(s), s, next)
          [] t = "interp" ->
               At("interp", <<>>, s, R(next.s, [i \in DOMAIN Value(s) |-> StringPart(Value(s)[i])]))
          [] t \in NameKeywords -> At("ident", <<t>>, s, next)
          [] t \in {"-", "not"} -> Ended("unary", <<t>>, s, Alone(Expr(next.s, UnaryPrec)))
          [] t = "spawn" -> Ended("spawn", <<>>, s, Alone(Expr(next.s, PostfixPrec)))
          [] t = "(" /\ Peek(next.s) = ")" -> Then(Closed("unit", <<>>, s, next), ")")
          [] t = "(" /\ Peek(next.s) # ")" -> Parens(s, Read(next.s, "expr"))
          [] t = "[" -> Then(Closed("list", <<>>, s, List(next.s, "]", "expr")), "]")
          [] t = "{" -> Then(Closed("map", <<>>, s, List(next.s, "}", "entry")), "}")
          [] t \in {"if", "match", "for", "while"} -> Read(s, t)
          [] t = "fn" -> Read(s, "lambda")
          [] OTHER -> At("int", <<"0">>, s, R(Error(next.s), <<>>))

Expr(s, min) == Infix(Postfix(Prefix(s)), min)

----------------------------------------------------------------------------
(* Blocks *)

Body(s) == ManyOf("body", s, "stmt")

Lambda(s) ==
    Closed("lambda", <<>>, s,
           Steps(s, <<"fn", "(", "params", ")", "return_type", "end_of_statement", "body", "end">>, <<>>))

Match(s) ==
    Closed("match", <<>>, s, Steps(s, <<"match", "expr", "end_of_statement", "arms", "end">>, <<>>))
Arm(s) == At("arm", <<>>, s, Steps(s, <<"when", "pattern", "body">>, <<>>))

\* The first branch of an if: a block after a line break, or one expression on
\* the same line.
OnlyExpr(s, e) ==
    R(SkipNewlines(e.s), Group("body", <<Ended("expr", <<>>, s, Alone(e)).n>>))
ThenPart(s) ==
    IF Peek(s) \in {"newline", "eof", "end", "else"} THEN Body(s) ELSE OnlyExpr(s, Read(s, "expr"))

\* What follows it: the end, another if, or a block and the end.
ElsePart(s) ==
    CASE Peek(s) # "else" -> R(Expect(s, "end"), None)
      [] Peek(s) = "else" /\ Peek(Advance(s)) = "if" -> Read(Advance(s), "if")
      [] OTHER -> Then(Body(Advance(s)), "end")

If(s) == Closed("if", <<>>, s, Steps(s, <<"if", "expr", "then_part", "else_part">>, <<>>))

\* One name, two names, or a tuple of names in parentheses
Names(s) == AtLeastTwo(Then(ListOf("tuple_names", List(Advance(s), ")", "name")), ")"))
SecondName(first) ==
    IF Peek(first.s) = "," THEN Ahead(first, Steps(Advance(first.s), <<"name">>, <<>>))
    ELSE Alone(first)
ForNames(s) == IF Peek(s) = "(" THEN Names(s) ELSE ListOf("names", SecondName(Read(s, "name")))
For(s) ==
    Closed("for", <<>>, s,
           Steps(s, <<"for", "for_names", "in", "expr", "end_of_statement", "body", "end">>, <<>>))
While(s) ==
    Closed("while", <<>>, s, Steps(s, <<"while", "expr", "end_of_statement", "body", "end">>, <<>>))

----------------------------------------------------------------------------
(* Statements *)

\* let and mut, of one name or (let only) of a tuple of names
Bound == <<"annotation", "=", "expr", "end_of_statement">>
BindingOf(s, name) == Ended(Peek(s), name.n, s, Steps(name.s, Bound, <<>>))
Binding(s) ==
    IF Peek(s) = "let" /\ Peek(Advance(s)) = "("
    THEN Ended("tuple_let", <<>>, s, Steps(s, <<"let", "tuple_names">> \o Bound, <<>>))
    ELSE BindingOf(s, FieldName(Advance(s)))

RECURSIVE SkipLine(_)
SkipLine(s) ==
    IF Peek(s) \in {"newline", "eof", "end", "else", "when"} THEN s ELSE SkipLine(Advance(s))

Stmt(s) ==
    CASE Peek(s) \in {"let", "mut"} -> Binding(s)
      [] Peek(s) = "return" /\ Peek(Advance(s)) \notin {"newline", "eof", "end", "else", "when"} ->
           Ended("return", <<>>, s, Steps(s, <<"return", "expr", "end_of_statement">>, <<>>))
      [] Peek(s) = "defer" ->
           Ended("defer", <<>>, s, Steps(s, <<"defer", "expr", "end_of_statement">>, <<>>))
      [] Peek(s) \in {"import", "export"} ->
           At("expr", <<>>, s, R(Error(SkipLine(s)), <<At("unit", <<>>, s, R(s, <<>>)).n>>))
      [] Peek(s) \in {"return", "break", "continue"} ->
           At(Peek(s), <<>>, s, R(EndOfStatement(Advance(s)), <<>>))
      [] OTHER -> Ended("expr", <<>>, s, Steps(s, <<"expr", "end_of_statement">>, <<>>))

----------------------------------------------------------------------------
(* Declarations *)

\* A keyword, a name, and steps.
Declared(s, k, name, steps) == Closed(k, name.n, s, Steps(name.s, steps, <<>>))
Declaration(s, k, steps) == Declared(s, k, Ident(Advance(s)), steps)

\* name<T>(self, params) -> T
Header == <<"type_params", "(", "self_params", ")", "return_type", "end_of_statement">>
SelfParams(s) ==
    IF Sees(s, "self")
    THEN ListOf("params", Ahead(R(s, Group("self", <<>>)), List(Eat(Advance(s), ","), ")", "param")))
    ELSE ListOf("params", List(s, ")", "param"))

FnDef(s) == Declaration(s, "fn", Header \o <<"body", "end">>)
\* A method of a trait has no body.
FnSignature(s) == Declaration(s, "signature", Header)

\* value and data
RecordDef(s) ==
    Declaration(s, Peek(s), <<"type_params", "end_of_statement", "field_lines", "end">>)

\* What a type is: variants, if a bar comes next, or another type.
TypeOf(s) ==
    IF PeekPast(s, s.pos) = "|" THEN ManyOf("adt", s, "variant")
    ELSE ListOf("alias", Steps(s, <<"type_expr">>, <<>>))
TypeDef(s) == Declaration(s, "typedef", <<"type_params", "=", "type_of">>)
VariantOf(s, name) ==
    At("variant", name.n, s,
       IF Peek(name.s) = "(" THEN Then(List(Advance(name.s), ")", "field"), ")") ELSE R(name.s, <<>>))

TraitDef(s) == Declaration(s, "trait", <<"type_params", "end_of_statement", "signatures", "end">>)
ImplArgs(s) ==
    IF Peek(s) = "<" THEN Then(ListOf("type_params", OpenList(Advance(s), "type_expr")), ">")
    ELSE R(s, Group("type_params", <<>>))
ImplDef(s) ==
    Declaration(s, "impl", <<"impl_args", "for", "type_expr", "end_of_statement", "methods", "end">>)

RECURSIVE Path(_)
\* name.name.name
Path(s) ==
    LET a == Read(s, "name")
    IN  IF Peek(a.s) = "." THEN Ahead(a, Path(Advance(a.s))) ELSE Alone(a)
ImportOf(s, path, alias) ==
    R(EndOfStatement(alias.s), Closed("import", alias.n, s, R(alias.s, path)).n)
Import(s) ==
    LET path == Path(Advance(s))
    IN  ImportOf(s, path.n, IF Sees(path.s, "as") THEN Ident(Advance(path.s)) ELSE R(path.s, <<>>))

TestOf(s, name, next) ==
    Then(Closed("test", name, s,
                Steps(next, <<"end_of_statement", "body">>, Flag("panics", Sees(Advance(Advance(s)), "panics")))),
         "end")
TestDef(s) ==
    LET name == Advance(s)
    IN  TestOf(s, Value(name), IF Sees(Advance(name), "panics") THEN Advance(Advance(name)) ELSE Advance(name))

\* One item of a file: export and async are read first, and refused where they
\* do not belong.
ItemAt(s) ==
    CASE Peek(s) = "fn" -> FnDef(s)
      [] Peek(s) \in {"value", "data"} -> RecordDef(s)
      [] Peek(s) = "type" -> TypeDef(s)
      [] Peek(s) = "trait" -> TraitDef(s)
      [] Peek(s) = "impl" -> ImplDef(s)
      [] Peek(s) = "import" -> Import(s)
      [] OTHER -> Read(s, "stmt")

Modified(item, t, export, async) ==
    R(IF \/ async /\ t # "fn"
         \/ export /\ t \notin {"fn", "value", "data", "type", "trait"}
         \/ export /\ t = "fn" /\ item.n.v = <<"main">>
      THEN Error(item.s) ELSE item.s,
      [item.n EXCEPT !.c = @ \o Flag("export", export) \o Flag("async", async)])

TopItem(s) ==
    LET a == Eat(s, "export")
        b == Eat(a, "async")
    IN  IF Sees(s, "test") /\ PeekPast(s, s.pos + 1) = "string" THEN TestDef(s)
        ELSE Modified(ItemAt(b), Peek(b), Peek(s) = "export", Peek(a) = "async")

\* An item that reads nothing must not be tried for ever.
Progress(s, item) == IF item.s.pos = s.pos THEN OneMore(item) ELSE item

----------------------------------------------------------------------------
Read(s, what) ==
    CASE what = "expr" -> Expr(s, 0)
      [] what = "entry" -> Entry(s)
      [] what = "arg" -> Arg(s)
      [] what = "args" -> ListOf("args", List(s, ")", "arg"))
      [] what = "type_expr" -> Type(s)
      [] what = "types" -> ListOf("params", List(s, ")", "type_expr"))
      [] what = "type_args" -> ListOf("types", OpenList(s, "type_expr"))
      [] what = "type_param" -> TypeParamOf(s, Ident(s))
      [] what = "type_params" -> TypeParams(s)
      [] what = "annotation" -> Optional(s, ":", "type_expr")
      [] what = "return_type" -> Optional(s, "->", "type_expr")
      [] what = "param" -> Param(s)
      [] what = "params" -> ListOf("params", List(s, ")", "param"))
      [] what = "self_params" -> SelfParams(s)
      [] what = "pattern" -> Pattern(s)
      [] what = "pattern_field" -> PatternField(s)
      [] what = "name" -> LET id == Ident(s) IN R(id.s, Name(id.n))
      [] what = "tuple_names" -> Names(s)
      [] what = "for_names" -> ForNames(s)
      [] what = "if" -> If(s)
      [] what = "then_part" -> ThenPart(s)
      [] what = "else_part" -> ElsePart(s)
      [] what = "match" -> Match(s)
      [] what = "arms" -> ManyOf("arms", s, "arm")
      [] what = "arm" -> Arm(s)
      [] what = "for" -> For(s)
      [] what = "while" -> While(s)
      [] what = "lambda" -> Lambda(s)
      [] what = "body" -> Body(s)
      [] what = "stmt" -> Stmt(s)
      [] what = "fn" -> FnDef(s)
      [] what = "signature" -> FnSignature(s)
      [] what = "methods" -> ManyOf("methods", s, "fn")
      [] what = "signatures" -> ManyOf("methods", s, "signature")
      [] what = "field" -> FieldOf(s, "field", FieldName(s))
      [] what = "field_line" -> FieldLine(s)
      [] what = "field_lines" -> ManyOf("fields", s, "field_line")
      [] what = "type_of" -> TypeOf(s)
      [] what = "variant" -> VariantOf(s, Ident(Advance(s)))
      [] what = "impl_args" -> ImplArgs(s)
      [] what = "item" -> Progress(s, TopItem(s))
      [] what = "file" -> ManyOf("file", s, "item")

\* A source file: its tree, and whether nothing was reported.
ParsedFile(r) == [tree |-> r.n, ok |-> r.s.ok]
ParseTokens(lexed) == ParsedFile(Read(NewStream(lexed.toks, lexed.ok), "file"))
Parse(text) == ParseTokens(Tokenize(text))

RECURSIVE Bare(_)
\* A tree without its places: what the program says.
Bare(n) == [k |-> n.k, v |-> n.v, c |-> [i \in DOMAIN n.c |-> Bare(n.c[i])]]

=============================================================================
