------------------------------ MODULE Printer ------------------------------
(***************************************************************************)
(* The printer of the formatter (tools/tyra-fmt): from a tree, and the      *)
(* comments of the text it came from, to a text.                            *)
(*                                                                         *)
(* A writer is [out, ind, last, st, il]: the text so far, the indentation,  *)
(* the last line of the old text that is dealt with, and the comments of    *)
(* the old text: those alone on their line and those after code, by line.   *)
(* A comment is printed again before the node whose line follows it, or     *)
(* after the node that starts on its line.                                  *)
(***************************************************************************)
EXTENDS Parser, Functions

CONSTANT LineLimit      \* the width, in pieces, from which a header is broken
ASSUME LineLimitAssumption == LineLimit \in Nat

----------------------------------------------------------------------------
(* Comments: found line by line, by a scanner of the formatter's own        *)

RECURSIVE Lines(_)
\* The lines of a text.
Lines(x) ==
    IF x = <<>> THEN <<>>
    ELSE LET n == UpTo(x, 1, "\n") IN <<SubSeq(x, 1, n - 1)>> \o Lines(SubSeq(x, n + 1, Len(x)))

\* variant: an escaped quote ends the string
RECURSIVE HashAt_Unescaped(_, _, _)
HashAt_Unescaped(line, i, quoted) ==
    IF i > Len(line) THEN 0
    ELSE IF line[i] = "#" /\ ~ quoted THEN i
    ELSE HashAt_Unescaped(line, i + 1, IF line[i] = "\"" THEN ~ quoted ELSE quoted)

\* Where the first hash outside quotes stands in a line, or 0.
RECURSIVE HashAt(_, _, _)
HashAt(line, i, quoted) ==
    IF i > Len(line) THEN 0
    ELSE IF quoted
    THEN HashAt(line, IF line[i] = "\\" THEN i + 2 ELSE i + 1, line[i] # "\"")
    ELSE IF line[i] = "#" THEN i ELSE HashAt(line, i + 1, line[i] = "\"")

FirstInk(line) == UpTo([i \in DOMAIN line |-> line[i] # " "], 1, TRUE)

Standalone(x) ==
    LET ls == Lines(x)
        at == {i \in DOMAIN ls : FirstInk(ls[i]) <= Len(ls[i]) /\ ls[i][FirstInk(ls[i])] = "#"}
    IN  [i \in at |-> SubSeq(ls[i], FirstInk(ls[i]), Len(ls[i]))]

Inline(x) ==
    LET ls == Lines(x)
        at == {i \in DOMAIN ls \ DOMAIN Standalone(x) : HashAt(ls[i], 1, FALSE) > 0}
    IN  [i \in at |-> SubSeq(ls[i], HashAt(ls[i], 1, FALSE), Len(ls[i]))]

----------------------------------------------------------------------------
(* The writer *)

Put(w, x) == [w EXCEPT !.out = @ \o x]
Indent(w) == Put(w, [i \in 1..w.ind |-> " "])
In(w) == [w EXCEPT !.ind = @ + 1]
Out(w) == [w EXCEPT !.ind = @ - 1]
Reached(w, line) == [w EXCEPT !.last = Latest(@, line)]

InlineComment(w, line) == IF line \in DOMAIN w.il THEN Put(w, <<" ">> \o w.il[line]) ELSE w

\* The comments alone on their lines, from after the last line dealt with to
\* before a line.
RECURSIVE CommentLines(_, _, _)
CommentLines(w, from, before) ==
    IF from >= before THEN w
    ELSE CommentLines(IF from \in DOMAIN w.st
                      THEN Put(Indent(w), w.st[from] \o <<"\n">>) ELSE w, from + 1, before)

\* variant: the line above the statement is left out
PendingComments_Above(w, before) ==
    IF w.last + 1 >= before THEN w
    ELSE [CommentLines(w, w.last + 1, before - 1) EXCEPT !.last = before - 1]

PendingComments(w, before) ==
    IF w.last + 1 >= before THEN w
    ELSE [CommentLines(w, w.last + 1, before) EXCEPT !.last = before - 1]

\* The printer's own levels: a greater number binds less.
PrintPrec(op) ==
    CASE op = "*" -> 3 [] op \in {"+", "-"} -> 4
      [] op \in {"==", "!=", "<", ">", "==="} -> 5 [] op = "and" -> 6 [] op = "or" -> 7
PostfixLevel == 1
UnaryLevel == 2

\* variant: a hash is escaped too, which the lexer does not know
EscapeString_Hash(v) ==
    FlattenSeq([i \in DOMAIN v |-> CASE v[i] \in {"\"", "\\", "#"} -> <<"\\", v[i]>>
                                     [] v[i] = "\n" -> <<"\\", "n">>
                                     [] v[i] = "\t" -> <<"\\", "t">>
                                     [] OTHER -> <<v[i]>>])

EscapeString(v) ==
    FlattenSeq([i \in DOMAIN v |-> CASE v[i] \in {"\"", "\\"} -> <<"\\", v[i]>>
                                     [] v[i] = "\n" -> <<"\\", "n">>
                                     [] v[i] = "\t" -> <<"\\", "t">>
                                     [] OTHER -> <<v[i]>>])

Quoted(v) == <<"\"">> \o EscapeString(v) \o <<"\"">>
Comma == <<",", " ">>

\* Any node: defined at the end.
RECURSIVE PrintNode(_, _)

\* Nodes with commas between them.
PrintItems(w, ns) ==
    FoldLeft(LAMBDA u, i : PrintNode(IF i = 1 THEN u ELSE Put(u, Comma), ns[i]), w,
             [i \in DOMAIN ns |-> i])
PrintList(w, open, ns, close) ==
    Put(PrintNode(Put(w, open), Group("items", ns)), close)

\* variant: an operand of the next level is taken to bind as tightly
PrintOperand_Loose(w, n, most) ==
    IF n.k = "binary" /\ PrintPrec(n.v[1]) > most + 1
    THEN Put(PrintNode(Put(w, <<"(">>), n), <<")">>)
    ELSE PrintNode(w, n)

\* An operand: in parentheses if it is a binary expression that binds less
\* than the place allows.
PrintOperand(w, n, most) ==
    IF n.k = "binary" /\ PrintPrec(n.v[1]) > most
    THEN Put(PrintNode(Put(w, <<"(">>), n), <<")">>)
    ELSE PrintNode(w, n)

\* The statements of a block, each on a line, with their comments.
PrintStmts(w, stmts) ==
    FoldLeft(LAMBDA u, s :
                 LET line == InlineComment(PrintNode(Indent(PendingComments(u, s.l)), s), s.l)
                 IN  Reached(Put(line, <<"\n">>), s.e),
             w, stmts)

\* A block, deeper than what is around it.
PrintBody(w, body) == Indent(Out(PrintNode(In(Put(w, <<"\n">>)), body)))

\* The block of node n, and its end.
Block(w, n, body) == Put(PrintBody(Reached(w, n.l), body), <<"end">>)

PrintElse(w, else) ==
    CASE else.k = "none" -> Put(w, <<"end">>)
      [] else.k = "if" -> PrintNode(Put(w, <<"else", " ">>), else)
      [] else.k = "body" -> Put(PrintBody(Put(w, <<"else">>), else), <<"end">>)

PrintIf(w, n) ==
    LET cond == PrintNode(Put(w, <<"if", " ">>), n.c[1])
    IN  PrintElse(PrintBody(Reached(cond, n.l), n.c[2]), n.c[3])

PrintArms(w, arms) ==
    FoldLeft(LAMBDA u, a :
                 LET head == PrintNode(Put(Indent(Put(u, <<"\n">>)), <<"when", " ">>), a.c[1])
                 IN  Out(PrintNode(In(Put(head, <<"\n">>)), a.c[2])),
             w, arms)

\* : T and -> T, or nothing
PrintAnnotation(w, ty) == IF ty.k = "none" THEN w ELSE PrintNode(Put(w, <<":", " ">>), ty)
PrintReturn(w, ty) == IF ty.k = "none" THEN w ELSE PrintNode(Put(w, <<" ", "->", " ">>), ty)

PrintTypeParams(w, tps) ==
    IF tps.c = <<>> THEN w ELSE PrintList(w, <<"<">>, tps.c, <<">">>)

Has(n, flag) == \E i \in DOMAIN n.c : n.c[i].k = flag

\* What a node prints when it stands alone, as a text of its own.
Blank == [out |-> <<>>, ind |-> 0, last |-> 0, st |-> <<>>, il |-> <<>>]
Text(n) == PrintNode(Blank, n).out

Column(w) == Len(w.out) - Max({0} \cup {i \in DOMAIN w.out : w.out[i] = "\n"})

\* The header of a function: on one line if it fits, else a parameter a line.
Word(f, k) == IF Has(f, k) THEN <<k, " ">> ELSE <<>>
HeaderStart(w, f) ==
    PrintTypeParams(Put(w, Word(f, "export") \o Word(f, "async") \o <<"fn", " ">> \o f.v), f.c[1])
HeaderLine(w, f) == PrintReturn(PrintNode(HeaderStart(w, f), f.c[2]), f.c[3])
HeaderLines(w, f) ==
    LET ps == f.c[2].c
        each == FoldLeft(LAMBDA u, i :
                             Put(Put(Indent(Put(u, <<"\n">>)), <<" ", " ">> \o Text(ps[i])),
                                 IF i < Len(ps) THEN <<",">> ELSE <<>>),
                         Put(HeaderStart(w, f), <<"(">>), [i \in DOMAIN ps |-> i])
    IN  PrintReturn(Put(Indent(Put(each, <<"\n">>)), <<")">>), f.c[3])
PrintHeader(w, f) ==
    IF Column(HeaderLine(w, f)) <= LineLimit \/ f.c[2].c = <<>> THEN HeaderLine(w, f)
    ELSE HeaderLines(w, f)

\* A function, and a method without a body
SignatureKinds == {"fn", "signature"}
PrintFn(w, f) ==
    LET head == InlineComment(PrintHeader(Indent(w), f), f.l)
    IN  IF f.k = "fn" THEN Block(head, f, f.c[4]) ELSE head

\* The methods, fields and variants of a declaration
PrintMembers(w, ms) ==
    FoldLeft(LAMBDA u, m :
                 IF m.k = "variant" THEN PrintNode(Indent(Put(u, <<"\n">>)), m)
                 ELSE Put(PrintNode(IF m.k \in SignatureKinds THEN u ELSE Indent(u), m), <<"\n">>),
             w, ms)

ExportWord(n) == IF Has(n, "export") THEN <<"export", " ">> ELSE <<>>

PrintInterpolation(w, parts) ==
    FoldLeft(LAMBDA u, p : IF p.k = "text" THEN Put(u, EscapeString(p.v))
                           ELSE Put(PrintNode(Put(u, <<"#", "{">>), p), <<"}">>),
             w, parts)

PrintBinary(w, n) ==
    LET p == PrintPrec(n.v[1])
        left == PrintOperand(w, n.c[1], p - 1)
    IN  PrintOperand(Put(left, <<" ">> \o n.v \o <<" ">>), n.c[2], p)

PrintPostfix(w, n) ==
    LET subject == PrintOperand(w, n.c[1], PostfixLevel)
    IN  CASE n.k = "field_access" -> Put(subject, <<".">> \o n.v)
          [] n.k = "await" -> Put(subject, <<".", "await">>)
          [] n.k = "propagate" -> Put(subject, <<"?">>)
          [] n.k = "index" -> Put(PrintNode(Put(subject, <<"[">>), n.c[2]), <<"]">>)
          [] n.k = "call" -> PrintNode(subject, n.c[2])
          [] n.k = "turbofish" ->
               PrintNode(PrintList(subject, <<"::", "<">>, n.c[2].c, <<">">>), n.c[3])

\* An argument with its label; an entry of a map.
PrintArg(w, n) == PrintNode(IF n.v = <<>> THEN w ELSE Put(w, n.v \o <<":", " ">>), n.c[1])
PrintEntry(w, n) == PrintNode(Put(PrintNode(w, n.c[1]), <<":", " ">>), n.c[2])

PrintMatch(w, n) ==
    LET head == Reached(PrintNode(Put(w, <<"match", " ">>), n.c[1]), n.l)
    IN  Put(Indent(PrintNode(head, n.c[2])), <<"end">>)

PrintFor(w, n) ==
    LET tuple == n.c[1].k = "tuple_names"
        names == PrintList(w, IF tuple THEN <<"for", " ", "(">> ELSE <<"for", " ">>, n.c[1].c,
                           IF tuple THEN <<")", " ", "in", " ">> ELSE <<" ", "in", " ">>)
    IN  Block(PrintNode(names, n.c[2]), n, n.c[3])

PrintWhile(w, n) == Block(PrintNode(Put(w, <<"while", " ">>), n.c[1]), n, n.c[2])
PrintLambda(w, n) == Block(PrintReturn(PrintNode(Put(w, <<"fn">>), n.c[1]), n.c[2]), n, n.c[3])

Postfixes == {"field_access", "await", "propagate", "index", "call", "turbofish"}

PrintExpr(w, n) ==
    CASE n.k \in {"int", "ident"} -> Put(w, n.v)
      [] n.k \in {"true", "false"} -> Put(w, <<n.k>>)
      [] n.k = "unit" -> Put(w, <<"(", ")">>)
      [] n.k = "string" -> Put(w, Quoted(n.v))
      [] n.k = "interp" -> Put(PrintInterpolation(Put(w, <<"\"">>), n.c), <<"\"">>)
      [] n.k = "list" -> PrintList(w, <<"[">>, n.c, <<"]">>)
      [] n.k = "map" -> PrintList(w, <<"{">>, n.c, <<"}">>)
      [] n.k = "tuple" -> PrintList(w, <<"(">>, n.c, <<")">>)
      [] n.k = "binary" -> PrintBinary(w, n)
      [] n.k = "unary" ->
           PrintOperand(Put(w, IF n.v[1] = "not" THEN <<"not", " ">> ELSE n.v), n.c[1], UnaryLevel)
      [] n.k = "assign" -> PrintNode(Put(PrintNode(w, n.c[1]), <<" ", "=", " ">>), n.c[2])
      [] n.k = "spawn" -> PrintNode(Put(w, <<"spawn", " ">>), n.c[1])
      [] n.k \in Postfixes -> PrintPostfix(w, n)
      [] n.k = "if" -> PrintIf(w, n)
      [] n.k = "match" -> PrintMatch(w, n)
      [] n.k = "for" -> PrintFor(w, n)
      [] n.k = "while" -> PrintWhile(w, n)
      [] n.k = "lambda" -> PrintLambda(w, n)

TypeKinds == {"named", "generic", "tuple_type", "fn_type"}
PrintType(w, n) ==
    CASE n.k = "named" -> Put(w, n.v)
      [] n.k = "generic" -> PrintList(w, n.v \o <<"<">>, n.c, <<">">>)
      [] n.k = "tuple_type" -> PrintList(w, <<"(">>, n.c, <<")">>)
      [] n.k = "fn_type" ->
           PrintReturn(PrintNode(Put(w, <<"fn">>), n.c[1]), n.c[2])

\* Patterns; literals are printed as expressions are.
PatternKinds == {"wildcard", "bind", "minus", "ctor", "pfield", "tuple_pattern"}
PrintPattern(w, n) ==
    CASE n.k = "wildcard" -> Put(w, <<"_">>)
      [] n.k = "bind" -> Put(w, n.v)
      [] n.k = "minus" -> Put(w, <<"-">> \o n.v)
      [] n.k = "ctor" -> IF n.c = <<>> THEN Put(w, n.v)
                         ELSE PrintList(w, n.v \o <<"(">>, n.c, <<")">>)
      [] n.k = "pfield" ->
           IF n.v = <<>> \/ (n.c[1].k = "bind" /\ n.c[1].v = n.v) THEN PrintNode(w, n.c[1])
           ELSE PrintNode(Put(w, n.v \o <<":", " ">>), n.c[1])
      [] n.k = "tuple_pattern" -> PrintList(w, <<"(">>, n.c, <<")">>)

PrintParam(w, n) ==
    PrintAnnotation(Put(w, IF n.c[1].v = n.v THEN n.v ELSE n.c[1].v \o <<" ">> \o n.v), n.c[2])

PrintTypeParam(w, n) ==
    FoldLeft(LAMBDA u, i : PrintNode(Put(u, IF i = 1 THEN <<":", " ">> ELSE <<" ", "+", " ">>), n.c[i]),
             Put(w, n.v), [i \in DOMAIN n.c |-> i])

PrintField(w, n) == PrintAnnotation(Put(w, IF n.k = "field" THEN n.v ELSE <<"mut", " ">> \o n.v), n.c[1])

PrintVariant(w, n) ==
    IF n.c = <<>> THEN Put(w, <<"|", " ">> \o n.v)
    ELSE PrintList(w, <<"|", " ">> \o n.v \o <<"(">>, n.c, <<")">>)

Statements == {"expr", "let", "mut", "tuple_let", "return", "defer", "break", "continue"}
PrintStmt(w, n) ==
    CASE n.k = "expr" -> PrintNode(w, n.c[1])
      [] n.k \in {"let", "mut"} ->
           PrintNode(Put(PrintAnnotation(Put(w, <<n.k, " ">> \o n.v), n.c[1]), <<" ", "=", " ">>), n.c[2])
      [] n.k = "tuple_let" ->
           LET names == PrintList(w, <<"let", " ", "(">>, n.c[1].c, <<")">>)
           IN  PrintNode(Put(PrintAnnotation(names, n.c[2]), <<" ", "=", " ">>), n.c[3])
      [] n.k = "return" -> IF n.c = <<>> THEN Put(w, <<"return">>)
                           ELSE PrintNode(Put(w, <<"return", " ">>), n.c[1])
      [] n.k = "defer" -> PrintNode(Put(w, <<"defer", " ">>), n.c[1])
      [] n.k \in {"break", "continue"} -> Put(w, <<n.k>>)

\* value and data
PrintRecord(w, n) ==
    LET head == PrintTypeParams(Put(w, ExportWord(n) \o <<n.k, " ">> \o n.v), n.c[1])
        fields == PrintNode(In(Put(InlineComment(head, n.l), <<"\n">>)), n.c[2])
    IN  Put(Indent(Out(fields)), <<"end">>)

PrintTypeDef(w, n) ==
    LET head == PrintTypeParams(Put(w, ExportWord(n) \o <<"type", " ">> \o n.v), n.c[1])
    IN  IF n.c[2].k = "alias" THEN InlineComment(PrintNode(Put(head, <<" ", "=", " ">>), n.c[2].c[1]), n.l)
        ELSE Out(PrintNode(In(InlineComment(Put(head, <<" ", "=">>), n.l)), n.c[2]))

PrintTrait(w, n) ==
    LET head == PrintTypeParams(Put(w, ExportWord(n) \o <<"trait", " ">> \o n.v), n.c[1])
        methods == PrintNode(In(Put(InlineComment(head, n.l), <<"\n">>)), n.c[2])
    IN  Put(Indent(Out(methods)), <<"end">>)

PrintImpl(w, n) ==
    LET args == PrintTypeParams(Put(w, <<"impl", " ">> \o n.v), n.c[1])
        head == PrintNode(Put(args, <<" ", "for", " ">>), n.c[2])
        methods == PrintNode(In(Put(InlineComment(head, n.l), <<"\n">>)), n.c[3])
    IN  Put(Indent(Out(methods)), <<"end">>)

PrintImport(w, n) ==
    LET path == FoldLeft(LAMBDA u, i : Put(u, (IF i = 1 THEN <<>> ELSE <<".">>) \o n.c[i].v),
                         Put(w, <<"import", " ">>), [i \in DOMAIN n.c |-> i])
    IN  IF n.v = <<>> THEN path ELSE Put(path, <<" ", "as", " ">> \o n.v)

\* The statements of a test are printed without comments or line breaks.
PrintTest(w, n) ==
    LET head == Put(w, <<"test", " ">> \o Quoted(n.v)
                       \o (IF Has(n, "panics") THEN <<" ", "panics", "\n">> ELSE <<"\n">>))
        body == FoldLeft(LAMBDA u, s : PrintNode(Indent(u), s), In(head), Last(n.c).c)
    IN  Put(Indent(Out(body)), <<"end", "\n">>)

PrintNode(w, n) ==
    CASE n.k \in Statements -> PrintStmt(w, n)
      [] n.k \in TypeKinds -> PrintType(w, n)
      [] n.k \in PatternKinds -> PrintPattern(w, n)
      [] n.k = "name" -> Put(w, n.v)
      [] n.k = "self" -> Put(w, <<"self">>)
      [] n.k \in {"params", "args"} -> PrintList(w, <<"(">>, n.c, <<")">>)
      [] n.k = "items" -> PrintItems(w, n.c)
      [] n.k = "body" -> PrintStmts(w, n.c)
      [] n.k = "arms" -> PrintArms(w, n.c)
      [] n.k \in {"methods", "fields", "adt"} -> PrintMembers(w, n.c)
      [] n.k = "param" -> PrintParam(w, n)
      [] n.k = "tparam" -> PrintTypeParam(w, n)
      [] n.k = "arg" -> PrintArg(w, n)
      [] n.k = "entry" -> PrintEntry(w, n)
      [] n.k \in {"field", "mut_field"} -> PrintField(w, n)
      [] n.k = "variant" -> PrintVariant(w, n)
      [] n.k \in SignatureKinds -> PrintFn(w, n)
      [] n.k \in {"value", "data"} -> PrintRecord(w, n)
      [] n.k = "typedef" -> PrintTypeDef(w, n)
      [] n.k = "trait" -> PrintTrait(w, n)
      [] n.k = "impl" -> PrintImpl(w, n)
      [] n.k = "import" -> PrintImport(w, n)
      [] n.k = "test" -> PrintTest(w, n)
      [] OTHER -> PrintExpr(w, n)

\* The items of a file, a blank line between them, comments before and after.
PrintItem(w, n, first) ==
    LET gap == IF first THEN w ELSE Put(w, <<"\n">>)
        before == [CommentLines(gap, w.last + 1, n.l) EXCEPT !.last = n.l - 1]
        item == PrintNode(before, n)
        line == IF n.k \in Statements \cup {"import"}
                THEN InlineComment(item, n.l) ELSE item
    IN  Reached(Put(line, <<"\n">>), n.e)

PrintFile(file, x) ==
    LET new == [Blank EXCEPT !.st = Standalone(x), !.il = Inline(x)]
        items == FoldLeft(LAMBDA w, i : PrintItem(w, file.c[i], i = 1), new,
                          [i \in DOMAIN file.c |-> i])
    IN  CommentLines(items, items.last + 1, Len(Lines(x)) + 1).out

=============================================================================
