---------------------------- MODULE MCFormatter ----------------------------
(***************************************************************************)
(* Sources for Formatter: expressions with parentheses that are needed and  *)
(* that are not, the constructs of the language one by one, long headers,   *)
(* and bodies with up to two comments on any of their lines.                *)
(***************************************************************************)
EXTENDS Formatter

\* f(x) on a line of its own, and a function around the lines of a body
Line1(x) == x \o <<"\n">>
FnOf(lines) == Line1(<<"fn", " ", "f", "(", ")">>) \o FlattenSeq(lines) \o Line1(<<"end">>)
Call == Line1(<<"f", "(", "x", ")">>)
End == Line1(<<"end">>)

Binary(as, bs) == {a \o <<" ", o, " ">> \o b : a \in as, o \in {"+", "-", "*", "==", "<", "and", "="}, b \in bs}
InParens(as) == {<<"(">> \o a \o <<")">> : a \in as}

Flat == Binary({<<"x">>, <<"-", "y">>}, {<<"x">>})
Operands == Flat \cup {<<"-", "y">>, <<"spawn", " ", "f", "(", ")">>, <<"if", " ", "x", " ", "y", " ", "end">>}
Expressions ==
    Binary(Flat \cup InParens(Flat), {<<"x">>}) \cup Binary({<<"x">>}, InParens(Flat))
    \cup {a \o p : a \in InParens(Operands),
                   p \in {<<".", "f">>, <<".", "await">>, <<"(", "x", ")">>, <<"[", "x", "]">>, <<"?">>}}
    \cup {p \o a : p \in {<<"-">>, <<"not", " ">>, <<"spawn", " ">>}, a \in InParens(Operands)}

\* One source for each other form of an expression, a type or a pattern.
Atoms ==
    {<<"(", ")">>, <<"true">>, <<"1", "0">>, <<"[", "x", ",", "1", ",", "]">>, <<"[", "]">>,
     <<"{", "x", ":", "1", ",", "y", ":", "-", "2", "}">>, <<"(", "x", ",", "y", ")">>,
     <<"(", "x", ",", ")">>, <<"f", "(", "x", ":", "y", ",", "type", ":", "1", ")">>,
     <<"f", "::", "<", "Int", ">", "(", "x", ")">>, <<"x", ".", "value">>, <<"value">>,
     <<"f", "(", "\n", "x", ",", "\n", "y", "\n", ")">>,
     <<"f", "(", "fn", "(", "x", ":", "Int", ")", " ", "->", " ", "Int", "\n", "x", "\n", "end", ")">>,
     <<"if", " ", "x", "\n", "y", "\n", "end", " ", "-", " ", "y", " ", "-", " ", "x">>}
Strings ==
    {<<"\"">> \o v \o <<"\"">> : v \in
        {<<>>, <<"x", "#", "y">>, <<"\\", "\"">>, <<"\\", "n">>, <<"\\", "\\", "n">>, <<"#", "{", "x", "}">>,
         <<"x", "#", "{", "f", "(", "y", ")", "}", "\\", "t">>, <<"#", "{", "x", "}", "#", "{", "{", "}", "}">>,
         <<"#", "{", "f", "(", "\"", "y", "\"", ")", "}">>, <<"#", "{", "f", "(", "\"", "#", "\"", ")", "}">>,
         <<"#", "{", "f", "(", "\"", "\\", "\"", "\"", ")", "}">>,
         <<"#", "{", "f", "(", "\"", "#", "{", "x", "}", "\"", ")", "}", "#", "y">>}}
    \cup {<<"r", "\"">> \o v \o <<"\"">> : v \in {<<"x">>, <<"\\", "n">>, <<"#", "{", "x", "}">>, <<"\\">>, <<"#">>}}
TypeTexts ==
    {<<"Int">>, <<"List", "<", "List", "<", "T", ">", " ", ">">>, <<"(", "Int", ",", "T", ")">>,
     <<"fn", "(", "Int", ")", "->", "fn", "(", ")", "->", "T">>, <<"m", ".", "T">>}
PatternTexts ==
    {<<"_">>, <<"x">>, <<"1">>, <<"-", "1">>, <<"\"", "x", "\"">>, <<"true">>, <<"None">>, <<"None", "(", ")">>,
     <<"Ok", "(", "x", ")">>, <<"Ok", "(", "x", ":", "y", ")">>, <<"Ok", "(", "x", ":", "x", ")">>,
     <<"Ok", "(", "Ok", "(", "_", ")", ",", "1", ")">>, <<"Ok", "(", "x", ":", "Ok", "(", "y", ")", ")">>,
     <<"(", "x", ",", "None", ")">>, <<"x", "(", ")">>, <<"Ok", "(", "type", ")">>}
Bindings == {b \o <<" ", "=", " ", "x">> : b \in
                {<<"let", " ", "y">>, <<"mut", " ", "y", ":", "Int">>, <<"let", " ", "(", "x", ",", "y", ")">>,
                 <<"let", " ", "type">>}}
Loops == {h \o <<"\n", "break", "\n", "end">> : h \in
             {<<"while", " ", "x">>, <<"for", " ", "x", " ", "in", " ", "y">>, <<"for", " ", "x", ",", "y", " ", "in", " ", "y">>,
              <<"for", " ", "(", "x", ",", "y", ")", " ", "in", " ", "y">>}}

Bodies ==
    {FnOf(<<Line1(s)>>) : s \in Expressions \cup Atoms \cup Strings \cup Bindings \cup Loops
                               \cup {<<"return">>, <<"return", " ", "x">>, <<"defer", " ", "f", "(", ")">>, <<"continue">>}}
    \cup {FnOf(<<Line1(<<"let", " ", "y", ":", " ">> \o ty \o <<" ", "=", " ", "x">>)>>) : ty \in TypeTexts}
    \cup {FnOf(<<Line1(<<"match", " ", "x">>), Line1(<<"when", " ">> \o p), Call, End>>) : p \in PatternTexts}

\* Declarations, with headers on both sides of the limit.
Params == {<<>>, <<"x", ":", "Int">>, <<"x", ":", "Int", ",", "y", " ", "x", ":", "T">>, <<"_", " ", "x", ":", "Int">>,
           <<"x", ":", "Int", ",", "y", ":", "Int", ",", "value", ":", "Int", ",">>}
Headers == {a \o <<"fn", " ", "f">> \o g \o <<"(">> \o ps \o <<")">> \o r :
                a \in {<<>>, <<"export", " ">>, <<"async", " ">>, <<"export", " ", "async", " ">>},
                g \in {<<>>, <<"<", "T", ":", "Eq", "+", "Eq", ",", "y", ">">>},
                ps \in Params, r \in {<<>>, <<"->", "List", "<", "T", ">">>}}
Declarations ==
    {Line1(h) \o Call \o End : h \in Headers}
    \cup {Line1(<<k, " ", "T", "<", "x", ">">>) \o Line1(<<"mut", " ", "x", ":", "Int">>) \o Line1(<<"type", ":", "T">>) \o End :
              k \in {"value", "data"}}
    \cup {Line1(<<"type", " ", "T", "=", "Int">>), Line1(<<"export", " ", "type", " ", "T", "=", "\n", "|", "Ok", "(", "x", ":", "Int", ")", "|", "None">>),
          Line1(<<"trait", " ", "Eq">>) \o Line1(<<"fn", " ", "f", "(", "self", ",", "y", ":", "T", ")", "->", "Int">>) \o End,
          Line1(<<"impl", " ", "Eq", "<", "T", ">", " ", "for", " ", "Int">>)
              \o Line1(<<"fn", " ", "f", "(", "self", ")">>) \o Call \o End \o End,
          Line1(<<"import", " ", "x", ".", "y", " ", "as", " ", "f">>), Line1(<<"import", " ", "x">>) \o Call,
          Line1(<<"test", " ", "\"", "x", "\"", " ", "panics">>) \o Call \o End}

\* Lines of programs between and after which comments are put.
Programs ==
    {<<<<"import", " ", "x">>, <<"type", " ", "T", "=", "Int">>, <<"fn", " ", "f", "(", ")">>, <<"if", " ", "x">>, <<"y">>, <<"else">>,
       <<"\"", "\\", "\"", "#", "\"">>, <<"end">>, <<"x">>, <<"end">>>>,
     <<<<"fn", " ", "f", "(", ")">>, <<"match", " ", "x">>, <<"when", " ", "Ok", "(", "y", ")">>, <<"y">>, <<"x">>, <<"when", " ", "_">>, <<"x">>,
       <<"end">>, <<"x">>, <<"end">>>>,
     <<<<"value", " ", "T">>, <<"x", ":", "Int">>, <<"end">>, <<"impl", " ", "Eq", " ", "for", " ", "T">>, <<"fn", " ", "f", "(", "self", ")">>, <<"x">>,
       <<"f", "(", "fn", "(", ")">>, <<"y">>, <<"end", ")">>, <<"end">>, <<"end">>>>,
     <<<<"type", " ", "T", "=">>, <<"|", "Ok">>, <<"|", "None">>, <<"fn", " ", "f", "(", "x", ":", "Int", ",", "y", ":", "Int", ",", "value", ":", "Int", ")", "->", "Int">>,
       <<"while", " ", "x">>, <<"y">>, <<"continue">>, <<"end">>, <<"return", " ", "y">>, <<"end">>, <<"x">>>>}

Note(n) == <<"#", n>>
\* A string with a comment after it, and a comment on the line after that one.
NotedStrings == {FnOf(<<Line1(s \o <<" ">> \o Note("a")), Line1(Note("b")), Call>>) : s \in Strings}

\* A program with comment n alone on a line before line i, or after its code.
Noted(lines, n, i, alone) ==
    IF alone THEN InsertAt(lines, i, Note(n))
    ELSE [lines EXCEPT ![i] = @ \o <<" ">> \o Note(n)]
CommentedSources ==
    {FlattenSeq([k \in DOMAIN p |-> Line1(p[k])]) :
        p \in UNION {UNION {{Noted(Noted(q, "a", i, a), "b", j, b) : j \in 1..i, b \in BOOLEAN}
                            : i \in DOMAIN q, a \in BOOLEAN} : q \in Programs}}

Broken == <<"fn", " ", "(", "\n">>

\* One file, or two of which either may be the broken one.
MCProjects ==
    {<<x>> : x \in Bodies \cup Declarations \cup CommentedSources \cup NotedStrings}
    \cup {<<Broken, FnOf(<<Call>>)>>, <<FnOf(<<Call>>), Broken>>, <<FnOf(<<Call>>), Call>>}

=============================================================================
