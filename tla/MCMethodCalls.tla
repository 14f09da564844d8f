---------------------------- MODULE MCMethodCalls ----------------------------
(***************************************************************************)
(* Values of every kind, as a parameter, as the result of a function, as   *)
(* what a let binds; with and without impls and imports.                   *)
(***************************************************************************)
EXTENDS MethodCalls

Carried == {List(Int), List(String), <<"Map", String, Int>>, <<"Set", String>>,
            <<"LinkedMap", Int, String>>, <<"LinkedSet", String>>,
            <<"SortedMap", Int, String>>, <<"SortedSet", String>>,
            Option(Int), Option(String), String, Int, Bool, Float, <<"V">>, <<"D">>}

NoImpls == [k \in {} |-> None]
ShowV   == (<<"V", "show">> :> String)
ShowAll == (<<"V", "show">> :> String) @@ (<<"D", "show">> :> Option(Int))
LenD    == (<<"D", "len">> :> Int)

News   == {New(c) : c \in {"set", "LinkedMap", "LinkedSet", "SortedMap", "SortedSet"}}
Lists  == {ListLit(<<l>>) : l \in Literals} \union {ListLit(<<k, l>>) : k, l \in Literals}
Plain  == Literals \ {Lit(Bool)}
Froms  == {From(Pairs(<<k, v>>)) : k, v \in Plain} \union {From(Pairs(<<k, v, l, w>>)) : k, v, l, w \in Plain}
Ctors  == {Ctor("V", labels, <<a, b>>) :
             labels \in {<<"", "">>, <<"n", "s">>, <<"s", "n">>, <<"s", "">>}, a, b \in Literals}
Makes  == {Make(t) : t \in Carried}

Header(p, r, i, m, a, s) ==
  [param |-> p, ret |-> r, impls |-> i, imports |-> m, annotations |-> a, starts |-> s]

All == {"list", "string", "assert"}

MCHeaders ==
  {Header(p, Unit, NoImpls, All, {}, {}) : p \in Carried}
    \union {Header(Int, Unit, NoImpls, All, {}, s) : s \in {Makes, Lists \union Ctors}}
    \union {Header(<<"V">>, Unit, i, {"string"}, {}, {Make(<<"D">>)}) : i \in {ShowV, ShowAll, LenD}}
    \union {Header(<<"V">>, Unit, NoImpls, {}, {}, {})}
    \union {Header(String, Unit, i, m, {}, {}) : i \in {NoImpls, LenD}, m \in {{}, {"string"}}}
    \union {Header(Int, r, NoImpls, {}, {}, News \union Froms) : r \in
              {<<"Set", String>>, <<"LinkedMap", Int, String>>, Option(<<"LinkedSet", Int>>),
               <<"SortedSet", Int>>}}
    \union {Header(Int, Unit, NoImpls, {}, {a}, News \union Froms) : a \in
              {List(<<"Set", String>>), <<"LinkedMap", Int, String>>, <<"SortedMap", String, Int>>,
               <<"SortedSet", Float>>}}

MCMethods == {"insert", "remove", "get", "contains_key", "contains", "len", "ok_or", "show", "trim",
              "parse_int"}
=============================================================================
