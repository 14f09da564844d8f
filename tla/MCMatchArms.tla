----------------------------- MODULE MCMatchArms -----------------------------
(* Scalars, a type of constants, one with payload, the Options and Results *)
(* of these that the code tells apart, and a pair.  Programs: two          *)
(* declarations that refer to each other in either order, for what they    *)
(* derive; and one declaration A over all kinds of fields, for operators.  *)
EXTENDS Comparisons

MCScalars == [Int |-> {"0", "1"}, Bool |-> {"true", "false"}, String |-> {"a", "b"}]

Enum(kind, variants) == [kind |-> kind, variants |-> variants]
OptionOf(t) == Enum("generic", [Some |-> <<t>>, None |-> <<>>])

MCTypes ==
  [Colour     |-> Enum("unit",   [Red |-> <<>>, Blue |-> <<>>]),
   Shape      |-> Enum("struct", [Dot |-> <<"Int">>, Box |-> <<"Int", "Colour">>]),
   Pair       |-> Enum("tuple",  [Tuple |-> <<"Int", "Int">>]),
   OptColour  |-> OptionOf("Colour"),
   OptShape   |-> OptionOf("Shape"),
   OptInt     |-> OptionOf("Int"),
   OptString  |-> OptionOf("String"),
   OptOpt     |-> OptionOf("OptInt"),
   Res        |-> Enum("generic", [Ok |-> <<"Int">>, Err |-> <<"Colour">>])]

MCMaxArms == [Bool |-> 3, Colour |-> 3, Shape |-> 2, Pair |-> 2, OptColour |-> 3, OptShape |-> 2,
              OptInt |-> 3, OptString |-> 3, OptOpt |-> 2, Res |-> 3]

Decl(name, kind, mutable, variants) ==
  [name |-> name, kind |-> kind, mutable |-> mutable, variants |-> variants]

\* Declarations called n, with lists of fields from a set.
Kinds(n, lists, payloads) ==
  {Decl(n, k, FALSE, <<f>>) : k \in {"value", "data"}, f \in lists}
  \cup {Decl(n, "data", TRUE, <<f>>) : f \in lists}
  \cup {Decl(n, "adt", FALSE, <<f, g>>) : f \in payloads, g \in payloads}

Lists(types, n) == UNION {[1 .. m -> types] : m \in 0 .. n}
OptionFor(t) == Type("Option", <<t>>)

TA == Plain("A")
TB == Plain("B")
Mutual == {TInt, TFloat, TA, TB, OptionFor(TA), OptionFor(TB), Plain("T")}

Deriving ==
  {[decls |-> d, asks |-> {}] :
     d \in UNION {{<<a, b>>, <<b, a>>} : a \in Kinds("A", Lists(Mutual, 2), Lists(Mutual, 1)),
                                         b \in Kinds("B", Lists({TInt, TA, OptionFor(TA)}, 1), {})}}

\* What A is made of: scalars, constants, values, an object, Options.
Others == <<Decl("Enum", "adt", FALSE, <<<<>>, <<>>>>),
            Decl("Cents", "value", FALSE, <<<<TInt>>>>),
            Decl("Label", "value", FALSE, <<<<TString>>>>),
            Decl("Cell", "data", TRUE, <<<<TInt>>>>)>>
OtherTypes == {Plain(Others[i].name) : i \in DOMAIN Others}
Parts1 == {TInt, TBool, TString, TFloat, OptionFor(TInt), OptionFor(TString)} \cup OtherTypes

Operating ==
  {[decls |-> <<a>> \o Others, asks |-> {TA}] :
     a \in {d \in Kinds("A", Lists(Parts1, 2), Lists(Parts1 \cup {TA}, 1)) : ~ d.mutable}
           \cup {Decl("A", "adt", FALSE, <<<<TA, TInt>>, <<>>>>)}}

Scalar == {TInt, TBool, TFloat, TString, Plain("Fn")}
Compound == {OptionFor(t) : t \in Scalar \cup OtherTypes}
            \cup {OptionFor(OptionFor(TInt)), Type("Result", <<TInt, TString>>),
                  Type("Result", <<Plain("Cents"), Plain("Enum")>>)}
OnOthers == {[decls |-> Others, asks |-> {t, TInt}] : t \in Scalar \cup OtherTypes \cup Compound}

MCPrograms == Deriving \cup Operating \cup OnOthers
==============================================================================
