----------------------------- MODULE MCCompiler -----------------------------
(***************************************************************************)
(* Three families of bodies: what becomes of a handle, what is deferred    *)
(* and where a function is left, and which variable a name stands for.     *)
(***************************************************************************)
EXTENDS Compiler

x == <<"x">>
y == <<"y">>
t == <<"t">>

\* A statement before it gets its site; the sites spell the path to it.
One(op, name)    == Stmt(op, 0, name, <<>>)
Op(op)           == One(op, NoName)
In(op, name, as) == Stmt(op, 0, name, as)
Block(name, b)   == Alt(0, name, b)

RECURSIVE Sited(_, _)
Sited(b, p) ==
  [i \in DOMAIN b |->
     Stmt(b[i].op, 10 * p + i, b[i].name,
          [j \in DOMAIN b[i].alts |->
             LET q == 100 * p + 10 * i + j
             IN  Alt(q, b[i].alts[j].name, Sited(b[i].alts[j].body, q))])]

\* A break or a continue is in a loop, and nothing follows an exit.
RECURSIVE IsWellFormed(_, _)
IsWellFormed(b, looping) ==
  /\ \A i \in DOMAIN b : /\ b[i].op \in {"break", "continue"} => looping
                         /\ b[i].op \in Exits => i = Len(b)
                         /\ \A j \in DOMAIN b[i].alts :
                              IsWellFormed(b[i].alts[j].body,
                                           b[i].op \in Loops \/ (looping /\ b[i].op # "lambda"))

Blank == {<<>>}
Singles(as)    == {<<a>> : a \in as}
Pairs(as, bs)  == {<<a, b>> : a \in as, b \in bs}
Branches(as, bs) == {In("branch", NoName, <<Block(NoName, a), Block(NoName, b)>>) : a \in as, b \in bs}
Within(ops, name, bs) == {In(op, NoName, <<Block(name, b)>>) : op \in ops, b \in bs}
Awaiting(bs)   == {In("while", t, <<Block(NoName, b)>>) : b \in bs}
Tuples(bs)     == Within({"tuple"}, NoName, bs)

-----------------------------------------------------------------------------
Handles ==
  LET uses    == {One("await", t), One("select", t), One("use", t)}
      awaits  == {One("await", t)}
      spawns  == {One("spawn", t)}
      leaves  == {Op(e) : e \in Exits}
      short   == Blank \cup Singles(uses \cup leaves) \cup Pairs(uses, uses \cup leaves) \cup Pairs(spawns, uses)
      tiny    == Blank \cup Singles(awaits \cup leaves)
      flat    == Branches(short, tiny) \cup Within(Loops \cup {"lambda"}, NoName, short) \cup Awaiting(short)
      forks   == Branches(tiny \cup Pairs(awaits, leaves), tiny)
      triples == {<<a, f, e>> : a \in awaits, f \in Branches(tiny, Blank), e \in leaves}
      inner   == Within({"while"}, NoName, triples \cup Pairs(forks, leaves) \cup Pairs(awaits, forks))
      tuples  == Tuples(Singles(awaits) \cup Pairs(uses, awaits) \cup Pairs(awaits, uses) \cup Pairs(awaits, Branches(tiny, Blank)))
      deep    == Within({"while", "for"}, NoName,
                        Singles(forks) \cup Pairs(forks, awaits \cup leaves) \cup Pairs(awaits, forks)
                        \cup triples \cup Singles(inner) \cup Pairs(inner, leaves))
  IN  {<<One("spawn", t), s>> : s \in uses \cup flat \cup deep}
      \cup {<<One("spawn", t), s, u>> : s \in uses \cup flat \cup tuples, u \in uses}
      \cup {<<One("spawn", t), s>> : s \in tuples \cup Within({"while"}, NoName, Singles(tuples))}

Deferring ==
  LET steps   == {Op("defer"), Op("try"), Op("return"), Op("generic")}
      defers  == {Op("defer")}
      leaves  == {Op(e) : e \in Exits} \cup {Op("try")}
      short   == Blank \cup Singles(steps) \cup Pairs(steps, steps)
      inside  == Branches(short, Blank \cup Singles({Op("defer"), Op("return")}))
                 \cup Within(Loops \cup {"lambda"}, NoName,
                             Blank \cup Singles(leaves) \cup Pairs(Branches(Singles(leaves), Blank), steps)
                             \cup Singles(Branches(Singles(defers), Singles(leaves))))
                 \cup Tuples(Pairs(Branches(Singles(defers \cup leaves), Blank), {Op("try")}))
  IN  {<<a, b, c>> : a \in steps, b \in inside, c \in steps}

Naming ==
  LET reads   == {One("use", x)}
      lets    == {One("let", x)}
      short   == Blank \cup Singles(reads \cup lets) \cup Pairs(lets, reads) \cup Pairs(reads, lets)
      takes   == Singles(Within({"each", "lambda"}, NoName, Singles(reads)))
      blocks  == {Block(n, b) : n \in {x, y, NoName}, b \in short \cup takes}
      arms    == {In("branch", NoName, <<a, b>>) : a \in blocks, b \in {Block(x, <<One("use", x)>>), Block(NoName, <<>>)}}
      nests   == {In(op, NoName, <<a>>) : op \in {"for", "each", "lambda"}, a \in blocks}
                 \cup Within({"while"}, NoName, short) \cup Within({"untuple"}, x, short \cup takes)
      pairs   == Tuples(Pairs(reads, reads \cup {In("branch", NoName, <<Block(n, b), Block(NoName, <<>>)>>) :
                                                   n \in {x, y}, b \in Singles(reads) \cup Pairs(lets, reads)}))
      held    == {In(op, NoName, <<Block(n, <<p>>)>>) :
                    op \in {"branch", "untuple", "for", "each", "lambda"}, n \in {x, y}, p \in pairs}
                 \cup Within({"branch", "untuple", "for", "each", "lambda"}, y,
                             Singles(Tuples(Singles({One("use", y)}))))
      outer   == {In(op, NoName, <<Block(n, <<s, One("use", x)>>)>>) :
                     op \in {"for", "each", "lambda"}, n \in {x, y}, s \in arms \cup nests}
  IN  {<<One("let", x), s, One("use", x)>> : s \in arms \cup nests \cup outer \cup pairs \cup held}
      \cup {<<One("let", x), l, p>> : l \in lets, p \in pairs}
      \cup {<<u, l, One("use", x)>> : u \in Within({"untuple"}, x, short), l \in lets}
      \cup {<<One("let", x), r, s, One("use", x)>> :
               r \in lets \cup Within({"for", "each", "lambda"}, x, Singles(lets)), s \in arms \cup nests}

Legal(bs) == {Sited(b, 0) : b \in {b \in bs : IsWellFormed(b, FALSE)}}

\* Right sides of `and` that await.
Conjunctions == {[body |-> b, top |-> FALSE] : b \in Legal(
                 {<<One("spawn", t), One("and", t)>>, <<One("spawn", t), One("and", t), One("and", t)>>})}

MCSources == Conjunctions
             \cup {[body |-> b, top |-> top] : b \in Legal(Deferring), top \in BOOLEAN}
             \cup {[body |-> b, top |-> FALSE] : b \in Legal(Handles) \cup Legal(Naming)}
==============================================================================
