----------------------------- MODULE MCFrontend -----------------------------
(***************************************************************************)
(* Programs with their disks, in five families: where a module lies; what  *)
(* nested blocks bind; who calls main; statements of a file; what is asked *)
(* of a module.                                                            *)
(***************************************************************************)
EXTENDS Frontend

File(items) == [parses |-> TRUE, items |-> items]
Broken      == [parses |-> FALSE, items |-> <<>>]
Export(it)  == [it EXCEPT !.export = TRUE]
Lines(it, look) == [it EXCEPT !.lines = look]
Test(at, name, body) == [Item("test", at, name) EXCEPT !.body = body]
Stmt(at, body) == [Item("stmt", at, "") EXCEPT !.body = body]
Main(body) == Fn(1, "main", NoBinds, body)
One(name, callable) == [n \in {name} |-> callable]

NoFiles == [f \in {} |-> Broken]
NoPackages == [r \in {} |-> ""]
Std == (<<<<"std">>, <<"string">>>> :> File(<<Export(Fn(900, "trim", NoBinds, <<Call(910, "__string_trim")>>))>>))

Alone(items, files) ==
  [main |-> File(items), project |-> "none", srcDir |-> FALSE, deps |-> {}, packages |-> NoPackages,
   stdlibs |-> <<[dir |-> <<"std">>, tree |-> TRUE]>>, files |-> files @@ Std]

-----------------------------------------------------------------------------
\* Where a module lies.
Private == Fn(130, "g", NoBinds, <<>>)
Content(kind, at) ==
  CASE kind = "lib"    -> File(<<Export(Fn(at, "f", NoBinds, <<>>)), Private, Export(Item("type", at + 1, "T"))>>)
    [] kind = "bin"    -> File(<<Export(Fn(at, "f", NoBinds, <<>>)), Fn(at + 2, "main", NoBinds, <<>>)>>)
    [] kind = "script" -> File(<<Export(Fn(at, "f", NoBinds, <<>>)), Stmt(at + 3, <<Call(at + 4, "f")>>)>>)
    [] kind = "tests"  -> File(<<Export(Fn(at, "f", NoBinds, <<>>)), Test(at + 5, "it", <<>>)>>)
    [] kind = "empty"  -> File(<<Private>>)
    [] kind = "broken" -> Broken
    \* Files whose lines mislead, and one that does not parse.
    [] kind = "indented" -> File(<<Export(Fn(at, "f", NoBinds, <<>>)), Lines(Fn(at + 2, "main", NoBinds, <<>>), "indented"),
                                   Lines(Stmt(at + 3, <<>>), "misleading")>>)
    [] kind = "async"    -> File(<<Lines(Export(Fn(at, "f", NoBinds, <<>>)), "misleading"), Lines(Test(at + 5, "it", <<>>), "indented")>>)
    [] kind = "ruin"     -> [Broken EXCEPT !.items = <<Stmt(at + 3, <<>>)>>]
At(place, kind, at) == IF kind = "none" THEN NoFiles ELSE (<<place, <<"m">>>> :> Content(kind, at))

Laid(p, s, d, k, l, own, dep, std) ==
  [main |-> File(<<Import(2, <<"m">>, ""), Main(<<Qualified(11, "m", "f")>>)>>), project |-> p, srcDir |-> s,
   deps |-> {[name |-> "m", from |-> d, root |-> "r"]}, packages |-> k,
   stdlibs |-> IF l THEN <<[dir |-> <<"elsewhere">>, tree |-> FALSE], [dir |-> <<"std">>, tree |-> TRUE]>> ELSE <<>>,
   files |-> At(IF p = "none" THEN <<"beside">> ELSE IF s THEN <<"src">> ELSE <<"root">>, own, 100)
               @@ At(Sources("r"), dep, 200) @@ At(<<"std">>, std, 300) @@ At(<<"elsewhere">>, "lib", 400)
               @@ (IF p = "none" THEN NoFiles ELSE At(<<"beside">>, "lib", 500))]
Layers ==
  {Laid("good", s, d, k, l, own, dep, std) :
     s, l \in BOOLEAN, d \in {"path", "git", "neither"}, k \in {NoPackages, "r" :> "m", "r" :> "other"},
     own \in {"none", "lib", "broken"}, std \in {"none", "lib"},
     dep \in {"none", "lib", "bin", "script", "tests", "indented", "async", "ruin"}}
Unled ==
  {Laid(p, s, "path", "r" :> "m", l, own, dep, std) :
     p \in {"none", "bad"}, s, l \in BOOLEAN, own \in {"none", "lib", "broken"}, dep \in {"lib", "bin"}, std \in {"none", "lib"}}

Two ==
  {Alone(<<Import(2, <<"m">>, ""), Import(3, <<"n">>, a), Main(<<Qualified(11, "m", "f"), Qualified(12, "n", "f")>>)>>,
         At(<<"beside">>, x, 100) @@ (IF y = "none" THEN NoFiles ELSE (<<<<"beside">>, <<"n">>>> :> Content(y, 200)))) :
     a \in {"", "m"}, x, y \in {"none", "lib", "empty", "broken"}}

-----------------------------------------------------------------------------
\* What nested blocks bind: sites are the places in the body.
Numbered(b, base) == [i \in DOMAIN b |-> [b[i] EXCEPT !.at = base + i]]
Binder(n) == {<<>>, <<Let(0, n, TRUE)>>, <<Let(0, n, FALSE)>>}
Opening(n) == {Open(0, "block", NoBinds), Open(0, "block", One(n, FALSE)), Open(0, "arm", One(n, TRUE)),
               Open(0, "untuple", One(n, FALSE)), Open(0, "tuple", NoBinds),
               Open(0, "lambda", NoBinds), Open(0, "lambda", One(n, TRUE))}
Shallow(n) == {p \o <<o>> \o q \o <<Call(0, n), Close(0), Call(0, n)>> : p, q \in Binder(n), o \in Opening(n)}
Deep(n) == {p \o <<o>> \o b \o <<Close(0), Call(0, n)>> : p \in Binder(n), o \in Opening(n), b \in Shallow(n)}

Owned(b, k, n) ==
  CASE k = "fn"    -> Fn(1, "h", NoBinds, Numbered(b, 10))
    [] k = "param" -> Fn(1, "h", One(n, TRUE), Numbered(b, 10))
    [] k = "impl"  -> Impl(1, "T", "show", NoBinds, Numbered(b, 10))
    [] k = "stmt"  -> Stmt(1, Numbered(b, 10))

Nested ==
  {Alone(<<Owned(b, k, "f"), Fn(2, "f", NoBinds, <<>>)>>, NoFiles) : b \in Deep("f"), k \in {"fn", "stmt"}}
    \cup {Alone(<<Owned(b, k, n), Fn(2, "f", NoBinds, <<>>)>>, NoFiles) :
            b \in Shallow("f") \cup Shallow("g"), n \in {"f"}, k \in {"fn", "param", "impl", "stmt"}}

\* Who calls main.
Mained ==
  {Alone(<<Owned(b, k, "main"), [Fn(2, "main", NoBinds, <<Call(60, "h")>>) EXCEPT !.fails = x]>>, NoFiles) :
     b \in Shallow("main"), k \in {"fn", "param", "impl"}, x \in BOOLEAN}

-----------------------------------------------------------------------------
\* Statements of a file, in any order, with what stands between them.
Between(at) ==
  {Stmt(at, <<Let(at + 1, "f", TRUE)>>), Stmt(at, <<Call(at + 1, "f")>>),
   Stmt(at, <<Open(at + 1, "block", NoBinds), Let(at + 2, "f", TRUE), Call(at + 3, "f"), Return(at + 4), Close(at + 5)>>),
   Stmt(at, <<Open(at + 1, "lambda", NoBinds), Return(at + 2), Close(at + 3)>>),
   Stmt(at, <<Open(at + 1, "part", NoBinds), Marked(Call(at + 2, "f"), ".await"), Close(at + 3)>>),
   Stmt(at, <<Open(at + 1, "tuple", NoBinds), Marked(Call(at + 2, "f"), "?"), Close(at + 3)>>),
   Stmt(at, <<Return(at + 1)>>), Stmt(at, <<Marked(Call(at + 1, "print"), "?")>>),
   Stmt(at, <<Marked(Call(at + 1, "print"), ".await")>>),
   Fn(at, "f", NoBinds, <<>>), Fn(at, "h", One("f", TRUE), <<Call(at + 1, "f")>>), Fn(at, "h", NoBinds, <<Call(at + 1, "f")>>),
   Fn(at, "main", NoBinds, <<>>), Fn(at, "print", NoBinds, <<>>), Test(at, "it works", <<Call(at + 1, "f")>>),
   Item("type", at, "h"), Fn(at, "eprintln", NoBinds, <<>>), Stmt(at, <<Call(at + 1, "eprintln"), Call(at + 2, "print")>>)}
Ending(at) ==
  {Stmt(at, <<Call(at + 1, "f")>>), Fn(at, "h", NoBinds, <<Call(at + 1, "f")>>), Stmt(at, <<Let(at + 1, "f", TRUE)>>),
   Test(at, "it works", <<Call(at + 1, "f")>>), Item("type", at, "h"), Stmt(at, <<Call(at + 1, "eprintln")>>),
   Stmt(at, <<Open(at + 1, "tuple", NoBinds), Call(at + 2, "f"), Close(at + 3)>>)}
Scripts == {Alone(<<a, b, c>>, NoFiles) : a \in Between(10), b \in Between(20), c \in Ending(30)}

-----------------------------------------------------------------------------
\* What is asked of a module.
SysLike == (<<<<"beside">>, <<"sys">>>> :> File(<<Export(Fn(100, "exit", NoBinds, <<>>))>>))
SysBare == (<<<<"beside">>, <<"sys">>>> :> File(<<Private>>))
Asks == {Import(2, <<"core", "sys">>, ""), Import(2, <<"core", "sys">>, "m"), Import(2, <<"core", "tasks">>, ""),
         Import(2, <<"core", "tasks">>, "m"), Import(2, <<"sys">>, ""), Import(2, <<"m">>, ""), Import(2, <<"m">>, "string")}
Answers == {Qualified(11, x, n) : x \in {"sys", "tasks", "m", "string"}, n \in {"exit", "env", "join_all", "f", "g", "trim"}}
\* Where in main, or in a test, it is asked.
Asking(a, where) ==
  CASE where = "let"   -> <<Let(10, "m", FALSE), a>>
    [] where = "arm"   -> <<Open(10, "arm", One("m", FALSE)), a, Close(12)>>
    [] where = "tuple" -> <<Open(10, "tuple", NoBinds), a, Close(12)>>
    [] where = "both"  -> <<Open(10, "arm", One("m", FALSE)), Open(12, "tuple", NoBinds), a, Close(13), Close(14)>>
    [] OTHER           -> <<a>>
Requests ==
  {Alone(<<i>> \o (IF w = "test" THEN <<Test(3, "t", <<a>>)>> ELSE <<>>)
             \o <<[Main(IF w = "test" THEN <<>> ELSE Asking(a, w)) EXCEPT !.fails = x]>>, IF c = "lib" THEN At(<<"beside">>, c, 100) @@ SysLike ELSE At(<<"beside">>, c, 100) @@ SysBare) :
     i \in Asks, a \in Answers, c \in {"lib", "empty"}, x \in BOOLEAN,
     w \in {"plain", "let", "arm", "tuple", "both", "test"}}

Unparsed == {[Alone(<<>>, NoFiles) EXCEPT !.main = Broken]}

\* A program that stands in the standard library it uses.
AtHome == {[Alone(<<Import(2, <<"m">>, ""), Main(<<Qualified(11, "m", "f")>>)>>, At(<<"beside">>, x, 100))
              EXCEPT !.stdlibs = <<[dir |-> <<"beside">>, tree |-> TRUE]>>] : x \in {"none", "lib"}}

MCWorlds == UNION {AtHome, Layers, Unled, Two, Nested, Mained, Scripts, Requests, Unparsed}
=============================================================================
