------------------------------ MODULE Frontend ------------------------------
(***************************************************************************)
(* One compilation (tyra-frontend/src/lib.rs, check_unit and compile_unit, *)
(* as the driver calls it): the file that is compiled is parsed and        *)
(* rewritten, its imports are loaded one by one and added, its names are   *)
(* resolved, its calls checked and lowered.  What reports an error ends it *)
(* there, but for the imports, which are all tried unless a file that was  *)
(* found is not to be parsed.                                              *)
(***************************************************************************)
EXTENDS Names

CONSTANTS Worlds   \* the disks, with the file `main` on them

\* A world is a disk whose items are those of Names.  Places are places: no
\* import of the file that is compiled shares its place with what is something
\* else, in this file or another.
ItemFields == {"k", "at", "name", "source", "path", "alias", "params", "body", "export", "merged", "fails", "panics", "lines"}
EventFields == {"e", "at", "name", "mod", "callable", "binds", "mark"}
IsItem(it) ==
  /\ it = [f \in ItemFields |-> it[f]]
  /\ it.k \in {"fn", "impl", "type", "stmt", "test", "import"}
  /\ it.at \in Nat \ {0} /\ it.merged = FALSE /\ it.lines \in {"plain", "indented", "misleading"}
  /\ it.k = "import" => it.path \in Seq(Range(it.path)) \ {<<>>}
  /\ it.body \in Seq(Range(it.body))
  /\ \A ev \in Range(it.body) : ev = [f \in EventFields |-> ev[f]] /\ ev.at \in Nat \ {0}
IsFile(file) == file.items \in Seq(Range(file.items)) /\ \A it \in Range(file.items) : IsItem(it)
Written(w) == Range(w.main.items) \cup UNION {Range(w.files[f].items) : f \in DOMAIN w.files}

ASSUME WorldsAssumption ==
  \A w \in Worlds :
    /\ IsFile(w.main) /\ \A f \in DOMAIN w.files : f = <<f[1], f[2]>> /\ IsFile(w.files[f])
    /\ IsFiniteSet(w.deps)
    /\ \A imp \in Range(w.main.items) : imp.k = "import" =>
         \A it \in Written(w) : /\ it.k # "import" => it.at # imp.at
                                /\ \A ev \in Range(it.body) : ev.at # imp.at

VARIABLES
  disk,     \* the disk of this compilation
  phase,    \* the next pass: "rewrite", "imports", "resolve", "check", "lower", "done"
  unit,     \* the items, as far as they have been rewritten
  queue,    \* the imports to load
  merged,   \* what the imports add
  errors,   \* <<code, site>>
  index,    \* what the uses of names refer to
  program   \* the functions, none while there are none

vars == <<disk, phase, unit, queue, merged, errors, index, program>>

Init ==
  /\ disk \in Worlds
  /\ phase = "rewrite" /\ unit = disk.main.items /\ queue = <<>> /\ merged = <<>>
  /\ errors = {} /\ index = {} /\ program = <<>>

\* The first passes.
Rewritten(items) == ShadowsRenamed(PatternsRenamed(TestsDesugared(WithAutoImports(items))))
Rewrite ==
  /\ phase = "rewrite" /\ disk.main.parses
  /\ unit' = Rewritten(unit) /\ queue' = OfKind(unit', {"import"}) /\ phase' = "imports"
  /\ UNCHANGED <<disk, merged, errors, index, program>>
RefuseMain ==
  /\ phase = "rewrite" /\ ~disk.main.parses
  /\ errors' = {<<"parse", 0>>} /\ phase' = "done"
  /\ UNCHANGED <<disk, unit, queue, merged, index, program>>

SkipBuiltin ==
  /\ phase = "imports" /\ queue # <<>> /\ IsBuiltinModule(Head(queue).path)
  /\ queue' = Tail(queue)
  /\ UNCHANGED <<disk, phase, unit, merged, errors, index, program>>

ToLoad(imp) == phase = "imports" /\ queue # <<>> /\ imp = Head(queue) /\ ~IsBuiltinModule(imp.path)

\* The answer is no file, or a file that cannot be read.
MissImport ==
  \E imp \in Range(queue) :
     /\ ToLoad(imp)
     /\ LET answer == Resolution(disk, imp.path)
        IN  errors' = errors \cup {<<IF answer.kind = "Found" THEN "unread" ELSE CodeOf(answer), imp.at>>}
     /\ queue' = Tail(queue)
     /\ UNCHANGED <<disk, phase, unit, merged, index, program>>

\* The file is parsed.  The question that follows is whether there are errors,
\* not whether this file had some.
LoadImport ==
  \E imp \in Range(queue) :
     /\ ToLoad(imp)
     /\ LET answer == Resolution(disk, imp.path)  file == disk.files[answer.file]
        IN  /\ answer.kind = "Found"
            /\ errors' = errors \cup (IF file.parses THEN {} ELSE {<<"parse", imp.at>>})
            /\ IF errors' # {} THEN phase' = "done" /\ UNCHANGED <<queue, merged>>
               ELSE /\ queue' = Tail(queue) /\ merged' = merged \o Merged(file, imp.name)
                    /\ UNCHANGED phase
     /\ UNCHANGED <<disk, unit, index, program>>

AddImports ==
  /\ phase = "imports" /\ queue = <<>>
  /\ unit' = unit \o merged /\ phase' = IF errors = {} THEN "resolve" ELSE "done"
  /\ UNCHANGED <<disk, queue, merged, errors, index, program>>

Resolve ==
  /\ phase = "resolve"
  /\ LET resolved == Resolved(unit)
     IN  index' = resolved.index /\ errors' = resolved.errors
  /\ phase' = IF errors' = {} THEN "check" ELSE "done"
  /\ UNCHANGED <<disk, unit, queue, merged, program>>

Check ==
  /\ phase = "check"
  /\ errors' = Checked(unit) /\ phase' = IF errors' = {} THEN "lower" ELSE "done"
  /\ UNCHANGED <<disk, unit, queue, merged, index, program>>

\* The command line reports a panic of the lowering.
Lower ==
  /\ phase = "lower"
  /\ unit' = ErrMain(unit)
  /\ LET lowered == Lowered(unit')
     IN  IF GivesUp(lowered) THEN errors' = {<<"E0204", 0>>} /\ UNCHANGED program
         ELSE program' = lowered /\ UNCHANGED errors
  /\ phase' = "done"
  /\ UNCHANGED <<disk, queue, merged, index>>

Next == Rewrite \/ RefuseMain \/ SkipBuiltin \/ MissImport \/ LoadImport \/ AddImports
          \/ Resolve \/ Check \/ Lower

Spec == Init /\ [][Next]_vars

-----------------------------------------------------------------------------
(* What is meant.                                                          *)

Own == disk.main.items
Bodies == Range(Owners(TestsDesugared(Own)))      \* the bodies of the file
UsesOf(item) == {i \in DOMAIN item.body : item.body[i].e \in Uses}

\* The files a path may stand for, and the packages that may not be imported:
\* their name is not the one they are imported by, or they are programs.
Reach(path) ==
  {LocalBase(disk)} \cup StdlibDirs(disk)
    \cup (IF disk.project # "good" THEN {}
          ELSE {Sources(d.root) : d \in {d \in disk.deps : d.name = Head(path) /\ d.from # "neither"}})
Visible(path) == {f \in DOMAIN disk.files : f[2] = path /\ f[1] \in Reach(path)}

\* The packages of a path, and the file by which one is judged.
Packages(path) ==
  {d \in disk.deps : /\ disk.project = "good" /\ d.name = Head(path) /\ d.from # "neither"
                     /\ d.root \in DOMAIN disk.packages}
Judged(path) ==
  {disk.files[f] : f \in DOMAIN disk.files \cap {<<Sources(d.root), <<disk.packages[d.root]>>>> : d \in Packages(path)}}

Misnamed(path) == \E d \in Packages(path) : d.from = "git" /\ disk.packages[d.root] # d.name

Executes(it)    == it.k = "stmt" \/ (it.k = "fn" /\ it.name = "main")
IsProgram(file) == \E it \in Range(file.items) : Executes(it)

\* Files whose lines do not show what they are: a program whose statements and
\* main are all indented, or begin as a declaration does, and a file that has a
\* test or a line that begins as no declaration does.
Hides(file) ==
  \A it \in Range(file.items) :
     Executes(it) => it.lines = "indented" \/ (it.k = "stmt" /\ it.lines = "misleading")
Misleads(file) ==
  \E it \in Range(file.items) : /\ it.k # "stmt" /\ it.lines # "indented"
                                /\ it.k = "test" \/ it.lines = "misleading"

\* The standard library is the project, or one of its dependencies: each of
\* its files is found twice.
CountedTwice(path) ==
  StdlibDirs(disk) \cap ({LocalBase(disk)} \cup DepDirs(disk, path)) # {}

ReasonFor(imp, code) ==
  CASE code = "E0218"  -> Misnamed(imp.path) \/ \E file \in Judged(imp.path) : IsProgram(file) \/ Misleads(file)
    [] code = "E0217"  -> Cardinality(Visible(imp.path)) > 1 \/ CountedTwice(imp.path)
    [] code = "E0200"  -> Visible(imp.path) = {}
    [] code = "unread" -> Visible(imp.path) # {}
    [] code = "parse"  -> \E f \in Visible(imp.path) : ~disk.files[f].parses

Exports(imp) ==
  UNION {{<<imp.name \o "__" \o it.name, it.at>> :
             it \in {it \in Range(disk.files[f].items) : it.k = "fn" /\ it.export}} : f \in Visible(imp.path)}

\* An import that is reported has the reason that is reported.  When none is,
\* each is the one file that has its path within reach, of a package that has
\* the name it is imported by and is no program, and the unit has gained the
\* exported functions of these files under the names of the imports, and no
\* other function.  Whether a package is a program is read off its lines: one
\* that misleads is refused, one that hides is imported.
ImportsAreAnswered ==
  /\ \A e \in errors :
       LET here == {imp \in Range(OfKind(unit, {"import"})) : imp.at = e[2]}
       IN  here # {} /\ e[1] # "E0201" => \E imp \in here : ReasonFor(imp, e[1])
  /\ phase \in {"resolve", "check", "lower"} =>
       LET asked == {imp \in Range(OfKind(unit, {"import"})) : ~IsBuiltinModule(imp.path)}
       IN  /\ \A imp \in asked : /\ Cardinality(Visible(imp.path)) = 1 /\ ~Misnamed(imp.path)
                                 /\ \A file \in Judged(imp.path) : IsProgram(file) => Hides(file)
           /\ {<<it.name, it.at>> : it \in {it \in Range(unit) : it.k = "fn" /\ it.merged}}
                = UNION {Exports(imp) : imp \in asked}

-----------------------------------------------------------------------------
(* What a call is meant to run.                                            *)

OwnImports(name) == {imp \in Range(OfKind(WithAutoImports(Own), {"import"})) : imp.name = name}

Through(item, i) ==
  LET ev    == item.body[i]
      named == OwnImports(ev.mod)
      path  == (CHOOSE imp \in named : TRUE).path
      given == UNION {{it \in Range(disk.files[f].items) : it.k = "fn" /\ it.export /\ it.name = ev.name} :
                        f \in Visible(path)}
  IN  IF named = {} THEN Nothing
      ELSE IF IsBuiltinModule(path)
      THEN IF ev.name \notin Provided(Last(path)) THEN Nothing
           ELSE Prelude(IF ev.name \in Awaits THEN ev.name ELSE "sys__" \o ev.name)
      ELSE IF given = {} THEN Nothing
      ELSE LET it == CHOOSE it \in given : TRUE IN <<it.at, it.name>>

MeantCall(item, i) ==
  IF item.body[i].e = "call" THEN Meant(Own, item, i, item.body[i].name) ELSE Through(item, i)

\* Where a name is known to mean another thing than in the text, or none.
\*   Covered     the passes that rename have put the name of another binder, an
\*               arm or a let around the one that is meant
\*   Unchanged   they have left the name in a tuple as it is, and not its binder
\* and where one is known to run something else.
\*   NoFunction  the name is bound, and not to a function: the one of the file
\*               or of the prelude is called
\*   Outside     in a lambda, the function is its parameter or bound outside it;
\*               a pattern, a loop or a lambda binds it
\*   Overwritten a let in a tuple has kept the name of the variable that is meant
\*   Left        a block that is over, or the function before the statements,
\*               bound the name to a function
\*   Overrides   a function of the file has the name of one of the prelude
\*   Reserved    a module has a function of that name that the compiler or
\*               the interpreter takes for its own
IsRenamed(item, j, name) ==
  /\ ~InTuple(item.body, j)
  /\ \/ item.body[j].e = "arm"
     \/ /\ item.body[j].e \in {"let", "block"}
        /\ name \in DOMAIN item.params \/ \E k \in 1..(j - 1) : Binds(item.body[k], name)
Covered(item, i, name) ==
  LET local == BindersOf(item.body, i, name)
      last  == item.body[Latest(local)].e
  IN  /\ ~InTuple(item.body, i)
      /\ \E j \in local : /\ IsRenamed(item, j, name)
                          /\ IF item.body[j].e = "arm" THEN last # "arm" ELSE last \in {"lambda", "untuple"}
Unchanged(item, i, name) ==
  LET local == BindersOf(item.body, i, name)
  IN  InTuple(item.body, i) /\ local # {} /\ IsRenamed(item, Latest(local), name)
Astray(item, i, name) == Covered(item, i, name) \/ Unchanged(item, i, name)

BoundBefore(item, i, name) ==
  \E j \in 1..(i - 1) : /\ item.body[j].e = "let" /\ item.body[j].name = name /\ item.body[j].callable
                        /\ Level(item.body, j) = Level(item.body, i)
NoFunction(item, i, name) == ~IsCallable(item, i, name)
Outside(item, i, name) ==
  LET local == BindersOf(item.body, i, name)
  IN  IF local = {} THEN name \in DOMAIN item.params /\ Level(item.body, i) # 0
      ELSE item.body[Latest(local)].e # "let" \/ Level(item.body, Latest(local)) # Level(item.body, i)
Overwritten(item, i, name) ==
  \E j \in (1..(i - 1)) \ BindersOf(item.body, i, name) :
     item.body[j].e = "let" /\ item.body[j].name = name /\ InTuple(item.body, j)
Left(item, i, name) ==
  LET owners == Owners(TestsDesugared(Own))
      other  == owners[Len(owners) - 1]
  IN  /\ ~IsLocal(item, i, name)
      /\ \/ BoundBefore(item, i, name)
         \/ /\ item.at = 0 - 2 /\ Level(item.body, i) = 0 /\ Len(owners) > 1
            /\ \/ name \in DOMAIN other.params /\ other.params[name]
               \/ \E j \in DOMAIN other.body : other.body[j].e = "let" /\ other.body[j].name = name
Overrides(name) == name \in PreludeFunctions /\ \E it \in Range(Own) : it.name = name /\ it.k = "fn"
Reserved(ev) == ev.name \in Awaits \/ ev.mod \o "__" \o ev.name \in Builtins

Known(item, i) ==
  LET ev == item.body[i]
  IN  IF ev.e = "call"
      THEN NoFunction(item, i, ev.name) \/ Outside(item, i, ev.name) \/ Astray(item, i, ev.name)
             \/ Overwritten(item, i, ev.name) \/ Left(item, i, ev.name) \/ Overrides(ev.name)
      ELSE IsLocal(item, i, ev.mod)
             \/ (Reserved(ev) /\ Through(item, i) \notin {Prelude(n) : n \in Provides("native")})

Mains == {it \in Bodies : it.k = "fn" /\ it.source = "main"}

\* The way a main that failed ends is replaced by a module sys with an exit.
Hijacked == \E imp \in Range(OfKind(Own, {"import"})) :
              ~IsBuiltinModule(imp.path) /\ \E x \in Exports(imp) : x[1] \in Builtins

Calls == UNION {o.calls : o \in Range(program)}

-----------------------------------------------------------------------------
(* What is said of names.                                                  *)

\* More places where the resolver knows other names than the text has.
\*   OfStatements  a name of a statement is known in the functions below it
\*   Forgotten     a test or a tuple does not ask for a module that is not
\*                 imported
OfStatements(item, i) ==
  item.at # 0 - 2 /\ \E s \in Range(OfKind(Own, {"stmt"})) : \E j \in DOMAIN s.body :
     s.at < item.at /\ Depth(s.body, j) = 0 /\ s.body[j].e = "let" /\ s.body[j].name = UsedName(item.body[i])
Forgotten(item, i) ==
  /\ UsedName(item.body[i]) \in Range(AutoModules)
  /\ InTuple(item.body, i) \/ \E it \in Range(Own) : it.k = "test" /\ it.at = item.at
Misread(item, i) == OfStatements(item, i) \/ Forgotten(item, i) \/ Astray(item, i, UsedName(item.body[i]))

IdOf(item, i) == Meant(Own, item, i, UsedName(item.body[i]))

\* What a name is called that the passes may have renamed.
Forms(id) == {<<id[1], n>> : n \in {id[2], Fresh(id[2], "__p", id[1]), Fresh(id[2], "__l", id[1])}}

IndexIsRight ==
  \A item \in Bodies : \A i \in UsesOf(item) :
    Misread(item, i) \/ LET told == {r[2] : r \in {r \in index : r[1] = item.body[i].at}}
                        IN  /\ told \subseteq Forms(IdOf(item, i))
                            /\ IdOf(item, i)[1] # 0 => told # {}
                            /\ IdOf(item, i)[1] > 0 => \E form \in Forms(IdOf(item, i)) : form[2] \in Symbols(unit)

\* The interpreter has no tasks to wait for.
EnginesOf(ev) == IF ev.name \in Awaits THEN {"native"} ELSE Engines
EachCallIsRight ==
  \A item \in Bodies : \A i \in UsesOf(item) :
    Known(item, i) \/ \A c \in Calls, engine \in EnginesOf(item.body[i]) :
                        c[1] = item.body[i].at => Ran(program, engine, c[2]) \in Forms(MeantCall(item, i))

EntryIsRight ==
  \A engine \in Engines :
    LET entry == Entry(program, engine) IN
      IF entry # <<0 - 3, "main">> THEN \A it \in Mains : entry = <<it.at, "main">> /\ ~it.fails
      ELSE LET wrapper == CHOOSE o \in Range(program) : o.id = entry
               runs    == {Ran(program, engine, c[2]) : c \in wrapper.calls}
           IN  \/ Overrides("eprintln") \/ Hijacked
               \/ runs = {Prelude("eprintln"), Prelude("sys__exit")}
                           \cup {<<it.at, "main">> : it \in {it \in Mains : it.fails}}

\* What the resolver says a use of a name refers to is what it means under
\* lexical scoping, the innermost binding in a block that is open, else what
\* the file declares or imports; an editor is told so of every such use and is
\* offered the name, or the one that the compiler has put in its place.  An
\* accepted program then calls, in both engines and at every call of the file,
\* what the call means: passes over the text that rename, a set of names taken
\* for closures and a table of functions each decide it again.  It begins in the main that is written; if that one may
\* fail, in one that calls it and can report its error.
NamesReachWhatIsMeant ==
  /\ phase \in {"check", "lower"} => IndexIsRight
  /\ program # <<>> => EachCallIsRight /\ EntryIsRight

\* A declaration whose name is taken, by one before it, by an import or by a
\* type of a file that is imported.
DeclaredTwice ==
  {i \in DOMAIN unit : /\ Declares(unit[i])
                       /\ \E j \in 1..(i - 1) : Declares(unit[j]) /\ unit[j].name = unit[i].name}
UsesWhich(P(_, _)) == UNION {{item.body[i].at : i \in {i \in UsesOf(item) : P(item, i)}} : item \in Bodies}
IsUnbound(item, i) == IdOf(item, i) = Nothing /\ ~Misread(item, i)
Unbound == UsesWhich(IsUnbound)

\* A call through a module that has functions, and not this one.
Absent(item, i) ==
  LET ev == item.body[i]
      named == OwnImports(ev.mod)
  IN  /\ ev.e = "qualified" /\ ~IsLocal(item, i, ev.mod) /\ named # {} /\ Through(item, i) = Nothing
      /\ \E imp \in named : IsBuiltinModule(imp.path) \/ Exports(imp) # {}
Missing == UsesWhich(Absent)

\* What the lowering gives up on: a method of a variable that has the name of a
\* module, a module without functions, what is read of the environment, and
\* core.sys under another name.
GivenUp(item, i) ==
  LET ev == item.body[i]
      named == OwnImports(ev.mod)
  IN  ev.e = "qualified" /\ \E imp \in named :
        \/ IsLocal(item, i, ev.mod)
        \/ ~IsBuiltinModule(imp.path) /\ Exports(imp) = {}
        \/ imp.path = <<"core", "sys">> /\ (imp.alias # "" \/ ev.name = "env")

Sites(code) == {e[2] : e \in {e \in errors : e[1] = code}}

\* An error about the names of the file has its reason: a name that is bound
\* nowhere (E0200), one that is taken (E0201), a main beside statements
\* (E0213), a return, ? or .await that no function or lambda is around
\* (E0210-E0212), a function that a module does not have (E0318), and a call
\* given up on is one the compiler is known not to lower.  A program that is
\* accepted has none of the reasons, but that a return, ? or .await may stand
\* in a block, a tuple or another part of a statement.
NameErrorsAreTrue ==
  /\ \A item \in Bodies : \A i \in UsesOf(item) :
       item.body[i].at \in Sites("E0200") => IdOf(item, i) = Nothing \/ Misread(item, i)
  /\ \A s \in Sites("E0201") : \E i \in DeclaredTwice : unit[i].at = s
  /\ \A code \in {"E0210", "E0211", "E0212"} : \A s \in Sites(code) :
       \E it \in Range(OfKind(Own, {"stmt"})) :
         \E j \in DOMAIN it.body : it.body[j].at = s /\ Level(it.body, j) = 0
  /\ Sites("E0213") # {} => OfKind(Own, {"stmt"}) # <<>>
  /\ \A item \in Bodies : \A i \in UsesOf(item) :
       item.body[i].at \in Sites("E0318") =>
         Misread(item, i) \/ (~IsLocal(item, i, item.body[i].mod) /\ Through(item, i) = Nothing)
  /\ Sites("E0204") # {} => \E item \in Bodies : \E i \in UsesOf(item) : GivenUp(item, i)
  /\ phase \in {"check", "lower"} \/ program # <<>> =>
       /\ Unbound = {} /\ DeclaredTwice = {}
       /\ OfKind(Own, {"stmt"}) = <<>> \/ \A it \in Range(Own) : it.k # "fn" \/ it.name # "main"
       /\ \A it \in Range(OfKind(Own, {"stmt"})) : \A j \in DOMAIN it.body :
            (it.body[j].e = "return" \/ it.body[j].mark # "") => Depth(it.body, j) > 0
  /\ program # <<>> => Missing = {}
=============================================================================
