------------------------------ MODULE Imports ------------------------------
(***************************************************************************)
(* Where an import finds its file (tyra-driver/src/lib.rs, FsImportLoader  *)
(* and collect_import_candidates): the project's own files, a dependency   *)
(* of its manifest, the standard library.                                  *)
(*                                                                         *)
(* A disk is a record:                                                     *)
(*   main     what is compiled                                             *)
(*   project  "none": no Tyra.toml above the file that is compiled; "bad": *)
(*            one that does not load; "good"                               *)
(*   srcDir   whether the project has a directory src                      *)
(*   deps     the dependencies of the manifest: [name, from, root], from   *)
(*            "path", "git" or "neither"                                   *)
(*   packages the manifests that load: of a root, the name of the package  *)
(*   stdlibs  the directories find_stdlib_dir looks at, in its order:      *)
(*            [dir, tree], a tree if it holds assert.ty                    *)
(*   files    the files, of a directory and a path below it                *)
(* A file is a record [parses, items], its items those of Names.  How the  *)
(* lines of an item look is `lines`:                                       *)
(*   plain       those that are not indented begin as is usual             *)
(*   indented    all are                                                   *)
(*   misleading  one begins as if it were something else: a statement as   *)
(*               in endpoint(x) or when..., a declaration with |, ) or     *)
(*               async                                                     *)
(* Of a file that does not parse, the items are what its lines look like.  *)
(***************************************************************************)
EXTENDS Naturals, Sequences, SequencesExt, FiniteSets, TLC

\* is_builtin_module.
IsBuiltinModule(path) == path \in {<<"core", "sys">>, <<"core", "tasks">>}

\* find_stdlib_dir and is_tyra_stdlib: a directory of that name is not enough.
StdlibDirs(disk) ==
  LET trees == SelectSeq(disk.stdlibs, LAMBDA s : s.tree)
  IN  IF trees = <<>> THEN {} ELSE {Head(trees).dir}

\* The directory of the project's own files.
LocalBase(disk) ==
  IF disk.project = "none" THEN <<"beside">> ELSE IF disk.srcDir THEN <<"src">> ELSE <<"root">>

Sources(root) == <<"src", root>>          \* <root>/src
Exists(disk, dir, path) == <<dir, path>> \in DOMAIN disk.files

\* is_bin_source reads the lines that are not indented: one that begins fn main,
\* or with no word it knows to begin a declaration, starts a program.  The words
\* test and async are none it knows.
StartsProgram(it) ==
  /\ it.lines # "indented"
  /\ \/ it.k = "test" \/ (it.k = "fn" /\ it.name = "main")
     \/ (it.k = "stmt") = (it.lines = "plain")
IsBinSource(file) == \E i \in DOMAIN file.items : StartsProgram(file.items[i])

\* is_bin_dep and the second half of check_git_dep_root: by the file that has
\* the package's name.  What has no manifest or no such file is let through.
IsBinDep(disk, root) ==
  /\ root \in DOMAIN disk.packages
  /\ Exists(disk, Sources(root), <<disk.packages[root]>>)
  /\ IsBinSource(disk.files[Sources(root), <<disk.packages[root]>>])

\* What is wrong with a dependency, "" for nothing: check_git_dep_root.
DepFault(disk, dep) ==
  IF dep.from = "git" /\ dep.root \in DOMAIN disk.packages /\ disk.packages[dep.root] # dep.name
  THEN "name-mismatch"
  ELSE IF IsBinDep(disk, dep.root) THEN "bin" ELSE ""

\* The dependencies an import is about: by the first word of its path.
Asked(disk, path) ==
  IF disk.project = "good" THEN {d \in disk.deps : d.name = path[1] /\ d.from # "neither"} ELSE {}

\* collect_import_candidates: the files, and the dependencies refused.
DepErrors(disk, path) == {DepFault(disk, d) : d \in Asked(disk, path)} \ {""}

Layer(disk, dirs, path) == {<<d, path>> : d \in {d \in dirs : Exists(disk, d, path)}}
DepDirs(disk, path) == {Sources(d.root) : d \in {d \in Asked(disk, path) : DepFault(disk, d) = ""}}

Candidates_FirstLayer(disk, path) ==
  LET own == Layer(disk, {LocalBase(disk)}, path)  dep == Layer(disk, DepDirs(disk, path), path)
  IN  SetToSeq(IF own # {} THEN own ELSE IF dep # {} THEN dep ELSE Layer(disk, StdlibDirs(disk), path))
Candidates(disk, path) ==
  SetToSeq(Layer(disk, {LocalBase(disk)}, path)) \o SetToSeq(Layer(disk, DepDirs(disk, path), path))
    \o SetToSeq(Layer(disk, StdlibDirs(disk), path))

\* FsImportLoader::resolve.  That the file can then be read is another matter.
Answer(kind, why, file) == [kind |-> kind, why |-> why, file |-> file]
Resolution(disk, path) ==
  LET errors == DepErrors(disk, path)  found == Candidates(disk, path)
  IN  IF errors # {} THEN Answer("DepError", CHOOSE e \in errors : TRUE, <<>>)
      ELSE IF Len(found) = 0 THEN Answer("NotFound", "", <<>>)
      ELSE IF Len(found) = 1 THEN Answer("Found", "", found[1])
      ELSE Answer("Ambiguous", "", <<>>)

\* resolve_import_file, which the editor's links ask.
ImportFile(disk, path) ==
  IF IsBuiltinModule(path) \/ DepErrors(disk, path) # {} \/ Len(Candidates(disk, path)) # 1
  THEN <<>> ELSE Candidates(disk, path)[1]

(* The error of an answer that is no file.                                 *)
CodeOf(answer) ==
  IF answer.kind = "DepError" THEN "E0218" ELSE IF answer.kind = "Ambiguous" THEN "E0217" ELSE "E0200"
=============================================================================
