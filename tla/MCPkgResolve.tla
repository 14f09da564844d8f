---------------------------- MODULE MCPkgResolve ----------------------------
(***************************************************************************)
(* A project, two libraries beside it, a repository with two revs and two  *)
(* branches, and a directory inside the checkout of its first rev.  Among  *)
(* the manifests offered are both orders of the two names' dependencies,   *)
(* wrong names, pins and branches of one repository, and cycles through    *)
(* the libraries, the project and the checkout.                            *)
(***************************************************************************)
EXTENDS PkgResolve

CONSTANTS n1, n2, root, libA, libB, inner, url, r1, r2, b1, b2

TwoNames == <<n1, n2>>
Dirs     == {root, libA, libB, inner}
OneUrl   == {url}
TwoRevs  == {r1, r2}
TwoBranches == {b1, b2}

Path(p)   == [source |-> p, rev |-> None, branch |-> None]
Rev(r)    == [source |-> url, rev |-> r, branch |-> None]
Branch(b) == [source |-> url, rev |-> None, branch |-> b]

Packages ==
  [t \in Dirs \cup (OneUrl \X TwoRevs) |->
     CASE t = root -> n1 [] t = libA -> n1 [] t = libB -> n2 [] t = inner -> n1 [] OTHER -> n2]

Manifest(first, second) == [n \in {n1, n2} |-> IF n = n1 THEN first ELSE second]

AllWorlds ==
  {[t \in Dirs \cup (OneUrl \X TwoRevs) |->
      CASE t = root      -> Manifest(a, b)
        [] t = libA      -> Manifest(None, c)
        [] t = libB      -> Manifest(d, None)
        [] t = inner     -> Manifest(None, f)
        [] t = <<url, r1>> -> Manifest(e, None)
        [] OTHER         -> Manifest(None, None)] :
     a \in {None, Path(libA), Path(libB)},
     b \in {None, Path(libB), Rev(r1), Rev(r2), Branch(b1), Branch(b2)},
     c \in {None, Path(libB), Rev(r1), Branch(b1)},
     d \in {None, Path(root), Path(libA)},
     e \in {None, Path(inner)},
     f \in {None, Rev(r1)}}
=============================================================================
