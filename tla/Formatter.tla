----------------------------- MODULE Formatter -----------------------------
(***************************************************************************)
(* tyra fmt (tools/tyra-fmt, and the fmt command of tyra-cli).              *)
(*                                                                         *)
(* The command takes the files of a directory in order.  A file that does   *)
(* not parse ends it, with the files before it already rewritten.  With     *)
(* --check nothing is written, and the command fails if a file would be.    *)
(* The commands run in any order on what the author wrote, MaxRuns times.   *)
(*                                                                         *)
(* disk is what the files hold, wrote what the author put there, torn the   *)
(* files of which a failed write left a part; command, next, formatted and  *)
(* stale are the command that runs, the file it is at, what that one is     *)
(* formatted to, and whether --check found one to rewrite; exits are the    *)
(* commands that ended, with their exit status.                             *)
(***************************************************************************)
EXTENDS Printer

CONSTANTS
    Projects,           \* what the author may have written: sequences of texts
    MaxRuns             \* bound: how many commands are run

VARIABLES disk, wrote, torn, command, next, formatted, stale, exits

vars == <<disk, wrote, torn, command, next, formatted, stale, exits>>

\* The formatted text of a source, or a refusal.
FmtSource(x) ==
    LET p == Parse(x)
    IN  [ok |-> p.ok, out |-> IF p.ok THEN PrintFile(p.tree, x) ELSE <<>>]

Nothing == [ok |-> FALSE, out |-> <<>>]

----------------------------------------------------------------------------
Init ==
    /\ wrote \in Projects
    /\ disk = wrote
    /\ torn = {}
    /\ command = "none"
    /\ next = 0
    /\ formatted = Nothing
    /\ stale = FALSE
    /\ exits = <<>>

\* The command takes the next file: it reads it and formats what it read.
TakeFile(i) ==
    /\ next' = i
    /\ formatted' = IF i \in DOMAIN disk THEN FmtSource(disk'[i]) ELSE Nothing

Start(mode) ==
    /\ command = "none"
    /\ Len(exits) < MaxRuns
    /\ command' = mode
    /\ stale' = FALSE
    /\ UNCHANGED <<disk, wrote, torn, exits>>
    /\ TakeFile(1)

\* The command ends, with the files as this step leaves them.
Exit(status) ==
    /\ command' = "none"
    /\ exits' = Append(exits, [mode |-> command, status |-> status])
    /\ formatted' = Nothing
    /\ next' = 0
    /\ UNCHANGED <<wrote, stale>>

\* A file that does not parse ends the command.
Refuse ==
    /\ next \in DOMAIN disk
    /\ ~ formatted.ok
    /\ UNCHANGED <<disk, torn>>
    /\ Exit(1)

Rewrite ==
    /\ command = "fmt" /\ next \in DOMAIN disk
    /\ formatted.ok
    /\ disk' = [disk EXCEPT ![next] = formatted.out]
    /\ UNCHANGED <<wrote, torn, command, stale, exits>>
    /\ TakeFile(next + 1)

\* A file that cannot be written ends the command too: one that cannot be
\* opened stays as it was, in one that can the old text is gone before the
\* new one comes, and a part of it is there, or nothing.
WriteFails ==
    /\ command = "fmt" /\ next \in DOMAIN disk
    /\ formatted.ok /\ formatted.out # disk[next]
    /\ \/ UNCHANGED <<disk, torn>>
       \/ \E n \in 0..(Len(formatted.out) - 1) :
             /\ disk' = [disk EXCEPT ![next] = SubSeq(formatted.out, 1, n)]
             /\ torn' = torn \cup {next}
    /\ Exit(1)

\* variant: --check answers for the last file alone
Compare_Last ==
    /\ command = "check" /\ next \in DOMAIN disk
    /\ formatted.ok
    /\ stale' = (formatted.out # disk[next])
    /\ UNCHANGED <<disk, wrote, torn, command, exits>>
    /\ TakeFile(next + 1)

Compare ==
    /\ command = "check" /\ next \in DOMAIN disk
    /\ formatted.ok
    /\ stale' = (stale \/ formatted.out # disk[next])
    /\ UNCHANGED <<disk, wrote, torn, command, exits>>
    /\ TakeFile(next + 1)

Finish ==
    /\ command # "none" /\ next > Len(disk)
    /\ UNCHANGED <<disk, torn>>
    /\ Exit(IF stale THEN 1 ELSE 0)

Next ==
    \/ \E mode \in {"fmt", "check"} : Start(mode)
    \/ Refuse
    \/ Rewrite
    \/ WriteFails
    \/ Compare
    \/ Finish

Spec == Init /\ [][Next]_vars

----------------------------------------------------------------------------
(* What the printer gets wrong, left out of the properties below: the       *)
(* README lists each of these with its line.                                *)

RECURSIVE Within(_)
\* A node and all that is in it.
Within(n) == {n} \cup UNION {Within(n.c[i]) : i \in DOMAIN n.c}

\* How tightly the parser binds a node that stands without parentheses.
Binds(n) == CASE n.k = "assign" -> AssignPrec
              [] n.k = "binary" -> InfixPrec[n.v[1]]
              [] n.k \in {"unary", "spawn"} -> UnaryPrec
              [] OTHER -> PostfixPrec

\* An operand printed without the parentheses that it needs: PrintOperand
\* looks at binary expressions only, and at an equal level to the right of
\* an operator as if operators grouped to the right.
Bared(n, most, need) ==
    ~ (n.k = "binary" /\ PrintPrec(n.v[1]) > most) /\ Binds(n) < need

LosesParens(n) ==
    \/ /\ n.k = "binary"
       /\ LET p == PrintPrec(n.v[1])
              b == InfixPrec[n.v[1]]
          IN  Bared(n.c[1], p - 1, b) \/ Bared(n.c[2], p, b + 1)
    \/ n.k = "unary" /\ Bared(n.c[1], UnaryLevel, UnaryPrec)
    \/ n.k = "spawn" /\ Binds(n.c[1]) < UnaryPrec
    \/ n.k = "assign" /\ Binds(n.c[1]) <= AssignPrec
    \/ n.k \in Postfixes /\ Bared(n.c[1], PostfixLevel, PostfixPrec)

\* A block gets new brackets around it, in which line breaks end nothing, or
\* is moved into a string, which they end.
SwallowsBreaks(n) ==
    /\ n.k \in {"binary", "unary", "interp"} \cup Postfixes
    /\ \E i \in DOMAIN n.c : n.c[i].k \in {"binary"} \cup (IF n.k = "interp" THEN {n.c[i].k} ELSE {})
                            /\ \E m \in Within(n.c[i]) : m.k \in {"body", "arms"}

\* A raw string is printed as a string, in which a hash and a brace begin an
\* interpolation.
OpensInterpolation(n) ==
    n.k \in {"string", "text"} /\ \E i \in 1..(Len(n.v) - 1) : n.v[i] = "#" /\ n.v[i + 1] = "{"

\* A test's statements get no line breaks; a match without arms gets no blank
\* before its end; a tuple of one is printed as its element, a constructor
\* pattern of a lower-case name and no fields as that name.
Merges(n) ==
    \/ n.k = "test" /\ Last(n.c).c # <<>>
    \/ n.k = "arms" /\ n.c = <<>>
    \/ n.k = "tuple" /\ Len(n.c) = 1
    \/ n.k = "ctor" /\ n.c = <<>> /\ ~ Upper(n.v)

Sound(p) ==
    /\ p.ok
    /\ \A n \in Within(p.tree) : ~ \/ LosesParens(n) \/ SwallowsBreaks(n)
                                   \/ OpensInterpolation(n) \/ Merges(n)

----------------------------------------------------------------------------
(* Comments, as the lexer sees them *)

RECURSIVE CommentsFrom(_, _, _)
CommentsFrom(x, i, line) ==
    IF i > Len(x) THEN {}
    ELSE LET t == ScanToken(x, i)
             own == IF x[i] = "#" THEN {[l |-> line, x |-> SubSeq(x, i, t.i - 1)]} ELSE {}
         IN  own \cup CommentsFrom(x, t.i, IF t.t = "newline" THEN line + 1 ELSE line)

Comments(x) == CommentsFrom(x, 1, 1)

\* The lines the writer's own scanner misreads: it ends a string at the first
\* quote, also at one inside an interpolation, whose text then counts as code,
\* and takes the backslash at the end of a raw string to escape its quote.
Misleads(t) ==
    CASE t.t = "interp" ->
           \E j \in DOMAIN t.v : /\ t.v[j].text
                                 /\ "\"" \in Range(t.v[j].x)
                                 /\ {"#", "\\"} \cap Range(t.v[j].x) # {}
      [] t.t = "raw_string" -> t.v # <<>> /\ Last(t.v) = "\\"
      [] OTHER -> FALSE
Misread(x) ==
    LET toks == Tokenize(x).toks IN {toks[i].l : i \in {j \in DOMAIN toks : Misleads(toks[j])}}

\* The statements, items and methods of a tree, in the order of the text.
Units == Statements \cup SignatureKinds \cup {"value", "data", "typedef", "trait", "impl", "import", "test"}

RECURSIVE InOrder(_)
InOrder(n) == (IF n.k \in Units THEN <<n>> ELSE <<>>)
              \o FlattenSeq([i \in DOMAIN n.c |-> InOrder(n.c[i])])

\* What a comment is about: the units that start on its line, by their places
\* in the text, or the next one if none does.
About(us, c) ==
    LET here == {i \in DOMAIN us : us[i].l = c.l}
        later == {i \in DOMAIN us : us[i].l > c.l}
    IN  IF here # {} \/ later = {} THEN here ELSE {Min(later)}

\* Where the writer keeps a comment: alone on its line, before a statement or
\* an item (a method is neither), with everything printed before that one
\* ended above the comment; after code, on the line of the one statement or
\* header that starts there and takes one line, if that line is not misread.
OneLine(n) ==
    CASE n.k \in Statements ->
           \A m \in Within(n) : m.k \notin {"body", "arms"}
      [] n.k \in SignatureKinds -> "\n" \notin Range(PrintHeader([Blank EXCEPT !.out = <<" ">>], n).out)
      [] n.k \in {"value", "data", "typedef", "trait", "impl", "import"} -> TRUE
      [] OTHER -> FALSE

Placed(us, x, c) ==
    LET here == About(us, c)
        above == IF here = {} THEN DOMAIN us ELSE 1..(Min(here) - 1)
        Around(j) == \E i \in here : us[i] \in Within(us[j])
        OfMethod == \E i \in here, j \in above :
                        us[i].k \in SignatureKinds /\ us[j].k \in {"trait", "impl"} /\ us[i] \in Within(us[j])
    IN  IF c.l \in DOMAIN Standalone(x)
        THEN ~ OfMethod /\ \A j \in above : us[j].e < c.l \/ Around(j)
        ELSE /\ c.l \notin Misread(x)
             /\ \E i \in here : here = {i} /\ us[i].l = c.l /\ OneLine(us[i])

----------------------------------------------------------------------------
(* Properties *)

\* The files of a project that are formatted, and their trees before and after.
Idle == command = "none" /\ exits # <<>>

\* Formatting changes no program: what the author's text meant, the text in
\* the file means (fmt_source, lib.rs:20), also in the files before and after
\* one that was refused or whose write failed; of the latter the text is lost.
SourcesKeepTheirMeaning ==
    Idle => \A i \in DOMAIN disk \ torn :
        LET before == Parse(wrote[i])
            after == Parse(disk[i])
        IN  Sound(before) => after.ok /\ Bare(after.tree) = Bare(before.tree)

\* A comment stays with the statement or item it was written for, and none is
\* added, but one for a line that is misread (extract_comments,
\* emit_pending_comments, emit_inline_comment_if_any).
CommentsKeepTheirPlace ==
    Idle => \A i \in DOMAIN disk \ torn :
        LET p == Parse(wrote[i])
            before == InOrder(p.tree)
            after == InOrder(Parse(disk[i]).tree)
        IN  Sound(p) =>
            /\ Cardinality(Comments(disk[i]))
                  <= Cardinality(Comments(wrote[i])) + Cardinality(Misread(wrote[i]))
            /\ \A c \in Comments(wrote[i]) : Placed(before, wrote[i], c) =>
                  \E d \in Comments(disk[i]) : d.x = c.x /\ About(after, d) = About(before, c)

\* --check passes only if a fmt would rewrite nothing, and it passes after a
\* fmt that succeeded, where no write failed and no line is misread: formatting
\* twice is formatting once (main.rs:541).
CheckIsRight ==
    Idle /\ Last(exits).mode = "check" =>
        /\ Last(exits).status = 0 => \A i \in DOMAIN disk : FmtSource(disk[i]) = [ok |-> TRUE, out |-> disk[i]]
        /\ (/\ [mode |-> "fmt", status |-> 0] \in Range(exits)
            /\ torn = {}
            /\ \A i \in DOMAIN wrote :
                  LET p == Parse(wrote[i])
                      us == InOrder(p.tree)
                  IN  /\ Sound(p) /\ Misread(wrote[i]) = {}
                      /\ \A c \in Comments(wrote[i]) : Placed(us, wrote[i], c))
           => Last(exits).status = 0

=============================================================================
