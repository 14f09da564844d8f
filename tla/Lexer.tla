------------------------------- MODULE Lexer -------------------------------
(***************************************************************************)
(* The tokens of a source text (compiler/crates/tyra-lexer).                *)
(*                                                                         *)
(* A text is a sequence of pieces: a piece is a word of letters, a digit,   *)
(* a mark of punctuation (an operator of two characters is one piece), a    *)
(* blank or a line break.  What decides the meaning of a text is kept: two  *)
(* words with nothing between them are one word, a quote opens a string,    *)
(* and inside it a backslash and a hash have meanings of their own.         *)
(*                                                                         *)
(* A token is [t, v, l]: its kind, what it carries, its line.               *)
(***************************************************************************)
EXTENDS Integers, Sequences

Keywords ==
    {"fn", "data", "value", "type", "trait", "impl", "let", "mut", "if", "else",
     "match", "when", "for", "in", "while", "break", "continue", "return", "defer",
     "async", "await", "spawn", "import", "export", "and", "or", "not", "true",
     "false", "end"}

Marks == {"+", "-", "*", "=", "==", "!=", "===", "<", ">", "->", ".", ":", "::", "?", "|",
          ",", "(", ")", "[", "]", "{", "}"}

Digits == {"0", "1", "2"}

IsWord(p) == p \notin Marks \cup Digits \cup {" ", "\n", "#", "\"", "\\"}

\* The names that begin with a capital letter.
Capitals == {"Int", "List", "Ok", "None", "Card", "T", "Eq"}

Tok(t, v, l) == [t |-> t, v |-> v, l |-> l]

\* The first place from i on at which the text ends or p begins.
RECURSIVE UpTo(_, _, _)
UpTo(x, i, p) == IF i > Len(x) \/ x[i] = p THEN i ELSE UpTo(x, i + 1, p)

\* The first place from i on that does not continue a word.
RECURSIVE WordEnd(_, _)
WordEnd(x, i) ==
    IF i > Len(x) \/ ~ (IsWord(x[i]) \/ x[i] \in Digits) THEN i ELSE WordEnd(x, i + 1)

RECURSIVE NumberEnd(_, _)
NumberEnd(x, i) == IF i > Len(x) \/ x[i] \notin Digits THEN i ELSE NumberEnd(x, i + 1)

\* The place of the brace that closes an interpolation, or 0: braces are
\* counted, and nothing else is looked at.
RECURSIVE ClosingBrace(_, _, _)
ClosingBrace(x, i, depth) ==
    IF i > Len(x) \/ x[i] = "\n" THEN 0
    ELSE IF x[i] = "}" /\ depth = 1 THEN i
    ELSE ClosingBrace(x, i + 1,
                      CASE x[i] = "{" -> depth + 1 [] x[i] = "}" -> depth - 1 [] OTHER -> depth)

\* What a backslash and the piece after it stand for.
Escapes == [p \in {"n", "t", "\\", "\""} |->
               CASE p = "n" -> "\n" [] p = "t" -> "\t" [] OTHER -> p]

\* A string from the piece after its opening quote: the literal read so far,
\* the parts before it, and whether every escape was known.
RECURSIVE ScanString(_, _, _, _, _)
ScanString(x, i, lit, parts, ok) ==
    IF i > Len(x) \/ x[i] = "\n" THEN [i |-> i, t |-> "error", v |-> <<>>, ok |-> FALSE]
    ELSE IF x[i] = "\""
    THEN LET all == IF lit = <<>> THEN parts ELSE Append(parts, [text |-> FALSE, x |-> lit])
         IN  IF \E j \in DOMAIN parts : parts[j].text
             THEN [i |-> i + 1, t |-> "interp", v |-> all, ok |-> ok]
             ELSE [i |-> i + 1, t |-> "string", v |-> lit, ok |-> ok]
    ELSE IF x[i] = "#" /\ i < Len(x) /\ x[i + 1] = "{"
    THEN LET j == ClosingBrace(x, i + 2, 1)
             before == IF lit = <<>> THEN parts ELSE Append(parts, [text |-> FALSE, x |-> lit])
         IN  IF j = 0
             THEN [i |-> UpTo(x, i, "\n"), t |-> "error", v |-> <<>>, ok |-> FALSE]
             ELSE ScanString(x, j + 1, <<>>,
                             Append(before, [text |-> TRUE, x |-> SubSeq(x, i + 2, j - 1)]), ok)
    ELSE IF x[i] = "\\" /\ i < Len(x)
    THEN IF x[i + 1] \in DOMAIN Escapes
         THEN ScanString(x, i + 2, Append(lit, Escapes[x[i + 1]]), parts, ok)
         ELSE ScanString(x, i + 2, Append(lit, x[i + 1]), parts, FALSE)
    ELSE IF x[i] = "\\" THEN ScanString(x, i + 1, lit, parts, ok)
    ELSE ScanString(x, i + 1, Append(lit, x[i]), parts, ok)

\* A raw string from the piece after its opening quote.
ScanRaw(x, i) ==
    LET q == UpTo(x, i, "\"")
        n == UpTo(x, i, "\n")
    IN  IF q < n THEN [i |-> q + 1, t |-> "raw_string", v |-> SubSeq(x, i, q - 1), ok |-> TRUE]
        ELSE [i |-> n, t |-> "error", v |-> <<>>, ok |-> FALSE]

\* A word: the longest run of letters and digits.
ScanIdent(x, i) ==
    LET j == WordEnd(x, i)
        w == SubSeq(x, i, j - 1)
    IN  [i |-> j, t |-> IF Len(w) = 1 /\ w[1] \in Keywords THEN w[1] ELSE "ident",
         v |-> w, ok |-> TRUE]

\* The token that begins at i; blanks and comments give none ("skip").
ScanToken(x, i) ==
    CASE x[i] = " " -> [i |-> i + 1, t |-> "skip", v |-> <<>>, ok |-> TRUE]
      [] x[i] = "\n" -> [i |-> i + 1, t |-> "newline", v |-> <<>>, ok |-> TRUE]
      [] x[i] = "#" -> [i |-> UpTo(x, i, "\n"), t |-> "skip", v |-> <<>>, ok |-> TRUE]
      [] x[i] = "\"" -> ScanString(x, i + 1, <<>>, <<>>, TRUE)
      [] x[i] = "r" /\ i < Len(x) /\ x[i + 1] = "\"" -> ScanRaw(x, i + 2)
      [] x[i] \in Digits -> [i |-> NumberEnd(x, i), t |-> "int",
                             v |-> SubSeq(x, i, NumberEnd(x, i) - 1), ok |-> TRUE]
      [] x[i] \in Marks -> [i |-> i + 1, t |-> x[i], v |-> <<>>, ok |-> TRUE]
      [] x[i] = "\\" -> [i |-> i + 1, t |-> "error", v |-> <<>>, ok |-> FALSE]
      [] OTHER -> ScanIdent(x, i)

RECURSIVE Scan(_, _, _, _, _)
Scan(x, i, line, toks, ok) ==
    IF i > Len(x) THEN
        [toks |-> Append(toks, Tok("eof", <<>>, IF Len(x) > 0 /\ x[Len(x)] = "\n" THEN line - 1 ELSE line)),
         ok |-> ok]
    ELSE LET s == ScanToken(x, i)
         IN  Scan(x, s.i, IF s.t = "newline" THEN line + 1 ELSE line,
                  IF s.t = "skip" THEN toks ELSE Append(toks, Tok(s.t, s.v, line)), ok /\ s.ok)

\* Every token of a text, and whether none was refused.
Tokenize(x) == Scan(x, 1, 1, <<>>, TRUE)

=============================================================================
