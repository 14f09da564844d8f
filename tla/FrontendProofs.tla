--------------------------- MODULE FrontendProofs ---------------------------
(***************************************************************************)
(* Proofs about one compilation, for any disks with any files, imports,    *)
(* dependencies and bodies.  What the recursions over a sequence yield is  *)
(* shown by induction over the places of the sequence.                     *)
(***************************************************************************)
EXTENDS Frontend, FiniteSetTheorems, WellFoundedInduction, TLAPS

\* The smaller numbers of a number are below it in a well-founded relation.
LEMMA LessIsWellFounded ==
  \E Less : IsWellFoundedOn(Less, Nat) /\ \A m, n \in Nat : m < n => <<m, n>> \in Less
<1>1. IsWellFoundedOn(OpToRel(<, Nat), Nat)
  BY NatLessThanWellFounded, Zenon
<1>2. \A m, n \in Nat : m < n => <<m, n>> \in OpToRel(<, Nat)
  BY DEF OpToRel
<1>3. QED
  BY <1>1, <1>2

\* Induction as a property of sets: a set that holds 0, and the successor of
\* each number it holds, holds all numbers.
LEMMA SetInduction ==
  ASSUME NEW S, 0 \in S, \A n \in Nat : n \in S => n + 1 \in S
  PROVE  Nat \subseteq S
<1> SUFFICES ASSUME Nat \ S # {} PROVE FALSE
  OBVIOUS
<1> DEFINE T == Nat \ S
<1>1. PICK Less : IsWellFoundedOn(Less, Nat) /\ \A m, n \in Nat : m < n => <<m, n>> \in Less
  BY LessIsWellFounded
<1>2. PICK x \in T : \A y \in T : ~ (<<y, x>> \in Less)
  <2>1. T \subseteq Nat /\ T # {}
    OBVIOUS
  <2>2. QED
    BY <1>1, <2>1, WFMin
<1>3. x \in Nat /\ x # 0 /\ x - 1 \in Nat /\ x - 1 < x
  OBVIOUS
<1>4. x - 1 \in S
  BY <1>1, <1>2, <1>3
<1>5. QED
  BY <1>3, <1>4

-----------------------------------------------------------------------------
(* The recursions.                                                         *)

\* Appending adds one element.
LEMMA RangeOfAppend ==
  ASSUME NEW T, NEW s \in Seq(T), NEW x \in T
  PROVE  Range(Append(s, x)) = Range(s) \cup {x}
<1>1. DOMAIN Append(s, x) = 1..(Len(s) + 1) /\ DOMAIN s = 1..Len(s)
  OBVIOUS
<1>2. \A i \in 1..Len(s) : Append(s, x)[i] = s[i]
  OBVIOUS
<1>3. Append(s, x)[Len(s) + 1] = x
  OBVIOUS
<1>4. 1..(Len(s) + 1) = 1..Len(s) \cup {Len(s) + 1}
  OBVIOUS
<1>5. QED
  BY <1>1, <1>2, <1>3, <1>4 DEF Range

\* A recursion along a sequence is defined up to any place.
IsPicks(f, s, S, n) ==
  f = [i \in 0..n |-> IF i = 0 THEN <<>> ELSE IF s[i] \in S THEN Append(f[i - 1], s[i]) ELSE f[i - 1]]

\* There is a function of the places that picks up to any of them.
LEMMA PicksUpTo ==
  ASSUME NEW s, NEW S, NEW n \in Nat
  PROVE  \E f : IsPicks(f, s, S, n)
<1> DEFINE Have == {m \in Nat : \E f : IsPicks(f, s, S, m)}
<1>1. 0 \in Have
  <2>1. IsPicks([i \in 0..0 |-> <<>>], s, S, 0)
    BY DEF IsPicks
  <2>2. QED
    BY <2>1
<1>2. ASSUME NEW m \in Nat, m \in Have PROVE m + 1 \in Have
  <2>1. PICK f : IsPicks(f, s, S, m)
    BY <1>2
  <2>2. \A k \in 0..m : f[k] = IF k = 0 THEN <<>> ELSE IF s[k] \in S THEN Append(f[k - 1], s[k]) ELSE f[k - 1]
    BY <2>1 DEF IsPicks
  <2> DEFINE last == IF s[m + 1] \in S THEN Append(f[m], s[m + 1]) ELSE f[m]
             g    == [i \in 0..(m + 1) |-> IF i <= m THEN f[i] ELSE last]
  <2>3. ASSUME NEW i \in 0..(m + 1)
        PROVE  g[i] = IF i = 0 THEN <<>> ELSE IF s[i] \in S THEN Append(g[i - 1], s[i]) ELSE g[i - 1]
    <3>1. CASE i = 0
      BY <2>2, <3>1
    <3>2. CASE i \in 1..m
      <4>1. i - 1 \in 0..m /\ i \in 0..m /\ i # 0
        BY <3>2
      <4>2. f[i] = IF s[i] \in S THEN Append(f[i - 1], s[i]) ELSE f[i - 1]
        BY <2>2, <4>1
      <4>3. g[i] = f[i] /\ g[i - 1] = f[i - 1]
        BY <4>1
      <4>4. QED
        BY <4>1, <4>2, <4>3
    <3>3. CASE i = m + 1
      <4>1. g[i] = last /\ g[i - 1] = f[m] /\ i # 0
        BY <3>3
      <4>2. QED
        BY <3>3, <4>1
    <3>4. QED
      BY <3>1, <3>2, <3>3
  <2> HIDE DEF g
  <2>4. g = [i \in 0..(m + 1) |-> g[i]]
    BY DEF g
  <2>5. IsPicks(g, s, S, m + 1)
    BY <2>3, <2>4 DEF IsPicks
  <2>6. QED
    BY <2>5
<1> HIDE DEF Have
<1>3. Nat \subseteq Have
  BY <1>1, <1>2, SetInduction
<1>4. QED
  BY <1>3 DEF Have

\* Picked goes along its sequence, one place at a time.
LEMMA PicksOneByOne ==
  ASSUME NEW s, NEW S, Len(s) \in Nat
  PROVE  \E P : /\ Picked(s, S) = P[Len(s)] /\ P[0] = <<>>
                /\ \A i \in 1..Len(s) : P[i] = IF s[i] \in S THEN Append(P[i - 1], s[i]) ELSE P[i - 1]
<1> DEFINE P == CHOOSE f : IsPicks(f, s, S, Len(s))
<1>1. IsPicks(P, s, S, Len(s))
  BY PicksUpTo
<1>2. Picked(s, S) = P[Len(s)]
  BY DEF Picked, IsPicks
<1> HIDE DEF P
<1>3. \A k \in 0..Len(s) : P[k] = IF k = 0 THEN <<>> ELSE IF s[k] \in S THEN Append(P[k - 1], s[k]) ELSE P[k - 1]
  BY <1>1 DEF IsPicks
<1>4. QED
  BY <1>2, <1>3

\* What Picked keeps of a sequence: its elements that are asked for, no others.
LEMMA PickedIs ==
  ASSUME NEW T, NEW s \in Seq(T), NEW S
  PROVE  Picked(s, S) \in Seq(T \cap S) /\ Range(Picked(s, S)) = Range(s) \cap S
<1>1. PICK P : /\ Picked(s, S) = P[Len(s)] /\ P[0] = <<>>
               /\ \A i \in 1..Len(s) : P[i] = IF s[i] \in S THEN Append(P[i - 1], s[i]) ELSE P[i - 1]
  <2>1. Len(s) \in Nat
    OBVIOUS
  <2>2. QED
    BY <2>1, PicksOneByOne
<1> DEFINE Is(n) == P[n] \in Seq(T \cap S) /\ Range(P[n]) = {s[j] : j \in 1..n} \cap S
           Good == {n \in Nat : n <= Len(s) => Is(n)}
<1>2. 0 \in Good
  <2>1. Range(P[0]) = {} /\ P[0] \in Seq(T \cap S)
    BY <1>1 DEF Range
  <2>2. {s[j] : j \in 1..0} = {}
    OBVIOUS
  <2>3. QED
    BY <2>1, <2>2
<1>3. ASSUME NEW n \in Nat, n \in Good PROVE n + 1 \in Good
  <2>1. SUFFICES ASSUME n + 1 <= Len(s) PROVE Is(n + 1)
    OBVIOUS
  <2>2. Is(n)
    BY <1>3, <2>1
  <2>3. P[n + 1] = IF s[n + 1] \in S THEN Append(P[n], s[n + 1]) ELSE P[n]
    <3>1. n + 1 \in 1..Len(s) /\ n + 1 - 1 = n
      BY <2>1
    <3>2. QED
      BY <1>1, <3>1
  <2>4. {s[j] : j \in 1..(n + 1)} = {s[j] : j \in 1..n} \cup {s[n + 1]}
    <3>1. 1..(n + 1) = 1..n \cup {n + 1}
      OBVIOUS
    <3>2. QED
      BY <3>1
  <2>5. s[n + 1] \in T
    BY <2>1
  <2>6. CASE s[n + 1] \in S
    <3>1. Range(P[n + 1]) = Range(P[n]) \cup {s[n + 1]}
      BY <2>2, <2>3, <2>5, <2>6, RangeOfAppend
    <3>2. P[n + 1] \in Seq(T \cap S)
      BY <2>2, <2>3, <2>5, <2>6
    <3>3. QED
      BY <2>2, <2>4, <2>6, <3>1, <3>2
  <2>7. CASE s[n + 1] \notin S
    BY <2>2, <2>3, <2>4, <2>7
  <2>8. QED
    BY <2>6, <2>7
<1> HIDE DEF Good
<1>4. Len(s) \in Good
  BY <1>2, <1>3, SetInduction
<1>5. Is(Len(s))
  BY <1>4 DEF Good
<1>6. Range(s) = {s[j] : j \in 1..Len(s)}
  BY DEF Range
<1>7. QED
  BY <1>1, <1>5, <1>6

\* Sequences one after the other.
IsFlat(f, ss, n) == f = [i \in 1..n |-> IF i = 1 THEN ss[i] ELSE f[i - 1] \o ss[i]]

\* There is a function of the places that joins the parts up to any of them.
LEMMA FlatUpTo ==
  ASSUME NEW ss, NEW n \in Nat
  PROVE  \E f : IsFlat(f, ss, n)
<1> DEFINE Have == {m \in Nat : \E f : IsFlat(f, ss, m)}
<1>1. 0 \in Have
  <2>1. IsFlat([i \in 1..0 |-> ss[i]], ss, 0)
    BY DEF IsFlat
  <2>2. QED
    BY <2>1
<1>2. ASSUME NEW m \in Nat, m \in Have PROVE m + 1 \in Have
  <2>1. PICK f : IsFlat(f, ss, m)
    BY <1>2
  <2>2. \A k \in 1..m : f[k] = IF k = 1 THEN ss[k] ELSE f[k - 1] \o ss[k]
    BY <2>1 DEF IsFlat
  <2> DEFINE last == IF m = 0 THEN ss[1] ELSE f[m] \o ss[m + 1]
             g    == [i \in 1..(m + 1) |-> IF i <= m THEN f[i] ELSE last]
  <2>3. ASSUME NEW i \in 1..(m + 1)
        PROVE  g[i] = IF i = 1 THEN ss[i] ELSE g[i - 1] \o ss[i]
    <3>1. CASE i \in 1..m
      <4>1. f[i] = IF i = 1 THEN ss[i] ELSE f[i - 1] \o ss[i]
        BY <2>2, <3>1
      <4>2. g[i] = f[i] /\ (i # 1 => i - 1 \in 1..m /\ g[i - 1] = f[i - 1])
        BY <3>1
      <4>3. QED
        BY <4>1, <4>2
    <3>2. CASE i = m + 1
      <4>1. g[i] = last /\ (i # 1 => m # 0 /\ g[i - 1] = f[m]) /\ (i = 1 => m = 0)
        BY <3>2
      <4>2. QED
        BY <3>2, <4>1
    <3>3. QED
      BY <3>1, <3>2
  <2> HIDE DEF g
  <2>4. g = [i \in 1..(m + 1) |-> g[i]]
    BY DEF g
  <2>5. IsFlat(g, ss, m + 1)
    BY <2>3, <2>4 DEF IsFlat
  <2>6. QED
    BY <2>5
<1> HIDE DEF Have
<1>3. Nat \subseteq Have
  BY <1>1, <1>2, SetInduction
<1>4. QED
  BY <1>3 DEF Have

\* A flattened sequence has no elements but those of its parts.
LEMMA FlatIs ==
  ASSUME NEW T, NEW ss \in Seq(Seq(T))
  PROVE  FlattenSeq(ss) \in Seq(T)
<1>1. CASE Len(ss) = 0
  <2>1. FlattenSeq(ss) = <<>>
    BY <1>1 DEF FlattenSeq
  <2>2. <<>> \in Seq(T)
    OBVIOUS
  <2>3. QED
    BY <2>1, <2>2
<1>2. CASE Len(ss) # 0
  <2> DEFINE P == CHOOSE f : IsFlat(f, ss, Len(ss))
  <2>1. IsFlat(P, ss, Len(ss))
    <3>1. Len(ss) \in Nat
      OBVIOUS
    <3>2. QED
      BY <3>1, FlatUpTo
  <2>2. FlattenSeq(ss) = P[Len(ss)]
    BY <1>2 DEF FlattenSeq, IsFlat
  <2> HIDE DEF P
  <2>3. \A k \in 1..Len(ss) : P[k] = IF k = 1 THEN ss[k] ELSE P[k - 1] \o ss[k]
    BY <2>1 DEF IsFlat
  <2> DEFINE Good == {n \in Nat : n \in 1..Len(ss) => P[n] \in Seq(T)}
  <2>4. 0 \in Good
    OBVIOUS
  <2>5. ASSUME NEW n \in Nat, n \in Good PROVE n + 1 \in Good
    <3>1. SUFFICES ASSUME n + 1 \in 1..Len(ss) PROVE P[n + 1] \in Seq(T)
      OBVIOUS
    <3>2. ss[n + 1] \in Seq(T)
      BY <3>1
    <3>3. CASE n = 0
      BY <2>3, <3>1, <3>2, <3>3
    <3>4. CASE n # 0
      <4>1. P[n] \in Seq(T)
        BY <2>5, <3>1, <3>4
      <4>2. n + 1 # 1 /\ n + 1 - 1 = n
        BY <3>4
      <4>3. \A k \in 1..Len(ss) : k # 1 => P[k] = P[k - 1] \o ss[k]
        BY <2>3, Zenon
      <4>4. P[n + 1] = P[(n + 1) - 1] \o ss[n + 1]
        BY <3>1, <4>2, <4>3, Zenon
      <4>5. P[(n + 1) - 1] \in Seq(T)
        BY <4>1, <4>2
      <4>6. QED
        BY <3>2, <4>4, <4>5
    <3>5. QED
      BY <3>3, <3>4
  <2> HIDE DEF Good
  <2>6. Nat \subseteq Good
    BY <2>4, <2>5, SetInduction
  <2>7. Len(ss) \in Nat /\ Len(ss) \in 1..Len(ss)
    BY <1>2
  <2>8. QED
    BY <2>2, <2>6, <2>7 DEF Good
<1>3. QED
  BY <1>1, <1>2

\* The declarations of a file, one after the other.
IsTop(f, u, n) ==
  f = [i \in 0..n |-> IF i = 0 THEN [scope |-> WithPrelude, errors |-> {}] ELSE Declared(f[i - 1], u[i])]

\* There is a function of the places that declares the items up to any of them.
LEMMA TopUpTo ==
  ASSUME NEW u, NEW n \in Nat
  PROVE  \E f : IsTop(f, u, n)
<1> DEFINE base == [scope |-> WithPrelude, errors |-> {}]
           Have == {m \in Nat : \E f : IsTop(f, u, m)}
<1>1. 0 \in Have
  <2>1. IsTop([i \in 0..0 |-> base], u, 0)
    BY DEF IsTop
  <2>2. QED
    BY <2>1
<1>2. ASSUME NEW m \in Nat, m \in Have PROVE m + 1 \in Have
  <2>1. PICK f : IsTop(f, u, m)
    BY <1>2
  <2>2. \A k \in 0..m : f[k] = IF k = 0 THEN base ELSE Declared(f[k - 1], u[k])
    BY <2>1 DEF IsTop
  <2> DEFINE g == [i \in 0..(m + 1) |-> IF i <= m THEN f[i] ELSE Declared(f[m], u[m + 1])]
  <2> HIDE DEF base
  <2>3. ASSUME NEW i \in 0..(m + 1)
        PROVE  g[i] = IF i = 0 THEN base ELSE Declared(g[i - 1], u[i])
    <3>1. CASE i \in 0..m
      <4>1. f[i] = IF i = 0 THEN base ELSE Declared(f[i - 1], u[i])
        BY <2>2, <3>1
      <4>2. g[i] = f[i] /\ (i # 0 => i - 1 \in 0..m /\ g[i - 1] = f[i - 1])
        BY <3>1
      <4>3. QED
        BY <4>1, <4>2
    <3>2. CASE i = m + 1
      <4>1. g[i] = Declared(f[m], u[m + 1]) /\ g[i - 1] = f[m] /\ i # 0
        BY <3>2
      <4>2. QED
        BY <3>2, <4>1
    <3>3. QED
      BY <3>1, <3>2
  <2> HIDE DEF g
  <2>4. g = [i \in 0..(m + 1) |-> g[i]]
    BY DEF g
  <2>5. IsTop(g, u, m + 1)
    BY <2>3, <2>4 DEF IsTop, base
  <2>6. QED
    BY <2>5
<1> HIDE DEF Have
<1>3. Nat \subseteq Have
  BY <1>1, <1>2, SetInduction
<1>4. QED
  BY <1>3 DEF Have

\* Declaring reports names that are taken (E0201), and nothing else.
LEMMA TopReports ==
  ASSUME NEW u, Len(u) \in Nat
  PROVE  \A e \in TopLevel(u).errors : e[1] = "E0201"
<1> DEFINE G == CHOOSE f : IsTop(f, u, Len(u))
<1>1. IsTop(G, u, Len(u))
  BY TopUpTo
<1>2. TopLevel(u) = G[Len(u)]
  BY DEF TopLevel, IsTop
<1> HIDE DEF G
<1>3. \A k \in 0..Len(u) : G[k] = IF k = 0 THEN [scope |-> WithPrelude, errors |-> {}] ELSE Declared(G[k - 1], u[k])
  BY <1>1 DEF IsTop
<1> DEFINE Good == {n \in Nat : n <= Len(u) => \A e \in G[n].errors : e[1] = "E0201"}
<1>4. 0 \in Good
  BY <1>3
<1>5. ASSUME NEW n \in Nat, n \in Good PROVE n + 1 \in Good
  <2>1. SUFFICES ASSUME n + 1 <= Len(u) PROVE \A e \in G[n + 1].errors : e[1] = "E0201"
    OBVIOUS
  <2>2. n + 1 \in 0..Len(u) /\ n + 1 # 0 /\ n + 1 - 1 = n
    BY <2>1
  <2>3. G[n + 1] = Declared(G[n], u[n + 1])
    BY <1>3, <2>2
  <2>4. \A e \in G[n].errors : e[1] = "E0201"
    BY <1>5, <2>1
  <2>5. QED
    BY <2>3, <2>4 DEF Declared
<1> HIDE DEF Good
<1>6. Nat \subseteq Good
  BY <1>4, <1>5, SetInduction
<1>7. QED
  BY <1>2, <1>6 DEF Good

\* What the items of a file refer to, one item after the other.
IsRead(f, u, n) ==
  f = [i \in 0..n |-> IF i = 0 THEN [scope |-> TopLevel(u).scope, refs |-> {}] ELSE Visited(f[i - 1], u[i])]

\* There is a function of the places that reads the items up to any of them.
LEMMA ReadUpTo ==
  ASSUME NEW u, NEW n \in Nat
  PROVE  \E f : IsRead(f, u, n)
<1> DEFINE base == [scope |-> TopLevel(u).scope, refs |-> {}]
           Have == {m \in Nat : \E f : IsRead(f, u, m)}
<1>1. 0 \in Have
  <2>1. IsRead([i \in 0..0 |-> base], u, 0)
    BY DEF IsRead
  <2>2. QED
    BY <2>1
<1>2. ASSUME NEW m \in Nat, m \in Have PROVE m + 1 \in Have
  <2>1. PICK f : IsRead(f, u, m)
    BY <1>2
  <2>2. \A k \in 0..m : f[k] = IF k = 0 THEN base ELSE Visited(f[k - 1], u[k])
    BY <2>1 DEF IsRead
  <2> DEFINE g == [i \in 0..(m + 1) |-> IF i <= m THEN f[i] ELSE Visited(f[m], u[m + 1])]
  <2> HIDE DEF base
  <2>3. ASSUME NEW i \in 0..(m + 1)
        PROVE  g[i] = IF i = 0 THEN base ELSE Visited(g[i - 1], u[i])
    <3>1. CASE i \in 0..m
      <4>1. f[i] = IF i = 0 THEN base ELSE Visited(f[i - 1], u[i])
        BY <2>2, <3>1
      <4>2. g[i] = f[i] /\ (i # 0 => i - 1 \in 0..m /\ g[i - 1] = f[i - 1])
        BY <3>1
      <4>3. QED
        BY <4>1, <4>2
    <3>2. CASE i = m + 1
      <4>1. g[i] = Visited(f[m], u[m + 1]) /\ g[i - 1] = f[m] /\ i # 0
        BY <3>2
      <4>2. QED
        BY <3>2, <4>1
    <3>3. QED
      BY <3>1, <3>2
  <2> HIDE DEF g
  <2>4. g = [i \in 0..(m + 1) |-> g[i]]
    BY DEF g
  <2>5. IsRead(g, u, m + 1)
    BY <2>3, <2>4 DEF IsRead, base
  <2>6. QED
    BY <2>5
<1> HIDE DEF Have
<1>3. Nat \subseteq Have
  BY <1>1, <1>2, SetInduction
<1>4. QED
  BY <1>3 DEF Have

\* What refers to something stands in a body.
LEMMA ReferredInBody ==
  ASSUME NEW b, NEW stack
  PROVE  \A r \in Referred(b, stack) : \E i \in DOMAIN b : r[1] = b[i].at
BY DEF Referred

\* The uses that the index records stand in bodies.
LEMMA ReferencesInBodies ==
  ASSUME NEW u, Len(u) \in Nat, DOMAIN u = 1..Len(u)
  PROVE  \A r \in References(u) : \E k \in DOMAIN u : \E i \in DOMAIN u[k].body : r[1] = u[k].body[i].at
<1> DEFINE R == CHOOSE f : IsRead(f, u, Len(u))
           Stands(r) == \E k \in DOMAIN u : \E i \in DOMAIN u[k].body : r[1] = u[k].body[i].at
<1>1. IsRead(R, u, Len(u))
  BY ReadUpTo
<1>2. References(u) = R[Len(u)].refs
  BY DEF References, IsRead
<1> HIDE DEF R
<1>3. \A k \in 0..Len(u) : R[k] = IF k = 0 THEN [scope |-> TopLevel(u).scope, refs |-> {}] ELSE Visited(R[k - 1], u[k])
  BY <1>1 DEF IsRead
<1> DEFINE Good == {n \in Nat : n <= Len(u) => \A r \in R[n].refs : Stands(r)}
<1>4. 0 \in Good
  BY <1>3
<1>5. ASSUME NEW n \in Nat, n \in Good PROVE n + 1 \in Good
  <2>1. SUFFICES ASSUME n + 1 <= Len(u) PROVE \A r \in R[n + 1].refs : Stands(r)
    OBVIOUS
  <2>2. n + 1 \in 0..Len(u) /\ n + 1 # 0 /\ n + 1 - 1 = n
    BY <2>1
  <2>3. R[n + 1] = Visited(R[n], u[n + 1])
    BY <1>3, <2>2
  <2>4. \A r \in R[n].refs : Stands(r)
    BY <1>5, <2>1
  <2>5. n + 1 \in DOMAIN u
    BY <2>1
  <2> DEFINE it    == u[n + 1]
             given == DOMAIN it.params \cup (IF it.k = "impl" THEN {"self"} ELSE {})
             inner == IF it.k = "stmt" THEN R[n].scope ELSE Append(R[n].scope, [m \in given |-> <<it.at, m>>])
  <2>6. R[n + 1].refs \subseteq R[n].refs \cup Referred(u[n + 1].body, inner)
    <3>1. R[n + 1].refs = R[n].refs \cup (IF it.k \in {"fn", "impl", "stmt"} THEN Referred(it.body, inner) ELSE {})
      BY <2>3 DEF Visited
    <3> HIDE DEF inner
    <3>2. QED
      BY <3>1
  <2> HIDE DEF Stands
  <2>7. \A s : \A r \in Referred(u[n + 1].body, s) : Stands(r)
    BY <2>5, ReferredInBody DEF Stands
  <2>8. QED
    BY <2>4, <2>6, <2>7
<1> HIDE DEF Good
<1>6. Nat \subseteq Good
  BY <1>4, <1>5, SetInduction
<1>7. QED
  BY <1>2, <1>6 DEF Good

-----------------------------------------------------------------------------
(* Where errors stand.                                                     *)

\* Two sequences, one after the other, are as long as both.
LEMMA ConcatIs ==
  ASSUME NEW T, NEW s \in Seq(T), NEW t \in Seq(T)
  PROVE  s \o t \in Seq(T) /\ Len(s \o t) = Len(s) + Len(t)
OBVIOUS

\* Two sequences, one after the other, have the elements of both.
LEMMA RangeOfConcat ==
  ASSUME NEW T, NEW s \in Seq(T), NEW t \in Seq(T)
  PROVE  s \o t \in Seq(T) /\ Range(s \o t) = Range(s) \cup Range(t)
<1>1. s \o t \in Seq(T) /\ DOMAIN (s \o t) = 1..(Len(s) + Len(t)) /\ DOMAIN s = 1..Len(s) /\ DOMAIN t = 1..Len(t)
  OBVIOUS
<1>2. \A i \in 1..Len(s) : i \in 1..(Len(s) + Len(t)) /\ (s \o t)[i] = s[i]
  OBVIOUS
<1>3. \A i \in 1..Len(t) : Len(s) + i \in 1..(Len(s) + Len(t)) /\ (s \o t)[Len(s) + i] = t[i]
  OBVIOUS
<1>4. ASSUME NEW i \in 1..(Len(s) + Len(t)) PROVE (s \o t)[i] \in Range(s) \cup Range(t)
  <2>1. CASE i <= Len(s)
    BY <1>1, <1>2, <2>1 DEF Range
  <2>2. CASE i > Len(s)
    <3>1. i - Len(s) \in 1..Len(t) /\ i = Len(s) + (i - Len(s))
      BY <2>2
    <3>2. (s \o t)[i] = t[i - Len(s)]
      BY <3>1
    <3>3. QED
      BY <1>1, <3>1, <3>2 DEF Range
  <2>3. QED
    BY <2>1, <2>2
<1>5. Range(s) \subseteq Range(s \o t)
  BY <1>1, <1>2 DEF Range
<1>6. Range(t) \subseteq Range(s \o t)
  BY <1>1, <1>3 DEF Range
<1>7. Range(s \o t) \subseteq Range(s) \cup Range(t)
  BY <1>1, <1>4 DEF Range
<1>8. QED
  BY <1>1, <1>5, <1>6, <1>7

\* An item none of whose parts has a place of P, but for an import's own.
Apart(it, P) ==
  /\ it.k # "import" => it.at \notin P
  /\ it.body \in Seq(Range(it.body)) /\ \A ev \in Range(it.body) : ev.at \notin P

\* The items of some kinds are those of the sequence that are of these kinds.
LEMMA OfKindIs ==
  ASSUME NEW T, NEW u \in Seq(T), NEW kinds
  PROVE  OfKind(u, kinds) \in Seq(T) /\ Range(OfKind(u, kinds)) = {it \in Range(u) : it.k \in kinds}
<1> DEFINE S == {it \in Range(u) : it.k \in kinds}
<1>1. Picked(u, S) \in Seq(T \cap S) /\ Range(Picked(u, S)) = Range(u) \cap S
  BY PickedIs
<1>2. Picked(u, S) \in Seq(T)
  BY <1>1
<1>3. QED
  BY <1>1, <1>2 DEF OfKind

\* The items that own the reports of a pass stand apart from any import.
LEMMA OwnersApart ==
  ASSUME NEW T, NEW u \in Seq(T), NEW P, \A it \in T : Apart(it, P)
  PROVE  \A it \in Range(Owners(u)) : \A j \in DOMAIN it.body : it.body[j].at \notin P
<1> DEFINE O  == OfKind(u, {"stmt"})
           E  == UNION {Range(it.body) : it \in T}
           ss == [i \in DOMAIN O |-> O[i].body]
           M  == Fn(0 - 2, "main", NoBinds, ImplicitBody(u))
<1>1. \A it \in T : it.body \in Seq(E)
  <2>1. ASSUME NEW it \in T PROVE it.body \in Seq(E)
    <3>1. it.body \in Seq(Range(it.body)) /\ Range(it.body) \subseteq E
      BY DEF Apart
    <3>2. QED
      BY <3>1
  <2>2. QED
    BY <2>1
<1>2. \A ev \in E : ev.at \notin P
  BY DEF Apart
<1>3. ImplicitBody(u) \in Seq(E)
  <2>1. O \in Seq(T)
    BY OfKindIs
  <2>2. ss \in Seq(Seq(E))
    <3>1. DOMAIN O = 1..Len(O) /\ Len(O) \in Nat /\ \A i \in 1..Len(O) : O[i] \in T
      BY <2>1
    <3> HIDE DEF O, E
    <3>2. QED
      BY <1>1, <3>1
  <2>3. FlattenSeq(ss) \in Seq(E)
    BY <2>2, FlatIs
  <2>4. QED
    BY <2>3 DEF ImplicitBody
<1>4. M.body = ImplicitBody(u)
  BY DEF Fn, Item
<1> HIDE DEF M, E
<1>5. \A it \in T \cup {M} : it.body \in Seq(E)
  BY <1>1, <1>3, <1>4
<1>6. Range(Owners(u)) \subseteq T \cup {M}
  <2>1. Implicit(u) \in Seq(T \cup {M})
    <3>1. Implicit(u) = <<>> \/ Implicit(u) = <<M>>
      BY DEF Implicit, M
    <3> DEFINE X == T \cup {M}
    <3>2. M \in X
      OBVIOUS
    <3> HIDE DEF X
    <3>3. <<>> \in Seq(X) /\ <<M>> \in Seq(X)
      BY <3>2
    <3>4. Implicit(u) \in Seq(X)
      BY <3>1, <3>3, Zenon
    <3>5. QED
      BY <3>4 DEF X
  <2>2. OfKind(u, {"fn"}) \in Seq(T \cup {M}) /\ OfKind(u, {"impl"}) \in Seq(T \cup {M})
    <3>1. OfKind(u, {"fn"}) \in Seq(T) /\ OfKind(u, {"impl"}) \in Seq(T)
      BY OfKindIs
    <3>2. QED
      BY <3>1
  <2>3. Owners(u) \in Seq(T \cup {M})
    BY <2>1, <2>2 DEF Owners
  <2>4. QED
    BY <2>3 DEF Range
<1>7. ASSUME NEW it \in Range(Owners(u)), NEW j \in DOMAIN it.body PROVE it.body[j].at \notin P
  <2>1. it.body \in Seq(E)
    BY <1>5, <1>6
  <2>2. it.body[j] \in E
    BY <2>1
  <2>3. QED
    BY <1>2, <2>2
<1>8. QED
  BY <1>7

\* The checker reports calls.
LEMMA CheckedApart ==
  ASSUME NEW T, NEW u \in Seq(T), NEW P, \A it \in T : Apart(it, P)
  PROVE  \A e \in Checked(u) : e[2] \notin P
BY OwnersApart DEF Checked

\* The resolver reports names that are taken, functions and what stands in
\* bodies.
LEMMA ResolvedApart ==
  ASSUME NEW T, NEW u \in Seq(T), NEW P, \A it \in T : Apart(it, P)
  PROVE  \A e \in Resolved(u).errors : e[1] # "E0201" => e[2] \notin P
<1>1. Len(u) \in Nat /\ DOMAIN u = 1..Len(u) /\ \A i \in DOMAIN u : u[i] \in T
  OBVIOUS
<1>2. \A i \in DOMAIN u : \A j \in DOMAIN u[i].body : u[i].body[j].at \notin P
  BY <1>1 DEF Apart, Range
<1>3. \A e \in TopLevel(u).errors : e[1] = "E0201"
  BY <1>1, TopReports
<1>4. \A e \in Restricted(u) : e[2] \notin P
  <2>1. \A i \in DOMAIN u : u[i].k = "fn" => u[i].at \notin P
    BY <1>1 DEF Apart
  <2>2. ASSUME NEW e \in Restricted(u) PROVE e[2] \notin P
    <3>1. CASE \E i \in DOMAIN u : u[i].k = "fn" /\ e = <<"E0213", u[i].at>>
      BY <2>1, <3>1
    <3>2. CASE \E i \in DOMAIN u : \E j \in DOMAIN u[i].body : \E c : e = <<c, u[i].body[j].at>>
      <4>1. PICK i \in DOMAIN u : \E j \in DOMAIN u[i].body : \E c : e = <<c, u[i].body[j].at>>
        BY <3>2
      <4>2. PICK j \in DOMAIN u[i].body : \E c : e = <<c, u[i].body[j].at>>
        BY <4>1
      <4>3. e[2] = u[i].body[j].at
        BY <4>2
      <4>4. QED
        BY <1>2, <4>3
    <3>3. QED
      BY <2>2, <3>1, <3>2, ZenonT(60) DEF Restricted
  <2>3. QED
    BY <2>2
<1>5. \A r \in References(u) : r[1] \notin P
  BY <1>1, <1>2, ReferencesInBodies
<1>6. QED
  BY <1>3, <1>4, <1>5 DEF Resolved

-----------------------------------------------------------------------------
(* The items of a compilation.                                             *)

HasFields(it) == it = [f \in ItemFields |-> it[f]]

\* A main that may fail is renamed: no import is touched.
LEMMA ErrMainImports ==
  ASSUME NEW T, NEW u \in Seq(T), NEW p,
         \A it \in T : HasFields(it) /\ (it.k = "import" => it.at # p)
  PROVE  \A it \in Range(OfKind(ErrMain(u), {"import"})) : it.at # p
<1> DEFINE mains == {i \in DOMAIN u : u[i].k = "fn" /\ u[i].name = "main"}
           first == CHOOSE i \in mains : \A j \in mains : i <= j
           Changed(i) == [u[i] EXCEPT
                            !.name = IF i = first THEN Inner ELSE @,
                            !.body = [j \in DOMAIN @ |-> IF CallsMain(u[i], j)
                                                         THEN [@[j] EXCEPT !.name = Inner] ELSE @[j]]]
           s == [i \in DOMAIN u |-> Changed(i)]
           X == {Changed(i) : i \in DOMAIN u}
<1>1. ASSUME NEW i \in DOMAIN u PROVE Changed(i).k = u[i].k /\ Changed(i).at = u[i].at
  <2>1. HasFields(u[i])
    OBVIOUS
  <2>2. DOMAIN u[i] = ItemFields /\ "k" \in DOMAIN u[i] /\ "at" \in DOMAIN u[i]
    BY <2>1 DEF HasFields, ItemFields
  <2>3. QED
    BY <2>2
<1> HIDE DEF Changed
<1>2. ErrMain(u) = u \/ ErrMain(u) = Append(s, ErrWrapper)
  BY DEF ErrMain, Changed
<1>3. s \in Seq(X)
  OBVIOUS
<1>4. \A it \in X : it.k = "import" => it.at # p
  BY <1>1
<1>5. ErrWrapper.k = "fn"
  BY DEF ErrWrapper, Fn, Item
<1> DEFINE Y == T \cup X \cup {ErrWrapper}
<1>6. \A it \in Y : it.k = "import" => it.at # p
  BY <1>4, <1>5
<1>7. ErrMain(u) \in Seq(Y)
  <2> HIDE DEF X, s
  <2>1. u \in Seq(Y) /\ s \in Seq(Y) /\ ErrWrapper \in Y
    BY <1>3
  <2> HIDE DEF Y
  <2>2. Append(s, ErrWrapper) \in Seq(Y)
    BY <2>1
  <2>3. QED
    BY <1>2, <2>1, <2>2, Zenon
<1> HIDE DEF Y
<1>8. Range(OfKind(ErrMain(u), {"import"})) = {it \in Range(ErrMain(u)) : it.k = "import"}
  BY <1>7, OfKindIs
<1>9. Range(ErrMain(u)) \subseteq Y
  BY <1>7 DEF Range
<1>10. QED
  BY <1>6, <1>8, <1>9

\* What the first two passes make of the items of a file.
AutoItems     == {Import(0 - 1, <<m>>, "") : m \in {"string", "list", "io"}}
Desugared(it) == IF it.k = "test" THEN TestFn(it) ELSE it
Plain(items)  == {Desugared(it) : it \in AutoItems \cup Range(items)}

\* They yield what the items of the file and the automatic imports desugar to,
\* and nothing else.
LEMMA DesugaredIs ==
  ASSUME NEW T, NEW items \in Seq(T)
  PROVE  TestsDesugared(WithAutoImports(items)) \in Seq(Plain(items))
<1> DEFINE A == AutoImports(items)
           s == [i \in DOMAIN A |-> Import(0 - 1, <<A[i]>>, "")]
           X == AutoItems \cup Range(items)
<1>1. A \in Seq({"string", "list", "io"})
  <2>1. AutoModules \in Seq({"string", "list", "io"})
    BY DEF AutoModules
  <2> DEFINE S == {m \in Range(AutoModules) : Needs(items, m)} \ Already(items)
  <2>2. Picked(AutoModules, S) \in Seq({"string", "list", "io"} \cap S)
    BY <2>1, PickedIs
  <2>3. Picked(AutoModules, S) \in Seq({"string", "list", "io"})
    <3> HIDE DEF S
    <3>1. QED
      BY <2>2
  <2>4. QED
    BY <2>3 DEF AutoImports
<1> HIDE DEF A
<1>2. s \in Seq(AutoItems)
  <2>1. DOMAIN A = 1..Len(A) /\ Len(A) \in Nat /\ \A i \in 1..Len(A) : A[i] \in {"string", "list", "io"}
    BY <1>1
  <2>2. \A i \in 1..Len(A) : Import(0 - 1, <<A[i]>>, "") \in AutoItems
    BY <2>1 DEF AutoItems
  <2>3. s \in [1..Len(A) -> AutoItems]
    BY <2>1, <2>2
  <2> HIDE DEF s
  <2>4. QED
    BY <2>1, <2>3
<1>3. s \in Seq(X) /\ items \in Seq(X)
  <2>1. items \in Seq(Range(items))
    BY DEF Range
  <2> HIDE DEF s
  <2>2. QED
    BY <1>2, <2>1
<1>4. WithAutoImports(items) \in Seq(X)
  <2>1. WithAutoImports(items) = s \o items
    BY DEF WithAutoImports, A
  <2> HIDE DEF s, X
  <2>2. QED
    BY <1>3, <2>1
<1>5. TestsDesugared(WithAutoImports(items)) \in Seq(Plain(items))
  <2> DEFINE u == WithAutoImports(items)
  <2>1. DOMAIN u = 1..Len(u) /\ Len(u) \in Nat /\ \A i \in 1..Len(u) : u[i] \in X
    BY <1>4
  <2>2. \A i \in 1..Len(u) : Desugared(u[i]) \in Plain(items)
    BY <2>1 DEF Plain
  <2>3. TestsDesugared(u) = [i \in DOMAIN u |-> Desugared(u[i])]
    BY DEF TestsDesugared, Desugared
  <2> DEFINE v == TestsDesugared(u)
  <2> HIDE DEF u
  <2>4. v \in [1..Len(u) -> Plain(items)]
    BY <2>1, <2>2, <2>3
  <2> HIDE DEF v
  <2>5. v \in Seq(Plain(items))
    BY <2>1, <2>4
  <2>6. QED
    BY <2>5 DEF u, v
<1>6. QED
  BY <1>5

\* What stays of an event and of an item when names are renamed.
IsEvent(ev) == ev = [f \in EventFields |-> ev[f]]
HasEvents(it) == it.body \in Seq(Range(it.body)) /\ \A ev \in Range(it.body) : IsEvent(ev)
IsRenaming(x, y) ==
  \E b : /\ y = [x EXCEPT !.body = b] /\ b = [j \in DOMAIN x.body |-> b[j]]
         /\ \A j \in DOMAIN b : \E new : b[j] = WithNames(x.body[j], new)

\* Renaming the names of an event leaves its place.
LEMMA WithNamesIs ==
  ASSUME NEW ev, IsEvent(ev), NEW new
  PROVE  IsEvent(WithNames(ev, new)) /\ WithNames(ev, new).at = ev.at
<1>1. DOMAIN ev = EventFields
  BY DEF IsEvent
<1> DEFINE n == IF ev.e \in {"call", "let"} THEN new[ev.name] ELSE ev.name
           m == IF ev.e = "qualified" THEN new[ev.mod] ELSE ev.mod
           b == [x \in {new[y] : y \in DOMAIN ev.binds} |-> \E y \in DOMAIN ev.binds : new[y] = x /\ ev.binds[y]]
<1>2. WithNames(ev, new) = [ev EXCEPT !.name = n, !.mod = m, !.binds = b]
  BY <1>1 DEF WithNames, EventFields
<1> HIDE DEF n, m, b
<1>3. QED
  BY <1>1, <1>2 DEF IsEvent, EventFields

\* Renaming the names of an item leaves what is not its body, and the places in
\* its body.
LEMMA RenamingIs ==
  ASSUME NEW x, HasFields(x), HasEvents(x), NEW y, IsRenaming(x, y)
  PROVE  /\ HasFields(y) /\ HasEvents(y)
         /\ y.k = x.k /\ y.at = x.at /\ y.path = x.path /\ y.merged = x.merged
         /\ \A ev \in Range(y.body) : \E old \in Range(x.body) : ev.at = old.at
<1>1. PICK b : /\ y = [x EXCEPT !.body = b] /\ b = [j \in DOMAIN x.body |-> b[j]]
               /\ \A j \in DOMAIN b : \E new : b[j] = WithNames(x.body[j], new)
  BY DEF IsRenaming
<1>2. DOMAIN x = ItemFields
  BY DEF HasFields
<1>3. /\ HasFields(y) /\ y.body = b
      /\ y.k = x.k /\ y.at = x.at /\ y.path = x.path /\ y.merged = x.merged
  BY <1>1, <1>2 DEF HasFields, ItemFields
<1>4. ASSUME NEW j \in DOMAIN b PROVE IsEvent(b[j]) /\ x.body[j] \in Range(x.body) /\ b[j].at = x.body[j].at
  <2>1. x.body[j] \in Range(x.body) /\ IsEvent(x.body[j])
    BY <1>1 DEF HasEvents, Range
  <2>2. PICK new : b[j] = WithNames(x.body[j], new)
    BY <1>1
  <2>3. QED
    BY <2>1, <2>2, WithNamesIs
<1>5. b \in Seq(Range(b))
  <2>1. DOMAIN b = 1..Len(x.body) /\ Len(x.body) \in Nat
    BY <1>1 DEF HasEvents
  <2>2. b = [j \in 1..Len(x.body) |-> b[j]]
    BY <1>1, <2>1
  <2>3. QED
    BY <2>1, <2>2 DEF Range
<1>6. QED
  BY <1>3, <1>4, <1>5 DEF HasEvents, Range

\* The places of the imports of a world: their own, and the one of those that
\* were forgotten.
Places(w) == {0 - 1} \cup {it.at : it \in {it \in Range(w.main.items) : it.k = "import"}}

\* An item of the file that is compiled: not merged, and not where an import
\* stands unless it is that import.
IsOwn(it, P) ==
  /\ HasFields(it) /\ HasEvents(it) /\ it.merged = FALSE /\ Apart(it, P)
  /\ it.k = "import" => /\ it.at \in P /\ it.at # 0
                        /\ it.path \in Seq(Range(it.path)) /\ it.path # <<>>

\* What the file has after the first two passes.
LEMMA PlainIs ==
  ASSUME NEW w \in Worlds, NEW it \in Plain(w.main.items)
  PROVE  IsOwn(it, Places(w))
<1> USE DEF ItemFields
<1>1. PICK o \in AutoItems \cup Range(w.main.items) : it = Desugared(o)
  BY DEF Plain
<1>2. CASE o \in AutoItems
  <2>1. PICK m \in {"string", "list", "io"} : o = Import(0 - 1, <<m>>, "")
    BY <1>2 DEF AutoItems
  <2>2. /\ HasFields(o) /\ o.k = "import" /\ o.at = 0 - 1 /\ o.path = <<m>>
        /\ o.merged = FALSE /\ o.body = <<>>
    BY <2>1 DEF Import, Item, HasFields
  <2>3. it = o
    BY <1>1, <2>2 DEF Desugared
  <2>4. <<>> \in Seq(Range(<<>>)) /\ Range(<<>>) = {}
    BY DEF Range
  <2>5. <<m>> \in Seq(Range(<<m>>)) /\ <<m>> # <<>>
    BY DEF Range
  <2>6. it.body \in Seq(Range(it.body)) /\ Range(it.body) = {}
    BY <2>2, <2>3, <2>4, Zenon
  <2>7. Apart(it, Places(w)) /\ HasEvents(it)
    BY <2>2, <2>3, <2>6 DEF Apart, HasEvents
  <2>8. it.path \in Seq(Range(it.path)) /\ it.path # <<>>
    BY <2>2, <2>3, <2>5, Zenon
  <2>9. it.at \in Places(w) /\ it.at # 0
    BY <2>2, <2>3 DEF Places
  <2>10. QED
    BY <2>2, <2>3, <2>7, <2>8, <2>9 DEF IsOwn
<1>3. CASE o \in Range(w.main.items)
  <2>1. IsItem(o) /\ o \in Written(w)
    BY <1>3, WorldsAssumption DEF IsFile, Written
  <2>2. HasFields(o) /\ DOMAIN o = ItemFields
    BY <2>1 DEF IsItem, HasFields
  <2>3. o.at \in Nat \ {0} /\ o.merged = FALSE /\ o.body \in Seq(Range(o.body))
    BY <2>1 DEF IsItem
  <2>4. HasEvents(o) /\ \A ev \in Range(o.body) : ev.at \in Nat \ {0}
    BY <2>1 DEF IsItem, HasEvents, IsEvent
  <2>5. \A imp \in Range(w.main.items) : imp.k = "import" =>
            /\ o.k # "import" => o.at # imp.at
            /\ \A ev \in Range(o.body) : ev.at # imp.at
    BY <2>1, WorldsAssumption
  <2>6. /\ HasFields(it) /\ it.merged = FALSE /\ it.at = o.at /\ it.body = o.body
        /\ (it.k = "import" <=> o.k = "import") /\ (it.k = "import" => it.path = o.path)
    <3>1. CASE o.k = "test"
      <4>1. it = TestFn(o)
        BY <1>1, <3>1 DEF Desugared
      <4>2. QED
        BY <2>2, <2>3, <3>1, <4>1 DEF TestFn, HasFields
    <3>2. CASE o.k # "test"
      <4>1. it = o
        BY <1>1, <3>2 DEF Desugared
      <4>2. QED
        BY <2>2, <2>3, <4>1
    <3>3. QED
      BY <3>1, <3>2
  <2>7. Apart(it, Places(w))
    <3>1. it.k # "import" => it.at \notin Places(w)
      BY <2>3, <2>5, <2>6 DEF Places
    <3>2. \A ev \in Range(it.body) : ev.at \notin Places(w)
      BY <2>4, <2>5, <2>6 DEF Places
    <3>3. QED
      BY <2>3, <2>6, <3>1, <3>2 DEF Apart
  <2>8. it.k = "import" => /\ it.at \in Places(w) /\ it.at # 0
                           /\ it.path \in Seq(Range(it.path)) /\ it.path # <<>>
    BY <1>3, <2>1, <2>3, <2>6 DEF Places, IsItem
  <2>9. HasEvents(it)
    BY <2>4, <2>6 DEF HasEvents
  <2>10. QED
    BY <2>6, <2>7, <2>8, <2>9 DEF IsOwn
<1>4. QED
  BY <1>1, <1>2, <1>3

\* Renaming leaves an item of the file what it is.
LEMMA RenamedIsOwn ==
  ASSUME NEW P, NEW x, IsOwn(x, P), NEW y, IsRenaming(x, y)
  PROVE  IsOwn(y, P)
<1>1. /\ HasFields(y) /\ HasEvents(y)
      /\ y.k = x.k /\ y.at = x.at /\ y.path = x.path /\ y.merged = x.merged
      /\ \A ev \in Range(y.body) : \E old \in Range(x.body) : ev.at = old.at
  BY RenamingIs DEF IsOwn
<1>2. Apart(y, P)
  BY <1>1 DEF IsOwn, Apart, HasEvents
<1>3. QED
  BY <1>1, <1>2 DEF IsOwn

\* The two passes rename, item by item.
LEMMA PassesRename ==
  ASSUME NEW u
  PROVE  /\ DOMAIN PatternsRenamed(u) = DOMAIN u /\ DOMAIN ShadowsRenamed(u) = DOMAIN u
         /\ \A i \in DOMAIN u : IsRenaming(u[i], PatternsRenamed(u)[i]) /\ IsRenaming(u[i], ShadowsRenamed(u)[i])
<1>1. ASSUME NEW i \in DOMAIN u PROVE IsRenaming(u[i], PatternsRenamed(u)[i])
  <2> DEFINE b == [j \in DOMAIN u[i].body |->
                     WithNames(u[i].body[j], [n \in NamesOf(u[i].body[j]) |-> PatternName(u[i].body, j, n)])]
  <2>1. PatternsRenamed(u)[i] = [u[i] EXCEPT !.body = b]
    BY DEF PatternsRenamed
  <2>2. b = [j \in DOMAIN u[i].body |-> b[j]] /\ \A j \in DOMAIN b : \E new : b[j] = WithNames(u[i].body[j], new)
    OBVIOUS
  <2> HIDE DEF b
  <2>3. QED
    BY <2>1, <2>2 DEF IsRenaming
<1>2. ASSUME NEW i \in DOMAIN u PROVE IsRenaming(u[i], ShadowsRenamed(u)[i])
  <2> DEFINE b == [j \in DOMAIN u[i].body |->
                     WithNames(u[i].body[j], [n \in NamesOf(u[i].body[j]) |->
                       ShadowName(TextAround(u, i), u[i].params, TextBefore(u, i) + j, n)])]
  <2>1. ShadowsRenamed(u)[i] = [u[i] EXCEPT !.body = b]
    BY DEF ShadowsRenamed
  <2>2. b = [j \in DOMAIN u[i].body |-> b[j]] /\ \A j \in DOMAIN b : \E new : b[j] = WithNames(u[i].body[j], new)
    OBVIOUS
  <2> HIDE DEF b
  <2>3. QED
    BY <2>1, <2>2 DEF IsRenaming
<1>3. DOMAIN PatternsRenamed(u) = DOMAIN u /\ DOMAIN ShadowsRenamed(u) = DOMAIN u
  BY DEF PatternsRenamed, ShadowsRenamed
<1>4. QED
  BY <1>1, <1>2, <1>3

\* What the file has when its imports are loaded.
Base(items) == Range(Rewritten(items))

\* The items of the file after all passes.
LEMMA BaseIs ==
  ASSUME NEW w \in Worlds
  PROVE  /\ Rewritten(w.main.items) \in Seq(Base(w.main.items))
         /\ \A it \in Base(w.main.items) : IsOwn(it, Places(w))
<1> DEFINE items == w.main.items
           u     == TestsDesugared(WithAutoImports(items))
           p     == PatternsRenamed(u)
           s     == ShadowsRenamed(p)
<1>1. items \in Seq(Range(items))
  BY WorldsAssumption DEF IsFile
<1>2. u \in Seq(Plain(items))
  BY <1>1, DesugaredIs
<1>3. s = Rewritten(items)
  BY DEF Rewritten
<1> DEFINE n == Len(u)
<1> HIDE DEF u, items
<1>4. n \in Nat /\ DOMAIN u = 1..n /\ \A i \in 1..n : u[i] \in Plain(items)
  BY <1>2
<1>5. \A i \in 1..n : IsOwn(u[i], Places(w))
  BY <1>4, PlainIs DEF items
<1> HIDE DEF p, s, n
<1>6. /\ DOMAIN p = 1..n /\ \A i \in 1..n : IsRenaming(u[i], p[i])
      /\ DOMAIN s = 1..n /\ \A i \in 1..n : IsRenaming(p[i], s[i])
  BY <1>4, PassesRename DEF p, s
<1>7. \A i \in 1..n : IsOwn(s[i], Places(w))
  BY <1>5, <1>6, RenamedIsOwn
<1>8. s \in Seq(Range(s))
  <2>1. s = [i \in 1..n |-> s[i]]
    BY <1>6 DEF s, ShadowsRenamed
  <2>2. QED
    BY <1>4, <1>6, <2>1 DEF Range
<1>9. QED
  BY <1>3, <1>6, <1>7, <1>8 DEF items, Base, Range

\* What files add.
Named(o, local) == [o EXCEPT !.merged = TRUE, !.name = IF o.k = "fn" THEN local \o "__" \o @ ELSE @]
Kept(file) == {it \in Range(file.items) : it.k = "impl" \/ (it.k \in {"fn", "type"} /\ it.export)}
Foreign(w) == {Named(o, imp.name) : o \in UNION {Kept(w.files[f]) : f \in DOMAIN w.files}, imp \in Base(w.main.items)}

\* Merging a file adds what it keeps, under the local name of the import.
LEMMA MergedIs ==
  ASSUME NEW file, IsFile(file), NEW local
  PROVE  /\ Merged(file, local) \in Seq(Range(Merged(file, local)))
         /\ Range(Merged(file, local)) = {Named(o, local) : o \in Kept(file)}
<1> DEFINE items == file.items
           kept == Picked(items, Kept(file))
<1>1. kept \in Seq(Range(items) \cap Kept(file)) /\ Range(kept) = Kept(file)
  <2>1. items \in Seq(Range(items))
    BY DEF IsFile
  <2>2. kept \in Seq(Range(items) \cap Kept(file)) /\ Range(kept) = Range(items) \cap Kept(file)
    BY <2>1, PickedIs
  <2>3. QED
    BY <2>2 DEF Kept
<1>2. Merged(file, local) = [i \in DOMAIN kept |-> Named(kept[i], local)]
  BY DEF Merged, Kept, Named
<1> HIDE DEF kept
<1>3. DOMAIN kept = 1..Len(kept) /\ Len(kept) \in Nat
  BY <1>1
<1>4. Range(Merged(file, local)) = {Named(kept[i], local) : i \in DOMAIN kept}
  BY <1>2 DEF Range
<1>5. {Named(kept[i], local) : i \in DOMAIN kept} = {Named(o, local) : o \in Kept(file)}
  BY <1>1 DEF Range
<1>6. Merged(file, local) \in Seq(Range(Merged(file, local)))
  BY <1>2, <1>3 DEF Range
<1>7. QED
  BY <1>4, <1>5, <1>6

\* What is merged is no import, and stands where no import does.
LEMMA ForeignIs ==
  ASSUME NEW w \in Worlds, NEW it \in Foreign(w)
  PROVE  HasFields(it) /\ it.merged = TRUE /\ it.k # "import" /\ Apart(it, Places(w))
<1> USE DEF ItemFields
<1>1. PICK o \in UNION {Kept(w.files[f]) : f \in DOMAIN w.files}, imp \in Base(w.main.items) : it = Named(o, imp.name)
  BY DEF Foreign
<1>2. IsItem(o) /\ o \in Written(w) /\ o.k \in {"impl", "fn", "type"}
  BY WorldsAssumption DEF IsFile, Written, Kept
<1>3. HasFields(o) /\ DOMAIN o = ItemFields
  BY <1>2 DEF IsItem, HasFields
<1>4. HasFields(it) /\ it.merged = TRUE /\ it.k = o.k /\ it.at = o.at /\ it.body = o.body
  BY <1>1, <1>3 DEF Named, HasFields
<1>5. o.at \in Nat \ {0} /\ o.body \in Seq(Range(o.body)) /\ \A ev \in Range(o.body) : ev.at \in Nat \ {0}
  BY <1>2 DEF IsItem
<1>6. \A own \in Range(w.main.items) : own.k = "import" =>
          o.at # own.at /\ \A ev \in Range(o.body) : ev.at # own.at
  BY <1>2, WorldsAssumption
<1>7. o.at \notin Places(w) /\ \A ev \in Range(o.body) : ev.at \notin Places(w)
  BY <1>5, <1>6 DEF Places
<1>8. QED
  BY <1>2, <1>4, <1>5, <1>7 DEF Apart

-----------------------------------------------------------------------------
(* Where an import finds its file.                                         *)

\* A finite set as a sequence has as many places as elements.
LEMMA SetToSeqIs ==
  ASSUME NEW S, IsFiniteSet(S)
  PROVE  SetToSeq(S) \in Seq(S) /\ Len(SetToSeq(S)) = Cardinality(S)
<1>1. Cardinality(S) \in Nat /\ ExistsBijection(1..Cardinality(S), S)
  BY FS_CardinalityType
<1>2. \E f \in [1..Cardinality(S) -> S] : IsInjective(f)
  BY <1>1 DEF ExistsBijection, Bijection, Injection
<1>3. SetToSeq(S) \in [1..Cardinality(S) -> S]
  BY <1>2 DEF SetToSeq
<1>4. QED
  BY <1>1, <1>3

IsPath(path) == path \in Seq(Range(path)) /\ path # <<>>

\* An import for which a dependency is refused.
Barred(path) == DepErrors(disk, path) # {}

\* A file is taken for a program because it is one that does not hide it, or
\* because it misleads.
LEMMA TakenForProgram ==
  ASSUME NEW file, IsFile(file)
  PROVE  /\ IsBinSource(file) => IsProgram(file) \/ Misleads(file)
         /\ ~IsBinSource(file) => (IsProgram(file) => Hides(file))
<1>1. \A i \in DOMAIN file.items : file.items[i] \in Range(file.items) /\ IsItem(file.items[i])
  BY DEF IsFile, Range
<1>2. ASSUME IsBinSource(file) PROVE IsProgram(file) \/ Misleads(file)
  <2>1. PICK it \in Range(file.items) : StartsProgram(it) /\ it.lines \in {"plain", "indented", "misleading"}
    BY <1>1, <1>2 DEF IsBinSource, IsItem
  <2>2. Executes(it) \/ (it.k # "stmt" /\ it.lines # "indented" /\ (it.k = "test" \/ it.lines = "misleading"))
    BY <2>1 DEF StartsProgram, Executes
  <2>3. QED
    BY <2>2 DEF IsProgram, Misleads
<1>3. ASSUME ~IsBinSource(file) PROVE Hides(file)
  <2>1. ASSUME NEW it \in Range(file.items), Executes(it)
        PROVE  it.lines = "indented" \/ (it.k = "stmt" /\ it.lines = "misleading")
    <3>1. ~StartsProgram(it) /\ it.lines \in {"plain", "indented", "misleading"}
      BY <1>1, <1>3 DEF IsBinSource, Range, IsItem
    <3>2. QED
      BY <2>1, <3>1 DEF StartsProgram, Executes
  <2>2. QED
    BY <2>1 DEF Hides
<1>4. QED
  BY <1>2, <1>3

\* The packages an import asks for, and the file of each that is looked at.
LEMMA PackagesAsked ==
  ASSUME NEW path, IsPath(path)
  PROVE  Packages(path) = {d \in Asked(disk, path) : d.root \in DOMAIN disk.packages}
<1>1. Head(path) = path[1]
  BY DEF IsPath
<1>2. QED
  BY <1>1 DEF Packages, Asked

\* A dependency is refused for its name or for the file that is looked at, and
\* one that is not has the right name and does not show that it is a program.
LEMMA RefusedHasReason ==
  ASSUME disk \in Worlds, NEW path, IsPath(path)
  PROVE  /\ Barred(path) => Misnamed(path) \/ \E file \in Judged(path) : IsProgram(file) \/ Misleads(file)
         /\ ~Barred(path) => ~Misnamed(path) /\ \A file \in Judged(path) : IsProgram(file) => Hides(file)
<1> DEFINE F(d) == <<Sources(d.root), <<disk.packages[d.root]>>>>
           M(d) == d.from = "git" /\ disk.packages[d.root] # d.name
<1>1. \A d : IsBinDep(disk, d.root) <=> /\ d.root \in DOMAIN disk.packages /\ F(d) \in DOMAIN disk.files
                                       /\ IsBinSource(disk.files[F(d)])
  BY DEF IsBinDep, Exists
<1>2. \A d : DepFault(disk, d) # "" <=> /\ d.root \in DOMAIN disk.packages
                                       /\ \/ M(d)
                                          \/ (F(d) \in DOMAIN disk.files /\ IsBinSource(disk.files[F(d)]))
  BY <1>1 DEF DepFault
<1>3. Judged(path) = {disk.files[f] : f \in {g \in DOMAIN disk.files : \E d \in Packages(path) : g = F(d)}}
  BY DEF Judged
<1>4. \A file \in Judged(path) : IsFile(file)
  BY <1>3, WorldsAssumption
<1>5. Misnamed(path) <=> \E d \in Packages(path) : M(d)
  BY DEF Misnamed
<1> HIDE DEF F, M
<1>6. Packages(path) = {d \in Asked(disk, path) : d.root \in DOMAIN disk.packages}
  BY PackagesAsked
<1>7. ASSUME Barred(path)
      PROVE  Misnamed(path) \/ \E file \in Judged(path) : IsProgram(file) \/ Misleads(file)
  <2>1. PICK d \in Asked(disk, path) : DepFault(disk, d) # ""
    BY <1>7 DEF Barred, DepErrors
  <2>2. d \in Packages(path) /\ (M(d) \/ (F(d) \in DOMAIN disk.files /\ IsBinSource(disk.files[F(d)])))
    BY <1>2, <1>6, <2>1
  <2>3. CASE M(d)
    BY <1>5, <2>2, <2>3
  <2>4. CASE F(d) \in DOMAIN disk.files /\ IsBinSource(disk.files[F(d)])
    <3>1. disk.files[F(d)] \in Judged(path)
      BY <1>3, <2>2, <2>4
    <3>2. QED
      BY <1>4, <2>4, <3>1, TakenForProgram
  <2>5. QED
    BY <2>2, <2>3, <2>4
<1>8. ASSUME ~Barred(path)
      PROVE  ~Misnamed(path) /\ \A file \in Judged(path) : IsProgram(file) => Hides(file)
  <2>1. ASSUME NEW d \in Packages(path)
        PROVE  ~M(d) /\ (F(d) \in DOMAIN disk.files => ~IsBinSource(disk.files[F(d)]))
    <3>1. d \in Asked(disk, path) /\ d.root \in DOMAIN disk.packages
      BY <1>6
    <3>2. DepFault(disk, d) = ""
      BY <1>8, <3>1 DEF Barred, DepErrors
    <3>3. QED
      BY <1>2, <3>1, <3>2
  <2>2. \A file \in Judged(path) : ~IsBinSource(file)
    BY <1>3, <2>1
  <2>3. QED
    BY <1>4, <1>5, <2>1, <2>2, TakenForProgram
<1>9. QED
  BY <1>7, <1>8

\* The three layers, and what is within reach.
LEMMA LayersAreFinite ==
  ASSUME disk \in Worlds, NEW path
  PROVE  /\ IsFiniteSet(Layer(disk, {LocalBase(disk)}, path))
         /\ IsFiniteSet(Layer(disk, DepDirs(disk, path), path))
         /\ IsFiniteSet(Layer(disk, StdlibDirs(disk), path))
<1>1. \A d : IsFiniteSet(Layer(disk, {d}, path))
  <2>1. ASSUME NEW d PROVE IsFiniteSet(Layer(disk, {d}, path))
    <3>1. Layer(disk, {d}, path) \in SUBSET {<<d, path>>}
      BY DEF Layer
    <3>2. IsFiniteSet({<<d, path>>})
      BY FS_Singleton
    <3>3. QED
      BY <3>1, <3>2, FS_Subset
  <2>2. QED
    BY <2>1
<1>2. IsFiniteSet(Layer(disk, StdlibDirs(disk), path))
  <2>1. StdlibDirs(disk) = {} \/ \E d : StdlibDirs(disk) = {d}
    BY DEF StdlibDirs
  <2>2. CASE StdlibDirs(disk) = {}
    BY <2>2, FS_EmptySet DEF Layer
  <2>3. CASE \E d : StdlibDirs(disk) = {d}
    BY <1>1, <2>3
  <2>4. QED
    BY <2>1, <2>2, <2>3
<1>3. IsFiniteSet(Layer(disk, DepDirs(disk, path), path))
  <2> DEFINE L == Layer(disk, DepDirs(disk, path), path)
             S == {d \in Asked(disk, path) : DepFault(disk, d) = "" /\ Exists(disk, Sources(d.root), path)}
             f == [d \in S |-> <<Sources(d.root), path>>]
  <2>1. L = {<<Sources(d.root), path>> : d \in S}
    BY DEF Layer, DepDirs
  <2>2. IsFiniteSet(S)
    <3>1. IsFiniteSet(disk.deps)
      BY WorldsAssumption
    <3>2. S \in SUBSET disk.deps
      BY DEF Asked
    <3>3. QED
      BY <3>1, <3>2, FS_Subset
  <2>3. f \in Surjection(S, L)
    <3> HIDE DEF S, L
    <3>1. QED
      BY <2>1 DEF Surjection
  <2> HIDE DEF f, S, L
  <2>4. IsFiniteSet(L)
    BY <2>2, <2>3, FS_Surjection
  <2>5. QED
    BY <2>4 DEF L
<1>4. QED
  BY <1>1, <1>2, <1>3

\* The three layers are the files within reach.
LEMMA LayersAreVisible ==
  ASSUME disk \in Worlds, NEW path, IsPath(path), ~Barred(path)
  PROVE  Visible(path) = Layer(disk, {LocalBase(disk)}, path) \cup Layer(disk, DepDirs(disk, path), path)
                           \cup Layer(disk, StdlibDirs(disk), path)
<1>1. Head(path) = path[1]
  BY DEF IsPath
<1>2. \A d \in Asked(disk, path) : DepFault(disk, d) = ""
  BY DEF Barred, DepErrors
<1>3. DepDirs(disk, path) = {Sources(d.root) : d \in Asked(disk, path)}
  BY <1>2 DEF DepDirs
<1>4. Reach(path) = {LocalBase(disk)} \cup StdlibDirs(disk) \cup DepDirs(disk, path)
  BY <1>1, <1>3 DEF Reach, Asked
<1>5. \A f \in DOMAIN disk.files : f = <<f[1], f[2]>>
  BY WorldsAssumption
<1> DEFINE own == {LocalBase(disk)}
           dep == DepDirs(disk, path)
           std == StdlibDirs(disk)
           In(dirs) == {f \in DOMAIN disk.files : f[2] = path /\ f[1] \in dirs}
<1>6. ASSUME NEW dirs PROVE Layer(disk, dirs, path) = In(dirs)
  <2>1. Layer(disk, dirs, path) = {<<d, path>> : d \in {d \in dirs : <<d, path>> \in DOMAIN disk.files}}
    BY DEF Layer, Exists
  <2>2. ASSUME NEW f \in Layer(disk, dirs, path) PROVE f \in In(dirs)
    <3>1. PICK d \in dirs : f = <<d, path>> /\ <<d, path>> \in DOMAIN disk.files
      BY <2>1
    <3>2. f[1] = d /\ f[2] = path
      BY <3>1
    <3>3. QED
      BY <3>1, <3>2
  <2>3. ASSUME NEW f \in In(dirs) PROVE f \in Layer(disk, dirs, path)
    <3>1. f = <<f[1], f[2]>> /\ f[2] = path /\ f[1] \in dirs /\ f \in DOMAIN disk.files
      BY <1>5
    <3>2. QED
      BY <2>1, <3>1
  <2>4. QED
    BY <2>2, <2>3
<1>7. Visible(path) = In(own \cup std \cup dep)
  BY <1>4 DEF Visible
<1> HIDE DEF own, dep, std
<1>8. In(own \cup std \cup dep) = In(own) \cup In(dep) \cup In(std)
  OBVIOUS
<1>9. QED
  BY <1>6, <1>7, <1>8, Zenon DEF own, dep, std

\* Layers with no directory in common have no file in common.
LEMMA LayersAreApart ==
  ASSUME NEW path, ~CountedTwice(path)
  PROVE  /\ Layer(disk, {LocalBase(disk)}, path) \cap Layer(disk, DepDirs(disk, path), path) = {}
         /\ (Layer(disk, {LocalBase(disk)}, path) \cup Layer(disk, DepDirs(disk, path), path))
              \cap Layer(disk, StdlibDirs(disk), path) = {}
<1>1. \A A, B : A \cap B = {} => Layer(disk, A, path) \cap Layer(disk, B, path) = {}
  <2>1. ASSUME NEW A, NEW B, A \cap B = {}, NEW x \in Layer(disk, A, path), x \in Layer(disk, B, path) PROVE FALSE
    <3>1. x[1] \in A /\ x[1] \in B
      BY <2>1 DEF Layer
    <3>2. QED
      BY <2>1, <3>1
  <2>2. QED
    BY <2>1
<1>2. {LocalBase(disk)} \cap DepDirs(disk, path) = {}
  <2>1. LocalBase(disk) \in {<<"beside">>, <<"src">>, <<"root">>}
    BY DEF LocalBase
  <2>2. \A r : Len(Sources(r)) = 2
    BY DEF Sources
  <2>3. Len(LocalBase(disk)) = 1
    BY <2>1
  <2>4. \A r : Sources(r) # LocalBase(disk)
    BY <2>2, <2>3
  <2>5. QED
    BY <2>4 DEF DepDirs
<1>3. {LocalBase(disk)} \cap StdlibDirs(disk) = {} /\ DepDirs(disk, path) \cap StdlibDirs(disk) = {}
  BY DEF CountedTwice
<1>4. QED
  BY <1>1, <1>2, <1>3

\* The candidates of an import that is refused by no dependency.
LEMMA CandidatesAre ==
  ASSUME disk \in Worlds, NEW path, IsPath(path), ~Barred(path)
  PROVE  LET found == Candidates(disk, path)
         IN  /\ found \in Seq(Visible(path)) /\ Len(found) \in Nat
             /\ Len(found) = 0 => Visible(path) = {}
             /\ Len(found) = 1 => Visible(path) = {found[1]}
             /\ Len(found) > 1 => Cardinality(Visible(path)) > 1 \/ CountedTwice(path)
<1> DEFINE A == Layer(disk, {LocalBase(disk)}, path)
           B == Layer(disk, DepDirs(disk, path), path)
           C == Layer(disk, StdlibDirs(disk), path)
           V == Visible(path)
           found == Candidates(disk, path)
           a == Cardinality(A)
           b == Cardinality(B)
           c == Cardinality(C)
<1>1. IsFiniteSet(A) /\ IsFiniteSet(B) /\ IsFiniteSet(C)
  BY LayersAreFinite
<1>2. V = A \cup B \cup C
  BY LayersAreVisible
<1>3. found = SetToSeq(A) \o SetToSeq(B) \o SetToSeq(C)
  BY DEF Candidates
<1>4. ~CountedTwice(path) => A \cap B = {} /\ (A \cup B) \cap C = {}
  BY LayersAreApart
<1> HIDE DEF A, B, C, V, found
<1>5. a \in Nat /\ b \in Nat /\ c \in Nat
  BY <1>1, FS_CardinalityType
<1>6. /\ SetToSeq(A) \in Seq(V) /\ Len(SetToSeq(A)) = a
      /\ SetToSeq(B) \in Seq(V) /\ Len(SetToSeq(B)) = b
      /\ SetToSeq(C) \in Seq(V) /\ Len(SetToSeq(C)) = c
  <2>1. /\ SetToSeq(A) \in Seq(A) /\ Len(SetToSeq(A)) = a
        /\ SetToSeq(B) \in Seq(B) /\ Len(SetToSeq(B)) = b
        /\ SetToSeq(C) \in Seq(C) /\ Len(SetToSeq(C)) = c
    BY <1>1, SetToSeqIs
  <2>2. A \subseteq V /\ B \subseteq V /\ C \subseteq V
    BY <1>2
  <2>3. QED
    BY <2>1, <2>2
<1> HIDE DEF a, b, c
<1>7. (found \in Seq(V)) /\ Len(found) = a + b + c
  <2> DEFINE x == SetToSeq(A)
             y == SetToSeq(B)
             z == SetToSeq(C)
  <2> HIDE DEF x, y, z
  <2>1. x \in Seq(V) /\ y \in Seq(V) /\ z \in Seq(V) /\ Len(x) = a /\ Len(y) = b /\ Len(z) = c
    BY <1>6 DEF x, y, z
  <2>2. x \o y \in Seq(V) /\ Len(x \o y) = a + b
    BY <2>1, ConcatIs
  <2> DEFINE xy == x \o y
  <2> HIDE DEF xy
  <2>3. xy \o z \in Seq(V) /\ Len(xy \o z) = (a + b) + c
    <3>1. xy \in Seq(V) /\ Len(xy) = a + b
      BY <2>2 DEF xy
    <3>2. xy \o z \in Seq(V) /\ Len(xy \o z) = Len(xy) + Len(z)
      BY <2>1, <3>1, ConcatIs
    <3>3. QED
      BY <2>1, <3>1, <3>2
  <2>4. QED
    BY <1>3, <1>5, <2>3 DEF x, y, z, xy
<1>8. (a = 0 <=> A = {}) /\ (b = 0 <=> B = {}) /\ (c = 0 <=> C = {})
  BY <1>1, FS_EmptySet DEF a, b, c
<1>9. Len(found) = 0 => V = {}
  BY <1>2, <1>5, <1>7, <1>8
<1>10. ASSUME Len(found) = 1 PROVE V = {found[1]}
  <2>1. (a = 1 /\ b = 0 /\ c = 0) \/ (a = 0 /\ b = 1 /\ c = 0) \/ (a = 0 /\ b = 0 /\ c = 1)
    <3>1. a + b + c = 1
      BY <1>7, <1>10, Zenon
    <3>2. QED
      BY <1>5, <3>1
  <2>2. \E x : V = {x}
    <3>1. /\ a = 1 => \E x : A = {x}
          /\ b = 1 => \E x : B = {x}
          /\ c = 1 => \E x : C = {x}
      BY <1>1, FS_Singleton DEF a, b, c
    <3>2. QED
      BY <1>2, <1>8, <2>1, <3>1
  <2>3. found[1] \in V
    <3>1. found \in Seq(V)
      BY <1>7
    <3>2. QED
      BY <1>10, <3>1
  <2>4. QED
    BY <2>2, <2>3
<1>11. ASSUME Len(found) > 1, ~CountedTwice(path) PROVE Cardinality(V) > 1
  <2>1. IsFiniteSet(A \cup B) /\ Cardinality(A \cup B) = a + b
    <3>1. Cardinality(A \cup B) = a + b - Cardinality(A \cap B) /\ IsFiniteSet(A \cup B)
      BY <1>1, FS_Union DEF a, b
    <3>2. Cardinality(A \cap B) = 0
      BY <1>4, <1>11, FS_EmptySet
    <3>3. QED
      BY <1>5, <3>1, <3>2
  <2>2. Cardinality(V) = a + b + c
    <3>1. Cardinality((A \cup B) \cup C) = a + b + c - Cardinality((A \cup B) \cap C)
      BY <1>1, <2>1, FS_Union DEF c
    <3>2. Cardinality((A \cup B) \cap C) = 0
      BY <1>4, <1>11, FS_EmptySet
    <3>3. QED
      BY <1>2, <1>5, <3>1, <3>2
  <2>3. QED
    BY <1>7, <1>11, <2>2
<1>12. QED
  BY <1>5, <1>7, <1>9, <1>10, <1>11 DEF V, found

\* An answer has the fields it was given.
LEMMA AnswerHas ==
  ASSUME NEW kind, NEW why, NEW file
  PROVE  Answer(kind, why, file).kind = kind /\ Answer(kind, why, file).file = file
BY DEF Answer

\* What the answer to an import says of it.
LEMMA AnswersAreRight ==
  ASSUME disk \in Worlds, NEW path, IsPath(path)
  PROVE  LET answer == Resolution(disk, path)
         IN  /\ answer.kind = "DepError" => Barred(path)
             /\ answer.kind = "Ambiguous" => Cardinality(Visible(path)) > 1 \/ CountedTwice(path)
             /\ answer.kind = "NotFound" => Visible(path) = {}
             /\ answer.kind = "Found" => ~Barred(path) /\ Visible(path) = {answer.file}
             /\ answer.kind \in {"DepError", "Ambiguous", "NotFound", "Found"}
<1> DEFINE found  == Candidates(disk, path)
           errs   == DepErrors(disk, path)
           answer == Resolution(disk, path)
<1>1. errs # {} <=> Barred(path)
  BY DEF Barred
<1>2. ASSUME errs # {} PROVE answer.kind = "DepError"
  BY <1>2 DEF Resolution, Answer
<1>3. ASSUME errs = {}
      PROVE  /\ Len(found) = 0 => answer.kind = "NotFound"
             /\ Len(found) = 1 => answer.kind = "Found" /\ answer.file = found[1]
             /\ (Len(found) # 0 /\ Len(found) # 1) => answer.kind = "Ambiguous"
  <2> DEFINE none == ""
  <2>1. answer = IF Len(found) = 0 THEN Answer("NotFound", none, <<>>)
                 ELSE IF Len(found) = 1 THEN Answer("Found", none, found[1]) ELSE Answer("Ambiguous", none, <<>>)
    BY <1>3 DEF Resolution
  <2> HIDE DEF none, found, answer
  <2>2. QED
    BY <2>1, AnswerHas
<1>4. ~Barred(path) => /\ Len(found) \in Nat
                       /\ Len(found) = 0 => Visible(path) = {}
                       /\ Len(found) = 1 => Visible(path) = {found[1]}
                       /\ Len(found) > 1 => Cardinality(Visible(path)) > 1 \/ CountedTwice(path)
  BY CandidatesAre
<1> HIDE DEF found, errs, answer
<1> DEFINE Right == /\ answer.kind = "DepError" => Barred(path)
                    /\ answer.kind = "Ambiguous" => Cardinality(Visible(path)) > 1 \/ CountedTwice(path)
                    /\ answer.kind = "NotFound" => Visible(path) = {}
                    /\ answer.kind = "Found" => ~Barred(path) /\ Visible(path) = {answer.file}
                    /\ answer.kind \in {"DepError", "Ambiguous", "NotFound", "Found"}
<1>5. ASSUME Barred(path) PROVE Right
  BY <1>1, <1>2, <1>5
<1>6. ASSUME ~Barred(path) PROVE Right
  <2>1. errs = {}
    BY <1>1, <1>6
  <2>2. CASE Len(found) = 0
    <3>1. answer.kind = "NotFound"
      BY <1>3, <2>1, <2>2
    <3>2. QED
      BY <1>4, <1>6, <2>2, <3>1
  <2>3. CASE Len(found) = 1
    <3>1. answer.kind = "Found" /\ answer.file = found[1]
      BY <1>3, <2>1, <2>3
    <3>2. QED
      BY <1>4, <1>6, <2>3, <3>1
  <2>4. CASE Len(found) > 1
    <3>1. Len(found) \in Nat
      BY <1>4, <1>6
    <3>2. Len(found) # 0 /\ Len(found) # 1
      BY <2>4, <3>1
    <3>3. answer.kind = "Ambiguous"
      BY <1>3, <2>1, <3>2
    <3>4. QED
      BY <1>4, <1>6, <2>4, <3>3
  <2>5. Len(found) = 0 \/ Len(found) = 1 \/ Len(found) > 1
    <3>1. Len(found) \in Nat
      BY <1>4, <1>6
    <3>2. \A n \in Nat : n = 0 \/ n = 1 \/ n > 1
      OBVIOUS
    <3>3. QED
      BY <3>1, <3>2, Zenon
  <2>6. QED
    BY <2>2, <2>3, <2>4, <2>5
<1>7. Right
  BY <1>5, <1>6
<1>8. QED
  BY <1>7 DEF answer

-----------------------------------------------------------------------------
(* The inductive invariant.  While imports are loaded, each one is still   *)
(* to load, provided by the compiler or answered, or something has been    *)
(* reported; afterwards all are answered, nothing has been reported, and   *)
(* the items are those of the file and those the files added.              *)

Wanted == {it \in Range(Rewritten(Own)) : it.k = "import"}
FromFiles == {imp \in Wanted : ~IsBuiltinModule(imp.path)}
Answered(imp) == Cardinality(Visible(imp.path)) = 1 /\ ~Barred(imp.path)
MergedFns(s) == {<<it.name, it.at>> : it \in {it \in Range(s) : it.k = "fn" /\ it.merged}}

StartInv == phase = "rewrite" => unit = Own /\ queue = <<>> /\ merged = <<>> /\ errors = {}
LoadInv ==
  phase = "imports" =>
    /\ unit = Rewritten(Own) /\ queue \in Seq(Wanted) /\ merged \in Seq(Foreign(disk))
    /\ MergedFns(merged) \subseteq UNION {Exports(imp) : imp \in FromFiles}
    /\ errors = {} => \A imp \in FromFiles :
                         imp \in Range(queue) \/ (Answered(imp) /\ Exports(imp) \subseteq MergedFns(merged))
LaterInv ==
  phase \in {"resolve", "check", "lower"} =>
    /\ unit \in Seq(Base(Own) \cup Foreign(disk)) /\ errors = {}
    /\ {it \in Range(unit) : it.k = "import"} = Wanted
    /\ \A imp \in FromFiles : Answered(imp)
    /\ MergedFns(unit) = UNION {Exports(imp) : imp \in FromFiles}
Reported ==
  \A e \in errors :
    LET here == {imp \in Range(OfKind(unit, {"import"})) : imp.at = e[2]}
    IN  here # {} /\ e[1] # "E0201" => \E imp \in here : ReasonFor(imp, e[1])

IInv ==
  /\ disk \in Worlds /\ phase \in {"rewrite", "imports", "resolve", "check", "lower", "done"}
  /\ StartInv /\ LoadInv /\ LaterInv /\ Reported

\* The imports of the rewritten file are written in it, or automatic.
LEMMA WantedIs ==
  ASSUME disk \in Worlds
  PROVE  /\ Rewritten(Own) \in Seq(Base(Own))
         /\ \A imp \in Wanted : /\ imp \in Base(Own) /\ imp.k = "import" /\ imp.merged = FALSE /\ IsPath(imp.path)
                                /\ imp.at \in Places(disk) /\ imp.at # 0
<1>1. Rewritten(Own) \in Seq(Base(Own)) /\ \A it \in Base(Own) : IsOwn(it, Places(disk))
  BY BaseIs DEF Own
<1>2. \A imp \in Wanted : imp \in Base(Own) /\ imp.k = "import"
  BY DEF Wanted, Base
<1>3. QED
  BY <1>1, <1>2 DEF IsOwn, IsPath

\* The imports of the unit.
LEMMA ImportsOf ==
  ASSUME NEW T, NEW u \in Seq(T)
  PROVE  Range(OfKind(u, {"import"})) = {it \in Range(u) : it.k = "import"}
BY OfKindIs

\* A file adds the functions it exports.
LEMMA FileAdds ==
  ASSUME disk \in Worlds, NEW imp \in Wanted, NEW f \in DOMAIN disk.files, Visible(imp.path) = {f}
  PROVE  /\ Merged(disk.files[f], imp.name) \in Seq(Foreign(disk))
         /\ MergedFns(Merged(disk.files[f], imp.name)) = Exports(imp)
<1> DEFINE file == disk.files[f]
           m    == Merged(file, imp.name)
<1>1. IsFile(file)
  BY WorldsAssumption
<1>2. m \in Seq(Range(m)) /\ Range(m) = {Named(o, imp.name) : o \in Kept(file)}
  BY <1>1, MergedIs
<1>3. imp \in Base(Own)
  BY WantedIs
<1>4. Range(m) \subseteq Foreign(disk)
  <2>1. ASSUME NEW o \in Kept(file) PROVE Named(o, imp.name) \in Foreign(disk)
    BY <1>3 DEF Foreign, Own
  <2>2. QED
    BY <1>2, <2>1
<1>5. m \in Seq(Foreign(disk))
  <2> HIDE DEF m
  <2>1. QED
    BY <1>2, <1>4
<1>6. ASSUME NEW o \in Kept(file)
      PROVE  /\ Named(o, imp.name).k = o.k /\ Named(o, imp.name).at = o.at /\ Named(o, imp.name).merged
             /\ o.k = "fn" => Named(o, imp.name).name = imp.name \o "__" \o o.name
  <2>1. IsItem(o)
    BY <1>1 DEF IsFile, Kept
  <2>2. DOMAIN o = ItemFields
    BY <2>1 DEF IsItem
  <2>3. QED
    BY <2>2 DEF Named, ItemFields
<1>7. MergedFns(m) = {<<imp.name \o "__" \o o.name, o.at>> : o \in {o \in Kept(file) : o.k = "fn"}}
  <2> DEFINE F == {<<imp.name \o "__" \o o.name, o.at>> : o \in {o \in Kept(file) : o.k = "fn"}}
  <2> HIDE DEF m, file
  <2>1. ASSUME NEW x \in MergedFns(m) PROVE x \in F
    <3>1. PICK it \in Range(m) : it.k = "fn" /\ x = <<it.name, it.at>>
      BY DEF MergedFns
    <3>2. PICK o \in Kept(file) : it = Named(o, imp.name)
      BY <1>2
    <3>3. o.k = "fn" /\ x = <<imp.name \o "__" \o o.name, o.at>>
      BY <1>6, <3>1, <3>2
    <3>4. QED
      BY <3>3
  <2>2. ASSUME NEW o \in Kept(file), o.k = "fn"
        PROVE  <<imp.name \o "__" \o o.name, o.at>> \in MergedFns(m)
    <3>1. PICK it \in Range(m) : it = Named(o, imp.name)
      BY <1>2
    <3>2. it.k = "fn" /\ it.merged /\ it.at = o.at /\ it.name = imp.name \o "__" \o o.name
      BY <1>6, <2>2, <3>1
    <3>3. <<it.name, it.at>> \in MergedFns(m)
      BY <3>2 DEF MergedFns
    <3>4. QED
      BY <3>2, <3>3
  <2>3. QED
    BY <2>1, <2>2
<1>8. {o \in Kept(file) : o.k = "fn"} = {o \in Range(file.items) : o.k = "fn" /\ o.export}
  BY DEF Kept
<1>9. Exports(imp) = {<<imp.name \o "__" \o o.name, o.at>> : o \in {o \in Range(file.items) : o.k = "fn" /\ o.export}}
  BY DEF Exports
<1>10. QED
  BY <1>5, <1>7, <1>8, <1>9

\* A queue has the elements of its tail and its first.
LEMMA RangeOfTail ==
  ASSUME NEW T, NEW s \in Seq(T), s # <<>>
  PROVE  Tail(s) \in Seq(T) /\ Head(s) \in T /\ Range(s) = {Head(s)} \cup Range(Tail(s))
<1>1. Tail(s) \in Seq(T) /\ DOMAIN Tail(s) = 1..(Len(s) - 1) /\ DOMAIN s = 1..Len(s) /\ Len(s) >= 1
  OBVIOUS
<1>2. Head(s) = s[1] /\ Head(s) \in T
  OBVIOUS
<1>3. \A i \in 1..(Len(s) - 1) : Tail(s)[i] = s[i + 1] /\ i + 1 \in 1..Len(s)
  OBVIOUS
<1>4. Range(Tail(s)) \subseteq Range(s) /\ Head(s) \in Range(s)
  BY <1>1, <1>2, <1>3 DEF Range
<1>5. ASSUME NEW i \in 1..Len(s) PROVE s[i] \in {Head(s)} \cup Range(Tail(s))
  <2>1. CASE i = 1
    BY <1>2, <2>1
  <2>2. CASE i # 1
    <3>1. i - 1 \in 1..(Len(s) - 1) /\ (i - 1) + 1 = i
      BY <2>2
    <3>2. Tail(s)[i - 1] = s[i]
      BY <1>3, <3>1
    <3>3. QED
      BY <1>1, <3>1, <3>2 DEF Range
  <2>3. QED
    BY <2>1, <2>2
<1>6. QED
  BY <1>1, <1>2, <1>4, <1>5 DEF Range

-----------------------------------------------------------------------------
(* The steps.                                                              *)

\* A compilation begins in the invariant.
THEOREM InitEstablishes == Init => IInv
<1> SUFFICES ASSUME Init PROVE IInv
  OBVIOUS
<1>1. disk \in Worlds /\ phase = "rewrite" /\ unit = Own /\ queue = <<>> /\ merged = <<>> /\ errors = {}
  BY DEF Init, Own
<1>2. QED
  BY <1>1 DEF IInv, StartInv, LoadInv, LaterInv, Reported

\* What a step that keeps the disk leaves as it is.
LEMMA SameDisk ==
  ASSUME disk' = disk
  PROVE  /\ Own' = Own /\ Wanted' = Wanted /\ FromFiles' = FromFiles
         /\ \A imp : Answered(imp)' = Answered(imp) /\ Exports(imp)' = Exports(imp)
         /\ \A imp, code : ReasonFor(imp, code)' = ReasonFor(imp, code)
  BY DEF Own, Wanted, FromFiles, Answered, Exports, ReasonFor, Visible, Reach, Barred, Misnamed, Judged, Packages,
         CountedTwice

\* What is reported stays true, and what is added with a reason is too.
LEMMA ReportedStays ==
  ASSUME Reported, disk' = disk, unit' = unit,
         \A e \in errors' : e \in errors \/ \E imp \in Range(OfKind(unit, {"import"})) :
                                              imp.at = e[2] /\ ReasonFor(imp, e[1])
  PROVE  Reported'
<1>1. \A imp, code : ReasonFor(imp, code)' = ReasonFor(imp, code)
  BY SameDisk
<1> DEFINE imports == Range(OfKind(unit, {"import"}))
<1>2. ASSUME NEW e \in errors', \E imp \in imports : imp.at = e[2], e[1] # "E0201"
      PROVE  \E imp \in imports : imp.at = e[2] /\ ReasonFor(imp, e[1])
  <2>1. CASE e \in errors
    BY <1>2, <2>1 DEF Reported
  <2>2. CASE e \notin errors
    BY <1>2, <2>2
  <2>3. QED
    BY <2>1, <2>2
<1>3. imports' = imports
  OBVIOUS
<1> HIDE DEF imports
<1>4. QED
  BY <1>1, <1>2, <1>3 DEF Reported, imports

\* What is reported elsewhere is reported of no import.
LEMMA ReportedElsewhere ==
  ASSUME \A e \in errors' : e[1] # "E0201" => \A imp \in Range(OfKind(unit', {"import"})) : imp.at # e[2]
  PROVE  Reported'
BY DEF Reported

\* Rewriting queues the imports of the unit.
LEMMA RewriteKeeps == ASSUME IInv, Rewrite PROVE IInv'
<1>1. /\ unit' = Rewritten(Own) /\ queue' = OfKind(unit', {"import"}) /\ phase' = "imports"
      /\ disk' = disk /\ merged' = <<>> /\ errors' = {}
  BY DEF Rewrite, IInv, StartInv
<1>2. disk' \in Worlds /\ phase' \in {"rewrite", "imports", "resolve", "check", "lower", "done"} /\ StartInv'
  BY <1>1 DEF IInv, StartInv
<1>3. queue' \in Seq(Wanted) /\ Range(queue') = Wanted
  <2>1. Rewritten(Own) \in Seq(Base(Own))
    BY WantedIs DEF IInv
  <2>2. queue' \in Seq(Base(Own)) /\ Range(queue') = Wanted
    BY <1>1, <2>1, OfKindIs DEF Wanted
  <2>3. QED
    BY <2>2 DEF Range
<1>4. MergedFns(<<>>) = {} /\ <<>> \in Seq(Foreign(disk))
  BY DEF MergedFns, Range
<1>5. FromFiles \subseteq Wanted
  BY DEF FromFiles
<1>6. LoadInv'
  BY <1>1, <1>3, <1>4, <1>5, SameDisk DEF LoadInv
<1>7. LaterInv' /\ Reported'
  BY <1>1 DEF LaterInv, Reported
<1>8. QED
  BY <1>2, <1>6, <1>7 DEF IInv

\* A file that does not parse ends the compilation.
LEMMA RefuseMainKeeps == ASSUME IInv, RefuseMain PROVE IInv'
<1>1. unit' = Own /\ disk' = disk /\ errors' = {<<"parse", 0>>} /\ phase' = "done"
  BY DEF RefuseMain, IInv, StartInv
<1>2. disk' \in Worlds /\ StartInv' /\ LoadInv' /\ LaterInv'
  BY <1>1 DEF IInv, StartInv, LoadInv, LaterInv
<1>3. \A imp \in Range(OfKind(unit', {"import"})) : imp.at # 0
  <2>1. IsFile(disk.main)
    BY WorldsAssumption DEF IInv
  <2>2. Own \in Seq(Range(Own)) /\ \A it \in Range(Own) : it.at # 0
    BY <2>1 DEF IsFile, IsItem, Own
  <2>3. Range(OfKind(Own, {"import"})) \subseteq Range(Own)
    BY <2>2, OfKindIs
  <2>4. QED
    BY <1>1, <2>2, <2>3
<1>4. Reported'
  BY <1>1, <1>3, ReportedElsewhere
<1>5. QED
  BY <1>1, <1>2, <1>4 DEF IInv

\* The import that is first in the queue.
LEMMA FirstInQueue ==
  ASSUME IInv, phase = "imports", queue # <<>>
  PROVE  /\ Head(queue) \in Wanted /\ Tail(queue) \in Seq(Wanted)
         /\ Range(queue) = {Head(queue)} \cup Range(Tail(queue))
         /\ Range(OfKind(unit, {"import"})) = Wanted
<1>1. queue \in Seq(Wanted) /\ unit = Rewritten(Own)
  BY DEF IInv, LoadInv
<1>2. Rewritten(Own) \in Seq(Base(Own))
  BY WantedIs DEF IInv
<1>3. Range(OfKind(unit, {"import"})) = Wanted
  BY <1>1, <1>2, ImportsOf DEF Wanted
<1>4. QED
  BY <1>1, <1>3, RangeOfTail

\* A module the compiler provides needs no file.
LEMMA SkipBuiltinKeeps == ASSUME IInv, SkipBuiltin PROVE IInv'
<1>1. /\ phase = "imports" /\ queue # <<>> /\ IsBuiltinModule(Head(queue).path) /\ queue' = Tail(queue)
      /\ disk' = disk /\ phase' = phase /\ unit' = unit /\ merged' = merged /\ errors' = errors
  BY DEF SkipBuiltin
<1>2. disk' \in Worlds /\ phase' = "imports" /\ StartInv' /\ LaterInv'
  BY <1>1 DEF IInv, StartInv, LaterInv
<1> SUFFICES LoadInv' /\ Reported'
  BY <1>2 DEF IInv
<1>3. LoadInv /\ Reported
  BY DEF IInv
<1>4. Reported'
  BY <1>1, <1>3, ReportedStays
<1>5. /\ Tail(queue) \in Seq(Wanted) /\ Range(queue) = {Head(queue)} \cup Range(Tail(queue))
  BY <1>1, FirstInQueue
<1>6. \A imp \in FromFiles : imp \in Range(queue) => imp \in Range(queue')
  BY <1>1, <1>5 DEF FromFiles
<1>7. LoadInv'
  BY <1>1, <1>3, <1>5, <1>6, SameDisk DEF LoadInv
<1>8. QED
  BY <1>4, <1>7

\* An import without an answer is reported with its reason.
LEMMA MissImportKeeps == ASSUME IInv, MissImport PROVE IInv'
<1> DEFINE imp    == Head(queue)
           answer == Resolution(disk, imp.path)
           code   == IF answer.kind = "Found" THEN "unread" ELSE CodeOf(answer)
<1>1. /\ phase = "imports" /\ queue # <<>> /\ ~IsBuiltinModule(imp.path) /\ queue' = Tail(queue)
      /\ errors' = errors \cup {<<code, imp.at>>}
      /\ disk' = disk /\ phase' = phase /\ unit' = unit /\ merged' = merged
  BY DEF MissImport, ToLoad
<1>2. disk' \in Worlds /\ phase' = "imports" /\ StartInv' /\ LaterInv'
  BY <1>1 DEF IInv, StartInv, LaterInv
<1> SUFFICES LoadInv' /\ Reported'
  BY <1>2 DEF IInv
<1>3. LoadInv /\ Reported
  BY DEF IInv
<1>4. imp \in Wanted /\ Tail(queue) \in Seq(Wanted) /\ Range(OfKind(unit, {"import"})) = Wanted
  BY <1>1, FirstInQueue
<1>5. ReasonFor(imp, code)
  <2>1. /\ answer.kind = "DepError" =>
             Misnamed(imp.path) \/ \E f \in Judged(imp.path) : IsProgram(f) \/ Misleads(f)
        /\ answer.kind = "Ambiguous" => Cardinality(Visible(imp.path)) > 1 \/ CountedTwice(imp.path)
        /\ answer.kind = "NotFound" => Visible(imp.path) = {}
        /\ answer.kind = "Found" => Visible(imp.path) # {}
        /\ answer.kind \in {"DepError", "Ambiguous", "NotFound", "Found"}
    <3>1. IsPath(imp.path)
      BY <1>4, WantedIs DEF IInv
    <3>2. QED
      BY <3>1, AnswersAreRight, RefusedHasReason DEF IInv
  <2> HIDE DEF imp, answer
  <2>2. QED
    BY <2>1 DEF ReasonFor, CodeOf
<1>6. Reported'
  <2>1. \A e \in errors' : e \in errors \/ (e[1] = code /\ e[2] = imp.at)
    BY <1>1
  <2>2. \A e \in errors' : e \in errors \/ \E i \in Range(OfKind(unit, {"import"})) :
                                             i.at = e[2] /\ ReasonFor(i, e[1])
    <3> HIDE DEF imp, code
    <3>1. QED
      BY <1>4, <1>5, <2>1
  <2>3. QED
    BY <1>1, <1>3, <2>2, ReportedStays
<1>7. LoadInv'
  BY <1>1, <1>3, <1>4, SameDisk DEF LoadInv
<1>8. QED
  BY <1>6, <1>7

\* The functions merged by two sequences are those of both.
LEMMA MergedFnsOfConcat ==
  ASSUME NEW T, NEW s \in Seq(T), NEW t \in Seq(T)
  PROVE  MergedFns(s \o t) = MergedFns(s) \cup MergedFns(t)
<1>1. Range(s \o t) = Range(s) \cup Range(t)
  BY RangeOfConcat
<1>2. QED
  BY <1>1 DEF MergedFns

\* An import with an answer adds the functions its file exports.
LEMMA LoadImportKeeps == ASSUME IInv, LoadImport PROVE IInv'
<1> DEFINE imp    == Head(queue)
           answer == Resolution(disk, imp.path)
           file   == disk.files[answer.file]
           added  == Merged(file, imp.name)
<1>1. /\ phase = "imports" /\ queue # <<>> /\ ~IsBuiltinModule(imp.path) /\ answer.kind = "Found"
      /\ errors' = errors \cup (IF file.parses THEN {} ELSE {<<"parse", imp.at>>})
      /\ IF errors' # {} THEN phase' = "done" ELSE queue' = Tail(queue) /\ merged' = merged \o added /\ phase' = phase
      /\ disk' = disk /\ unit' = unit
  BY DEF LoadImport, ToLoad
<1>2. disk' \in Worlds /\ phase' \in {"imports", "done"} /\ StartInv' /\ LaterInv'
  <2>1. disk' \in Worlds /\ phase' \in {"imports", "done"}
    BY <1>1 DEF IInv
  <2>2. QED
    BY <2>1 DEF StartInv, LaterInv
<1> SUFFICES LoadInv' /\ Reported'
  BY <1>2 DEF IInv
<1>3. LoadInv /\ Reported /\ disk \in Worlds
  BY DEF IInv
<1>4. /\ imp \in Wanted /\ Tail(queue) \in Seq(Wanted) /\ Range(OfKind(unit, {"import"})) = Wanted
      /\ Range(queue) = {imp} \cup Range(Tail(queue))
  BY <1>1, FirstInQueue
<1>5. ~Barred(imp.path) /\ Visible(imp.path) = {answer.file}
  <2>1. IsPath(imp.path)
    BY <1>3, <1>4, WantedIs
  <2>2. QED
    BY <1>1, <1>3, <2>1, AnswersAreRight
<1>6. answer.file \in DOMAIN disk.files
  BY <1>5 DEF Visible
<1>7. added \in Seq(Foreign(disk)) /\ MergedFns(added) = Exports(imp)
  BY <1>3, <1>4, <1>5, <1>6, FileAdds
<1>8. Answered(imp)
  BY <1>5, FS_Singleton DEF Answered
<1>9. Reported'
  <2>1. ~file.parses => ReasonFor(imp, "parse")
    <3>1. answer.file \in Visible(imp.path)
      BY <1>5
    <3> HIDE DEF answer, imp
    <3>2. QED
      BY <3>1 DEF ReasonFor
  <2>2. \A e \in errors' : e \in errors \/ (~file.parses /\ e[1] = "parse" /\ e[2] = imp.at)
    <3> HIDE DEF file, answer, imp
    <3>1. QED
      BY <1>1
  <2>3. \A e \in errors' : e \in errors \/ \E i \in Range(OfKind(unit, {"import"})) :
                                             i.at = e[2] /\ ReasonFor(i, e[1])
    <3> HIDE DEF imp, file
    <3>1. QED
      BY <1>4, <2>1, <2>2
  <2>4. QED
    BY <1>1, <1>3, <2>3, ReportedStays
<1>10. LoadInv'
  <2>1. CASE errors' # {}
    BY <1>1, <2>1 DEF LoadInv
  <2>2. CASE errors' = {}
    <3>1. /\ errors = {} /\ queue' = Tail(queue) /\ merged' = merged \o added /\ merged \in Seq(Foreign(disk))
          /\ MergedFns(merged) \subseteq UNION {Exports(i) : i \in FromFiles}
      BY <1>1, <1>3, <2>2 DEF LoadInv
    <3>2. merged' \in Seq(Foreign(disk)) /\ MergedFns(merged') = MergedFns(merged) \cup Exports(imp)
      <4> HIDE DEF added, imp
      <4>1. merged \o added \in Seq(Foreign(disk))
        BY <1>7, <3>1, RangeOfConcat
      <4>2. MergedFns(merged \o added) = MergedFns(merged) \cup MergedFns(added)
        BY <1>7, <3>1, MergedFnsOfConcat
      <4>3. QED
        BY <1>7, <3>1, <4>1, <4>2
    <3>3. imp \in FromFiles
      BY <1>1, <1>4 DEF FromFiles
    <3>4. MergedFns(merged') \subseteq UNION {Exports(i) : i \in FromFiles}
      BY <3>1, <3>2, <3>3
    <3>5. \A i \in FromFiles :
            i \in Range(queue') \/ (Answered(i) /\ Exports(i) \subseteq MergedFns(merged'))
      <4>1. \A i \in FromFiles :
              i \in Range(queue) \/ (Answered(i) /\ Exports(i) \subseteq MergedFns(merged))
        BY <1>1, <1>3, <3>1 DEF LoadInv
      <4>2. \A i \in Range(queue) : i = imp \/ i \in Range(queue')
        BY <1>4, <3>1
      <4> HIDE DEF imp
      <4>3. QED
        BY <1>8, <3>2, <4>1, <4>2
    <3>6. unit' = Rewritten(Own) /\ queue' \in Seq(Wanted)
      BY <1>1, <1>3, <1>4, <3>1 DEF LoadInv
    <3>7. QED
      BY <1>1, <3>2, <3>4, <3>5, <3>6, SameDisk DEF LoadInv
  <2>3. QED
    BY <2>1, <2>2
<1>11. QED
  BY <1>9, <1>10

\* Neither the items of the unit nor the merged ones stand where an import does.
LEMMA UnitApart ==
  ASSUME disk \in Worlds
  PROVE  \A it \in Base(Own) \cup Foreign(disk) : Apart(it, Places(disk)) /\ HasFields(it)
BY BaseIs, ForeignIs DEF Own, IsOwn

\* When the queue is empty, each import has been answered or one is reported.
LEMMA AddImportsKeeps == ASSUME IInv, AddImports PROVE IInv'
<1>1. /\ phase = "imports" /\ queue = <<>> /\ unit' = unit \o merged /\ disk' = disk /\ errors' = errors
      /\ phase' = (IF errors = {} THEN "resolve" ELSE "done")
  BY DEF AddImports
<1>2. disk' \in Worlds /\ phase' \in {"resolve", "done"} /\ StartInv' /\ LoadInv'
  BY <1>1 DEF IInv, StartInv, LoadInv
<1> SUFFICES LaterInv' /\ Reported'
  BY <1>2 DEF IInv
<1>3. LoadInv /\ Reported /\ disk \in Worlds
  BY DEF IInv
<1>4. unit = Rewritten(Own) /\ unit \in Seq(Base(Own)) /\ merged \in Seq(Foreign(disk))
  BY <1>1, <1>3, WantedIs DEF LoadInv
<1> DEFINE T == Base(Own) \cup Foreign(disk)
<1>5. unit \in Seq(T) /\ merged \in Seq(T)
  BY <1>4
<1>6. unit' \in Seq(T) /\ Range(unit') = Range(unit) \cup Range(merged)
  BY <1>1, <1>5, RangeOfConcat
<1>7. \A it \in Range(merged) : it.k # "import" /\ it.merged = TRUE
  <2>1. Range(merged) \subseteq Foreign(disk)
    BY <1>4 DEF Range
  <2>2. \A it \in Foreign(disk) : it.k # "import" /\ it.merged = TRUE
    BY <1>3, ForeignIs
  <2>3. QED
    BY <2>1, <2>2
<1>8. \A it \in Range(unit) : it.merged = FALSE
  <2>1. Range(unit) \subseteq Base(Own)
    BY <1>4 DEF Range
  <2>2. \A it \in Base(Own) : it.merged = FALSE
    BY <1>3, BaseIs DEF Own, IsOwn
  <2>3. QED
    BY <2>1, <2>2
<1>9. {it \in Range(unit') : it.k = "import"} = Wanted
  BY <1>4, <1>6, <1>7 DEF Wanted
<1>10. Reported'
  <2>1. Range(OfKind(unit', {"import"})) = Wanted /\ Range(OfKind(unit, {"import"})) = Wanted
    <3> HIDE DEF T
    <3>1. QED
      BY <1>4, <1>5, <1>6, <1>9, ImportsOf DEF Wanted
  <2>2. \A i, code : ReasonFor(i, code)' = ReasonFor(i, code)
    BY <1>1, SameDisk
  <2>3. QED
    BY <1>1, <1>3, <2>1, <2>2 DEF Reported
<1>11. LaterInv'
  <2>1. CASE errors # {}
    BY <1>1, <2>1 DEF LaterInv
  <2>2. CASE errors = {}
    <3>1. \A i \in FromFiles : Answered(i) /\ Exports(i) \subseteq MergedFns(merged)
      BY <1>1, <1>3, <2>2 DEF LoadInv, Range
    <3>2. MergedFns(merged) = UNION {Exports(i) : i \in FromFiles}
      BY <1>1, <1>3, <3>1 DEF LoadInv
    <3>3. MergedFns(unit') = MergedFns(merged)
      BY <1>6, <1>8 DEF MergedFns
    <3>4. QED
      BY <1>1, <1>6, <1>9, <2>2, <3>1, <3>2, <3>3, SameDisk DEF LaterInv
  <2>3. QED
    BY <2>1, <2>2
<1>12. QED
  BY <1>10, <1>11

\* What the later passes report stands where no import does.
LEMMA LaterReports ==
  ASSUME IInv, phase \in {"resolve", "check", "lower"}, disk' = disk, unit' = unit,
         \A e \in errors' : e[1] # "E0201" => e[2] \notin Places(disk)
  PROVE  Reported'
<1>1. unit \in Seq(Base(Own) \cup Foreign(disk)) /\ {it \in Range(unit) : it.k = "import"} = Wanted
  BY DEF IInv, LaterInv
<1>2. Range(OfKind(unit', {"import"})) = Wanted
  BY <1>1, ImportsOf
<1>3. \A imp \in Wanted : imp.at \in Places(disk)
  BY WantedIs DEF IInv
<1>4. QED
  BY <1>2, <1>3, ReportedElsewhere

\* The passes that leave the items as they are.
LEMMA LaterStays ==
  ASSUME IInv, phase \in {"resolve", "check"}, disk' = disk, unit' = unit,
         phase' \in {"check", "lower", "done"}, phase' # "done" => errors' = {}
  PROVE  LaterInv'
<1>1. LaterInv
  BY DEF IInv
<1>2. QED
  BY <1>1, SameDisk DEF LaterInv

\* The resolver reports names, none of which stands where an import does.
LEMMA ResolveKeeps == ASSUME IInv, Resolve PROVE IInv'
<1>1. /\ phase = "resolve" /\ errors' = Resolved(unit).errors /\ disk' = disk /\ unit' = unit
      /\ phase' = (IF errors' = {} THEN "check" ELSE "done")
  BY DEF Resolve
<1>2. disk' \in Worlds /\ phase' \in {"check", "done"} /\ StartInv' /\ LoadInv'
  BY <1>1 DEF IInv, StartInv, LoadInv
<1> SUFFICES LaterInv' /\ Reported'
  BY <1>2 DEF IInv
<1>3. LaterInv'
  BY <1>1, LaterStays
<1>4. \A e \in errors' : e[1] # "E0201" => e[2] \notin Places(disk)
  <2>1. unit \in Seq(Base(Own) \cup Foreign(disk))
    BY <1>1 DEF IInv, LaterInv
  <2>2. \A it \in Base(Own) \cup Foreign(disk) : Apart(it, Places(disk))
    BY UnitApart DEF IInv
  <2>3. QED
    BY <1>1, <2>1, <2>2, ResolvedApart
<1>5. QED
  BY <1>1, <1>3, <1>4, LaterReports

\* The checker reports calls, none of which stands where an import does.
LEMMA CheckKeeps == ASSUME IInv, Check PROVE IInv'
<1>1. /\ phase = "check" /\ errors' = Checked(unit) /\ disk' = disk /\ unit' = unit
      /\ phase' = (IF errors' = {} THEN "lower" ELSE "done")
  BY DEF Check
<1>2. disk' \in Worlds /\ phase' \in {"lower", "done"} /\ StartInv' /\ LoadInv'
  BY <1>1 DEF IInv, StartInv, LoadInv
<1> SUFFICES LaterInv' /\ Reported'
  BY <1>2 DEF IInv
<1>3. LaterInv'
  BY <1>1, LaterStays
<1>4. \A e \in errors' : e[2] \notin Places(disk)
  <2>1. unit \in Seq(Base(Own) \cup Foreign(disk))
    BY <1>1 DEF IInv, LaterInv
  <2>2. \A it \in Base(Own) \cup Foreign(disk) : Apart(it, Places(disk))
    BY UnitApart DEF IInv
  <2>3. QED
    BY <1>1, <2>1, <2>2, CheckedApart
<1>5. QED
  BY <1>1, <1>3, <1>4, LaterReports

\* Lowering ends the compilation.
LEMMA LowerKeeps == ASSUME IInv, Lower PROVE IInv'
<1>1. /\ phase = "lower" /\ unit' = ErrMain(unit) /\ disk' = disk /\ phase' = "done"
      /\ errors' = errors \/ errors' = {<<"E0204", 0>>}
  BY DEF Lower
<1>2. disk' \in Worlds /\ StartInv' /\ LoadInv' /\ LaterInv'
  BY <1>1 DEF IInv, StartInv, LoadInv, LaterInv
<1> SUFFICES Reported'
  BY <1>1, <1>2 DEF IInv
<1>3. errors = {} /\ unit \in Seq(Base(Own) \cup Foreign(disk))
  BY <1>1 DEF IInv, LaterInv
<1>4. \A it \in Base(Own) \cup Foreign(disk) : HasFields(it) /\ (it.k = "import" => it.at # 0)
  BY UnitApart, BaseIs, ForeignIs DEF IInv, Own, IsOwn
<1>5. \A imp \in Range(OfKind(unit', {"import"})) : imp.at # 0
  BY <1>1, <1>3, <1>4, ErrMainImports
<1>6. \A e \in errors' : e[2] = 0
  BY <1>1, <1>3
<1>7. QED
  BY <1>5, <1>6, ReportedElsewhere

-----------------------------------------------------------------------------
(* The invariant, and what follows from it.                                *)

\* Every step of a compilation, and none, keep the invariant.
THEOREM StepsKeep == IInv /\ [Next]_vars => IInv'
<1> SUFFICES ASSUME IInv, [Next]_vars PROVE IInv'
  OBVIOUS
<1>1. CASE Rewrite
  BY <1>1, RewriteKeeps
<1>2. CASE RefuseMain
  BY <1>2, RefuseMainKeeps
<1>3. CASE SkipBuiltin
  BY <1>3, SkipBuiltinKeeps
<1>4. CASE MissImport
  BY <1>4, MissImportKeeps
<1>5. CASE LoadImport
  BY <1>5, LoadImportKeeps
<1>6. CASE AddImports
  BY <1>6, AddImportsKeeps
<1>7. CASE Resolve
  BY <1>7, ResolveKeeps
<1>8. CASE Check
  BY <1>8, CheckKeeps
<1>9. CASE Lower
  BY <1>9, LowerKeeps
<1>10. CASE UNCHANGED vars
  <2>1. /\ disk' = disk /\ phase' = phase /\ unit' = unit /\ queue' = queue /\ merged' = merged
        /\ errors' = errors
    BY <1>10 DEF vars
  <2>2. StartInv' /\ (LoadInv => LoadInv') /\ (LaterInv => LaterInv') /\ (Reported => Reported')
    <3>1. StartInv'
      BY <2>1, SameDisk DEF IInv, StartInv
    <3>2. (LoadInv => LoadInv') /\ (LaterInv => LaterInv')
      BY <2>1, SameDisk DEF LoadInv, LaterInv
    <3>3. Reported => Reported'
      BY <2>1, ReportedStays
    <3>4. QED
      BY <3>1, <3>2, <3>3
  <2>3. QED
    BY <2>1, <2>2, SameDisk DEF IInv
<1>11. QED
  BY <1>1, <1>2, <1>3, <1>4, <1>5, <1>6, <1>7, <1>8, <1>9, <1>10 DEF Next

\* Every compilation stays in the invariant.
THEOREM Invariance == Spec => []IInv
<1>1. Init => IInv
  BY InitEstablishes
<1>2. IInv /\ [Next]_vars => IInv'
  BY StepsKeep
<1>3. QED
  BY <1>1, <1>2, PTL DEF Spec

\* The invariant says what ImportsAreAnswered says.
THEOREM IInvImpliesAnswered == IInv => ImportsAreAnswered
<1> SUFFICES ASSUME IInv
             PROVE  /\ Reported
                    /\ phase \in {"resolve", "check", "lower"} =>
                         LET asked == {imp \in Range(OfKind(unit, {"import"})) : ~IsBuiltinModule(imp.path)}
                         IN  /\ \A imp \in asked :
                                  /\ Cardinality(Visible(imp.path)) = 1 /\ ~Misnamed(imp.path)
                                  /\ \A file \in Judged(imp.path) : IsProgram(file) => Hides(file)
                             /\ MergedFns(unit) = UNION {Exports(imp) : imp \in asked}
  BY DEF ImportsAreAnswered, Reported, MergedFns
<1>1. Reported /\ disk \in Worlds
  BY DEF IInv
<1> DEFINE asked == {imp \in Range(OfKind(unit, {"import"})) : ~IsBuiltinModule(imp.path)}
<1>2. ASSUME phase \in {"resolve", "check", "lower"}
      PROVE  /\ \A imp \in asked : /\ Cardinality(Visible(imp.path)) = 1 /\ ~Misnamed(imp.path)
                                    /\ \A file \in Judged(imp.path) : IsProgram(file) => Hides(file)
             /\ MergedFns(unit) = UNION {Exports(imp) : imp \in asked}
  <2>1. /\ unit \in Seq(Base(Own) \cup Foreign(disk)) /\ {it \in Range(unit) : it.k = "import"} = Wanted
        /\ \A imp \in FromFiles : Answered(imp)
        /\ MergedFns(unit) = UNION {Exports(imp) : imp \in FromFiles}
    BY <1>2 DEF IInv, LaterInv
  <2>2. Range(OfKind(unit, {"import"})) = Wanted
    BY <2>1, ImportsOf
  <2>3. asked = FromFiles
    BY <2>2 DEF FromFiles
  <2>4. ASSUME NEW imp \in FromFiles
        PROVE  /\ Cardinality(Visible(imp.path)) = 1 /\ ~Misnamed(imp.path)
               /\ \A file \in Judged(imp.path) : IsProgram(file) => Hides(file)
    <3>1. IsPath(imp.path)
      BY <1>1, WantedIs DEF FromFiles
    <3>2. QED
      BY <1>1, <2>1, <3>1, RefusedHasReason DEF Answered
  <2> HIDE DEF asked
  <2>5. QED
    BY <2>1, <2>3, <2>4
<1>3. QED
  BY <1>1, <1>2

\* An import that is reported has the reason that is reported; when none is,
\* each is the one file that has its path within reach, of a package that has
\* the name it is imported by and is no program, unless its lines hide that it
\* is one, and the unit has gained the functions these files export.
THEOREM EveryImportIsAnswered == Spec => []ImportsAreAnswered
<1>1. IInv => ImportsAreAnswered
  BY IInvImpliesAnswered
<1>2. QED
  BY <1>1, Invariance, PTL
=============================================================================
