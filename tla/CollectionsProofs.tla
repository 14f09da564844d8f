------------------------- MODULE CollectionsProofs --------------------------
(***************************************************************************)
(* Proofs about the collections, for any keys, values, hash functions and  *)
(* capacity of the smallest table.                                         *)
(***************************************************************************)
EXTENDS Collections, FiniteSetTheorems, SequenceTheorems, WellFoundedInduction, TLAPS

-----------------------------------------------------------------------------
(* Numbers, finite sets and sequences.                                     *)

\* The order of the numbers is well founded.
LEMMA LessIsWellFounded ==
  \E Less : IsWellFoundedOn(Less, Nat) /\ \A m, n \in Nat : m < n => <<m, n>> \in Less
<1>1. IsWellFoundedOn(OpToRel(<, Nat), Nat)
  BY NatLessThanWellFounded
<1>2. \A m, n \in Nat : m < n => <<m, n>> \in OpToRel(<, Nat)
  BY DEF OpToRel
<1>3. QED
  BY <1>1, <1>2

\* A set of numbers that is not empty has a least one.
LEMMA MinIs ==
  ASSUME NEW S, S \subseteq Nat, S # {}
  PROVE  Min(S) \in S /\ \A x \in S : Min(S) <= x
<1>1. PICK Less : IsWellFoundedOn(Less, Nat) /\ \A m, n \in Nat : m < n => <<m, n>> \in Less
  BY LessIsWellFounded
<1>2. PICK x \in S : \A y \in S : ~ (<<y, x>> \in Less)
  <2>1. IsWellFoundedOn(Less, Nat)
    BY <1>1
  <2>2. QED
    BY <2>1, WFMin
<1>3. ASSUME NEW y \in S PROVE x <= y
  <2>1. x \in Nat /\ y \in Nat
    OBVIOUS
  <2>2. y < x => <<y, x>> \in Less
    BY <1>1, <2>1
  <2>3. QED
    BY <1>2, <2>1, <2>2
<1>4. QED
  BY <1>3 DEF Min

\* Induction as a property of sets: a set that holds 0, and the successor of
\* each number it holds, holds all numbers.
LEMMA SetInduction ==
  ASSUME NEW S, 0 \in S, \A n \in Nat : n \in S => n + 1 \in S
  PROVE  Nat \subseteq S
<1> SUFFICES ASSUME Nat \ S # {} PROVE FALSE
  OBVIOUS
<1> DEFINE T == Nat \ S
<1>1. Min(T) \in T /\ \A y \in T : Min(T) <= y
  BY MinIs
<1>2. Min(T) # 0 /\ Min(T) - 1 \in Nat
  BY <1>1
<1>3. Min(T) - 1 \in S
  BY <1>1, <1>2
<1>4. QED
  BY <1>1, <1>2, <1>3

\* What makes a function an injection.
LEMMA InjectionIs ==
  ASSUME NEW S, NEW T, NEW f \in [S -> T], \A a, b \in S : a # b => f[a] # f[b]
  PROVE  f \in Injection(S, T)
<1>1. DOMAIN f = S
  OBVIOUS
<1>2. IsInjective(f)
  BY <1>1 DEF IsInjective
<1>3. QED
  BY <1>2 DEF Injection

\* The number of a in D when R puts the elements of D in order.
Number(D, R, a) == Cardinality({b \in D : <<b, a>> \in R}) + 1

\* In a finite set with a strict total order R the numbers are 1, 2, .. in order.
LEMMA NumbersAre ==
  ASSUME NEW D, IsFiniteSet(D), NEW R,
         \A a \in D : <<a, a>> \notin R,
         \A a, b, c \in D : <<a, b>> \in R /\ <<b, c>> \in R => <<a, c>> \in R,
         \A a, b \in D : a # b => <<a, b>> \in R \/ <<b, a>> \in R
  PROVE  /\ Cardinality(D) \in Nat
         /\ \A a \in D : Number(D, R, a) \in 1 .. Cardinality(D)
         /\ \A a, b \in D : <<a, b>> \in R => Number(D, R, a) < Number(D, R, b)
         /\ \A n \in 1 .. Cardinality(D) : \E a \in D : Number(D, R, a) = n
<1> DEFINE B(a) == {b \in D : <<b, a>> \in R}
           r(a) == Number(D, R, a)
           f    == [a \in D |-> r(a)]
<1>1. Cardinality(D) \in Nat
  BY FS_CardinalityType
<1>2. ASSUME NEW a \in D
      PROVE  IsFiniteSet(B(a)) /\ Cardinality(B(a)) \in Nat /\ r(a) = Cardinality(B(a)) + 1
  <2>1. IsFiniteSet(B(a))
    BY FS_Subset
  <2>2. QED
    BY <2>1, FS_CardinalityType DEF Number
<1>3. ASSUME NEW a \in D PROVE r(a) \in 1 .. Cardinality(D)
  <2>1. B(a) \in SUBSET (D \ {a})
    OBVIOUS
  <2>2. IsFiniteSet(D \ {a}) /\ Cardinality(D \ {a}) = Cardinality(D) - 1
    BY FS_RemoveElement
  <2>3. IsFiniteSet(B(a)) /\ Cardinality(B(a)) \in Nat /\ r(a) = Cardinality(B(a)) + 1
    BY <1>2
  <2> HIDE DEF B, r
  <2>4. Cardinality(B(a)) <= Cardinality(D) - 1
    BY <2>1, <2>2, FS_Subset
  <2>5. QED
    BY <1>1, <2>3, <2>4
<1>4. ASSUME NEW a \in D, NEW b \in D, <<a, b>> \in R PROVE r(a) < r(b)
  <2>1. B(a) \in SUBSET (B(b) \ {a}) /\ a \in B(b)
    BY <1>4
  <2>2. IsFiniteSet(B(b)) /\ Cardinality(B(b)) \in Nat /\ r(b) = Cardinality(B(b)) + 1
    BY <1>2
  <2>3. Cardinality(B(a)) \in Nat /\ r(a) = Cardinality(B(a)) + 1
    BY <1>2
  <2> HIDE DEF B, r
  <2>4. IsFiniteSet(B(b) \ {a}) /\ Cardinality(B(b) \ {a}) = Cardinality(B(b)) - 1
    BY <2>1, <2>2, FS_RemoveElement
  <2>5. Cardinality(B(a)) <= Cardinality(B(b)) - 1
    BY <2>1, <2>4, FS_Subset
  <2>6. QED
    BY <2>2, <2>3, <2>5
<1> HIDE DEF r
<1>5. f \in Injection(D, 1 .. Cardinality(D))
  <2>1. f \in [D -> 1 .. Cardinality(D)]
    BY <1>3
  <2>2. ASSUME NEW a \in D, NEW b \in D, a # b PROVE f[a] # f[b]
    <3>1. r(a) \in Int /\ r(b) \in Int
      BY <1>3
    <3>2. <<a, b>> \in R \/ <<b, a>> \in R
      BY <2>2
    <3>3. r(a) < r(b) \/ r(b) < r(a)
      BY <1>4, <3>2
    <3>4. r(a) # r(b)
      BY <3>1, <3>3
    <3>5. QED
      BY <3>4
  <2> HIDE DEF f
  <2>3. QED
    BY <2>1, <2>2, InjectionIs
<1>6. IsFiniteSet(1 .. Cardinality(D)) /\ Cardinality(1 .. Cardinality(D)) = Cardinality(D)
  BY <1>1, FS_Interval
<1>7. f \in Surjection(D, 1 .. Cardinality(D))
  <2> HIDE DEF f
  <2>1. QED
    BY <1>5, <1>6, FS_Injection
<1>8. \A n \in 1 .. Cardinality(D) : \E a \in D : r(a) = n
  BY <1>7 DEF Surjection
<1>9. QED
  BY <1>1, <1>3, <1>4, <1>8 DEF r

\* A function on 1..n is a sequence of length n.
LEMMA SeqIs ==
  ASSUME NEW E, NEW n \in Nat, NEW f \in [1 .. n -> E]
  PROVE  f \in Seq(E) /\ Len(f) = n
OBVIOUS

\* A sequence without its i-th element.
LEMMA RemoveAtIs ==
  ASSUME NEW E, NEW s \in Seq(E), NEW i \in 1 .. Len(s)
  PROVE  /\ RemoveAt(s, i) \in Seq(E)
         /\ Len(RemoveAt(s, i)) = Len(s) - 1
         /\ \A n \in 1 .. Len(s) - 1 : RemoveAt(s, i)[n] = IF n < i THEN s[n] ELSE s[n + 1]
<1> DEFINE a == SubSeq(s, 1, i - 1)
           b == SubSeq(s, i + 1, Len(s))
<1>1. Len(s) \in Nat /\ i \in Int
  OBVIOUS
<1>2. a \in Seq(E) /\ Len(a) = i - 1 /\ \A n \in 1 .. i - 1 : a[n] = s[n]
  <2>1. \A n \in 1 .. i - 1 : s[n] \in E
    BY <1>1
  <2>2. QED
    BY <1>1, <2>1, SubSeqProperties
<1>3. b \in Seq(E) /\ Len(b) = Len(s) - i /\ \A n \in 1 .. Len(s) - i : b[n] = s[n + i]
  <2>1. \A n \in i + 1 .. Len(s) : s[n] \in E
    BY <1>1
  <2>2. b \in Seq(E) /\ Len(b) = (IF i + 1 <= Len(s) THEN Len(s) - (i + 1) + 1 ELSE 0)
        /\ \A n \in 1 .. Len(s) - (i + 1) + 1 : b[n] = s[i + 1 + n - 1]
    BY <1>1, <2>1, SubSeqProperties
  <2> HIDE DEF b
  <2>3. Len(b) = Len(s) - i
    BY <1>1, <2>2
  <2>4. ASSUME NEW n \in 1 .. Len(s) - i PROVE b[n] = s[n + i]
    <3>1. n \in 1 .. Len(s) - (i + 1) + 1 /\ i + 1 + n - 1 = n + i
      BY <1>1
    <3>2. QED
      BY <2>2, <3>1
  <2>5. QED
    BY <2>2, <2>3, <2>4
<1> HIDE DEF a, b
<1>4. /\ a \o b \in Seq(E)
      /\ Len(a \o b) = Len(a) + Len(b)
      /\ \A n \in 1 .. Len(a) + Len(b) : (a \o b)[n] = IF n <= Len(a) THEN a[n] ELSE b[n - Len(a)]
  BY <1>2, <1>3, ConcatProperties
<1>5. RemoveAt(s, i) = a \o b
  BY DEF RemoveAt, a, b
<1>6. ASSUME NEW n \in 1 .. Len(s) - 1
      PROVE  RemoveAt(s, i)[n] = IF n < i THEN s[n] ELSE s[n + 1]
  <2>1. RemoveAt(s, i)[n] = IF n <= i - 1 THEN a[n] ELSE b[n - (i - 1)]
    <3>1. n \in 1 .. Len(a) + Len(b)
      BY <1>1, <1>2, <1>3
    <3>2. QED
      BY <1>2, <1>4, <1>5, <3>1
  <2>2. CASE n < i
    BY <1>1, <1>2, <2>1, <2>2
  <2>3. CASE ~(n < i)
    <3>1. n - (i - 1) \in 1 .. Len(s) - i /\ n - (i - 1) + i = n + 1
      BY <1>1, <2>3
    <3>2. b[n - (i - 1)] = s[n + 1]
      BY <1>3, <3>1
    <3>3. QED
      BY <1>1, <2>1, <2>3, <3>2
  <2>4. QED
    BY <2>2, <2>3
<1>7. Len(RemoveAt(s, i)) = Len(s) - 1
  <2>1. Len(a) + Len(b) = Len(s) - 1
    BY <1>1, <1>2, <1>3
  <2>2. QED
    BY <1>4, <1>5, <2>1
<1>8. QED
  BY <1>4, <1>5, <1>6, <1>7

\* A sequence with an element put in as the i-th.
LEMMA InsertAtIs ==
  ASSUME NEW E, NEW s \in Seq(E), NEW i \in 1 .. Len(s) + 1, NEW e \in E
  PROVE  /\ InsertAt(s, i, e) \in Seq(E)
         /\ Len(InsertAt(s, i, e)) = Len(s) + 1
         /\ \A n \in 1 .. Len(s) + 1 :
              InsertAt(s, i, e)[n] = IF n < i THEN s[n] ELSE IF n = i THEN e ELSE s[n - 1]
<1> DEFINE a == SubSeq(s, 1, i - 1)
           b == SubSeq(s, i, Len(s))
           c == a \o <<e>>
<1>1. Len(s) \in Nat /\ i \in Int
  OBVIOUS
<1>2. a \in Seq(E) /\ Len(a) = i - 1 /\ \A n \in 1 .. i - 1 : a[n] = s[n]
  <2>1. \A n \in 1 .. i - 1 : s[n] \in E
    BY <1>1
  <2>2. QED
    BY <1>1, <2>1, SubSeqProperties
<1>3. b \in Seq(E) /\ Len(b) = Len(s) - i + 1 /\ \A n \in 1 .. Len(s) - i + 1 : b[n] = s[i + n - 1]
  <2>1. \A n \in i .. Len(s) : s[n] \in E
    BY <1>1
  <2>2. b \in Seq(E) /\ Len(b) = (IF i <= Len(s) THEN Len(s) - i + 1 ELSE 0)
        /\ \A n \in 1 .. Len(s) - i + 1 : b[n] = s[i + n - 1]
    BY <1>1, <2>1, SubSeqProperties
  <2> HIDE DEF b
  <2>3. QED
    BY <1>1, <2>2
<1>4. <<e>> \in Seq(E) /\ Len(<<e>>) = 1 /\ <<e>>[1] = e
  OBVIOUS
<1> HIDE DEF a, b
<1>5. c \in Seq(E) /\ Len(c) = i /\ \A n \in 1 .. i : c[n] = IF n < i THEN s[n] ELSE e
  <2>1. /\ c \in Seq(E) /\ Len(c) = Len(a) + Len(<<e>>)
        /\ \A n \in 1 .. Len(a) + Len(<<e>>) : c[n] = IF n <= Len(a) THEN a[n] ELSE <<e>>[n - Len(a)]
    BY <1>2, <1>4, ConcatProperties
  <2> HIDE DEF c
  <2>2. Len(c) = i
    BY <1>1, <1>2, <1>4, <2>1
  <2>3. ASSUME NEW n \in 1 .. i PROVE c[n] = IF n < i THEN s[n] ELSE e
    <3>1. n \in 1 .. Len(a) + Len(<<e>>)
      BY <1>1, <1>2, <1>4
    <3>2. CASE n < i
      BY <1>1, <1>2, <2>1, <3>1, <3>2
    <3>3. CASE n = i
      <4>1. n - Len(a) = 1 /\ ~(n <= Len(a))
        BY <1>1, <1>2, <3>3
      <4>2. QED
        BY <1>4, <2>1, <3>1, <3>3, <4>1
    <3>4. QED
      BY <1>1, <3>2, <3>3
  <2>4. QED
    BY <2>1, <2>2, <2>3
<1> HIDE DEF c
<1>6. /\ c \o b \in Seq(E)
      /\ Len(c \o b) = Len(c) + Len(b)
      /\ \A n \in 1 .. Len(c) + Len(b) : (c \o b)[n] = IF n <= Len(c) THEN c[n] ELSE b[n - Len(c)]
  BY <1>3, <1>5, ConcatProperties
<1>7. InsertAt(s, i, e) = c \o b
  BY DEF InsertAt, a, b, c
<1>8. Len(InsertAt(s, i, e)) = Len(s) + 1
  BY <1>1, <1>3, <1>5, <1>6, <1>7
<1>9. ASSUME NEW n \in 1 .. Len(s) + 1
      PROVE  InsertAt(s, i, e)[n] = IF n < i THEN s[n] ELSE IF n = i THEN e ELSE s[n - 1]
  <2>1. InsertAt(s, i, e)[n] = IF n <= i THEN c[n] ELSE b[n - i]
    <3>1. n \in 1 .. Len(c) + Len(b)
      BY <1>1, <1>3, <1>5
    <3>2. QED
      BY <1>5, <1>6, <1>7, <3>1
  <2>2. CASE n <= i
    BY <1>1, <1>5, <2>1, <2>2
  <2>3. CASE n > i
    <3>1. n - i \in 1 .. Len(s) - i + 1 /\ i + (n - i) - 1 = n - 1
      BY <1>1, <2>3
    <3>2. b[n - i] = s[n - 1]
      BY <1>3, <3>1
    <3>3. QED
      BY <1>1, <2>1, <2>3, <3>2
  <2>4. QED
    BY <1>1, <2>2, <2>3
<1>10. QED
  BY <1>6, <1>7, <1>8, <1>9

-----------------------------------------------------------------------------
(* The entries that stay when others go.                                   *)

\* Rank numbers the places that are kept, and Kept has their entries in order.
KeptInOrder(E, s, I) ==
  /\ IsFiniteSet(I) /\ Cardinality(I) \in Nat
  /\ Kept(s, I) \in Seq(E) /\ Len(Kept(s, I)) = Cardinality(I)
  /\ \A i \in I : Rank(I, i) \in 1 .. Cardinality(I) /\ Kept(s, I)[Rank(I, i)] = s[i]
  /\ \A n \in 1 .. Cardinality(I) : \E i \in I : Rank(I, i) = n /\ Kept(s, I)[n] = s[i]
  /\ \A i, j \in I : i < j => Rank(I, i) < Rank(I, j)

\* Kept keeps what it is asked to.
LEMMA KeptIs ==
  ASSUME NEW E, NEW s \in Seq(E), NEW I, I \subseteq 1 .. Len(s)
  PROVE  KeptInOrder(E, s, I)
<1> DEFINE R == {p \in I \X I : p[1] < p[2]}
           k == Kept(s, I)
           at(n) == CHOOSE i \in I : Rank(I, i) = n
<1>1. I \subseteq Nat /\ IsFiniteSet(I)
  <2>1. IsFiniteSet(1 .. Len(s)) /\ I \in SUBSET (1 .. Len(s))
    BY FS_Interval
  <2>2. IsFiniteSet(I)
    BY <2>1, FS_Subset
  <2>3. QED
    BY <2>2
<1>2. \A a, b \in I : <<a, b>> \in R <=> a < b
  OBVIOUS
<1>3. \A a \in I : Number(I, R, a) = Rank(I, a)
  <2>1. ASSUME NEW a \in I PROVE {b \in I : <<b, a>> \in R} = {b \in I : b < a}
    BY <1>2
  <2>2. QED
    BY <2>1 DEF Rank, Number
<1> HIDE DEF R
<1>4. /\ Cardinality(I) \in Nat
      /\ \A a \in I : Number(I, R, a) \in 1 .. Cardinality(I)
      /\ \A a, b \in I : <<a, b>> \in R => Number(I, R, a) < Number(I, R, b)
      /\ \A n \in 1 .. Cardinality(I) : \E a \in I : Number(I, R, a) = n
  <2>1. \A a \in I : <<a, a>> \notin R
    BY <1>1, <1>2
  <2>2. \A a, b, c \in I : <<a, b>> \in R /\ <<b, c>> \in R => <<a, c>> \in R
    BY <1>1, <1>2
  <2>3. \A a, b \in I : a # b => <<a, b>> \in R \/ <<b, a>> \in R
    BY <1>1, <1>2
  <2>4. QED
    BY <1>1, <2>1, <2>2, <2>3, NumbersAre
<1>5. \A n \in 1 .. Cardinality(I) : \E a \in I : Rank(I, a) = n
  BY <1>3, <1>4
<1>6. ASSUME NEW a \in I, NEW b \in I, a < b PROVE Rank(I, a) < Rank(I, b)
  <2>1. <<a, b>> \in R
    BY <1>2, <1>6
  <2>2. Number(I, R, a) < Number(I, R, b)
    BY <1>4, <2>1
  <2>3. QED
    BY <1>3, <2>2
<1>7. \A a \in I : Rank(I, a) \in 1 .. Cardinality(I)
  BY <1>3, <1>4
<1>8. \A n \in 1 .. Cardinality(I) : at(n) \in I /\ Rank(I, at(n)) = n
  BY <1>5
<1>9. k = [n \in 1 .. Cardinality(I) |-> s[at(n)]]
  BY DEF Kept
<1>10. ASSUME NEW a \in I PROVE at(Rank(I, a)) = a
  <2> DEFINE b == at(Rank(I, a))
  <2>1. b \in I /\ Rank(I, b) = Rank(I, a)
    BY <1>7, <1>8
  <2>2. ~(a < b) /\ ~(b < a)
    <3> HIDE DEF b
    <3>1. Rank(I, a) \in Int
      BY <1>7
    <3>2. QED
      BY <1>6, <2>1, <3>1
  <2>3. a \in Nat /\ b \in Nat
    BY <1>1, <2>1
  <2> HIDE DEF b
  <2>4. a = b
    BY <2>2, <2>3
  <2>5. QED
    BY <2>4 DEF b
<1> HIDE DEF at
<1>11. k \in [1 .. Cardinality(I) -> E]
  <2>1. \A i \in I : s[i] \in E
    BY ElementOfSeq
  <2>2. \A n \in 1 .. Cardinality(I) : s[at(n)] \in E
    BY <1>8, <2>1
  <2>3. QED
    BY <1>9, <2>2
<1>12. k \in Seq(E) /\ Len(k) = Cardinality(I)
  BY <1>4, <1>11, SeqIs
<1>13. \A n \in 1 .. Cardinality(I) : k[n] = s[at(n)]
  BY <1>9
<1> HIDE DEF k
<1>14. \A a \in I : k[Rank(I, a)] = s[a]
  BY <1>7, <1>10, <1>13
<1>15. QED
  BY <1>1, <1>4, <1>6, <1>7, <1>8, <1>12, <1>13, <1>14 DEF k, KeptInOrder

\* Kept of t has what Kept of s has, but the entry at place i.
KeptBut(s, t, I, i) == Kept(t, I \ {i}) = RemoveAt(Kept(s, I), Rank(I, i))

\* Keeping one entry less takes one element out of what was kept.
LEMMA KeptWithout ==
  ASSUME NEW E, NEW s \in Seq(E), NEW t \in Seq(E), Len(t) = Len(s),
         NEW I, I \subseteq 1 .. Len(s), NEW i \in I, \A j \in I \ {i} : t[j] = s[j]
  PROVE  KeptBut(s, t, I, i)
<1> DEFINE J == I \ {i}
           k == Kept(s, I)
           l == Kept(t, J)
           r == Rank(I, i)
<1>1. /\ IsFiniteSet(I) /\ Cardinality(I) \in Nat
      /\ k \in Seq(E) /\ Len(k) = Cardinality(I)
      /\ \A a \in I : Rank(I, a) \in 1 .. Cardinality(I) /\ k[Rank(I, a)] = s[a]
      /\ \A a, b \in I : a < b => Rank(I, a) < Rank(I, b)
  <2>1. KeptInOrder(E, s, I)
    BY KeptIs
  <2>2. QED
    BY <2>1 DEF KeptInOrder
<1>2. /\ l \in Seq(E) /\ Len(l) = Cardinality(J)
      /\ \A n \in 1 .. Cardinality(J) : \E a \in J : Rank(J, a) = n /\ l[n] = t[a]
  <2>1. J \subseteq 1 .. Len(t)
    OBVIOUS
  <2>2. KeptInOrder(E, t, J)
    <3> HIDE DEF J
    <3>1. QED
      BY <2>1, KeptIs
  <2>3. QED
    BY <2>2 DEF KeptInOrder
<1>3. Cardinality(J) = Cardinality(I) - 1
  BY <1>1, FS_RemoveElement
<1>4. I \subseteq Nat
  OBVIOUS
<1>5. ASSUME NEW a \in J PROVE Rank(J, a) = IF a < i THEN Rank(I, a) ELSE Rank(I, a) - 1
  <2> DEFINE A == {b \in I : b < a}
             B == {b \in J : b < a}
  <2>1. IsFiniteSet(A)
    BY <1>1, FS_Subset
  <2>2. Cardinality(A) \in Nat
    BY <2>1, FS_CardinalityType
  <2>3. B = A \ {i}
    OBVIOUS
  <2>4. Cardinality(B) = IF i \in A THEN Cardinality(A) - 1 ELSE Cardinality(A)
    <3> HIDE DEF A, B
    <3>1. QED
      BY <2>1, <2>3, FS_RemoveElement
  <2>5. Rank(J, a) = Cardinality(B) + 1 /\ Rank(I, a) = Cardinality(A) + 1
    BY DEF Rank
  <2>6. i \in A <=> ~(a < i)
    BY <1>4
  <2> HIDE DEF A, B
  <2>7. QED
    BY <2>2, <2>4, <2>5, <2>6
<1>6. r \in 1 .. Len(k)
  BY <1>1
<1> DEFINE m == RemoveAt(k, r)
<1>7. /\ m \in Seq(E) /\ Len(m) = Len(k) - 1
      /\ \A n \in 1 .. Len(k) - 1 : m[n] = IF n < r THEN k[n] ELSE k[n + 1]
  <2> HIDE DEF k, r
  <2>1. QED
    BY <1>1, <1>6, RemoveAtIs
<1> HIDE DEF k, l, r, m
<1>8. ASSUME NEW n \in 1 .. Cardinality(J) PROVE l[n] = m[n]
  <2>1. PICK a \in J : Rank(J, a) = n /\ l[n] = t[a]
    BY <1>2
  <2>2. a \in I /\ a # i /\ t[a] = s[a] /\ k[Rank(I, a)] = s[a] /\ Rank(I, a) \in Int
    BY <1>1
  <2>3. n \in 1 .. Len(k) - 1 /\ r \in Int /\ n \in Int
    BY <1>1, <1>3, <1>6
  <2>4. CASE a < i
    <3>1. Rank(I, a) = n
      BY <1>5, <2>1, <2>4
    <3>2. n < r
      BY <1>1, <2>2, <2>4, <3>1 DEF r
    <3>3. m[n] = k[n]
      BY <1>7, <2>3, <3>2
    <3>4. QED
      BY <2>1, <2>2, <3>1, <3>3
  <2>5. CASE i < a
    <3>1. ~(a < i)
      BY <1>4, <2>2, <2>5
    <3>2. Rank(I, a) = n + 1
      <4>1. n = Rank(I, a) - 1
        BY <1>5, <2>1, <3>1
      <4>2. QED
        BY <2>2, <4>1
    <3>3. r < n + 1
      BY <1>1, <2>2, <2>5, <3>2 DEF r
    <3>4. m[n] = k[n + 1]
      BY <1>7, <2>3, <3>3
    <3>5. QED
      BY <2>1, <2>2, <3>2, <3>4
  <2>6. a < i \/ i < a
    BY <1>4, <2>2
  <2>7. QED
    BY <2>4, <2>5, <2>6
<1>9. Len(l) = Len(m) /\ Len(l) = Cardinality(J)
  BY <1>1, <1>2, <1>3, <1>7
<1>10. l = m
  BY <1>2, <1>7, <1>8, <1>9, SeqEqual
<1>11. QED
  BY <1>10 DEF KeptBut, l, m, k, r

\* Keeping every entry changes nothing.
LEMMA KeptAll ==
  ASSUME NEW E, NEW s \in Seq(E)
  PROVE  /\ Kept(s, 1 .. Len(s)) = s
         /\ \A i \in 1 .. Len(s) : Rank(1 .. Len(s), i) = i
<1> DEFINE I == 1 .. Len(s)
           k == Kept(s, I)
<1>1. Len(s) \in Nat
  OBVIOUS
<1>2. Cardinality(I) = Len(s)
  <2>1. 1 \in Int /\ Len(s) \in Int /\ Len(s) >= 0
    BY <1>1
  <2>2. Cardinality(I) = IF 1 > Len(s) THEN 0 ELSE Len(s) - 1 + 1
    BY <2>1, FS_Interval
  <2>3. QED
    BY <2>1, <2>2
<1>3. k \in Seq(E) /\ Len(k) = Len(s) /\ \A i \in I : k[Rank(I, i)] = s[i]
  <2>1. KeptInOrder(E, s, I)
    <3>1. I \subseteq 1 .. Len(s)
      OBVIOUS
    <3> HIDE DEF I
    <3>2. QED
      BY <3>1, KeptIs
  <2>2. QED
    BY <1>2, <2>1 DEF KeptInOrder
<1>4. ASSUME NEW i \in I PROVE Rank(I, i) = i
  <2>1. {j \in I : j < i} = 1 .. i - 1
    BY <1>1
  <2>2. Cardinality(1 .. i - 1) = i - 1
    <3>1. Cardinality(1 .. i - 1) = IF 1 > i - 1 THEN 0 ELSE i - 1 - 1 + 1
      <4>1. 1 \in Int /\ i - 1 \in Int
        OBVIOUS
      <4>2. QED
        BY <4>1, FS_Interval
    <3>2. QED
      BY <3>1
  <2>3. i \in Int /\ i - 1 + 1 = i
    OBVIOUS
  <2>4. QED
    BY <2>1, <2>2, <2>3 DEF Rank
<1> HIDE DEF k
<1>5. \A i \in 1 .. Len(k) : k[i] = s[i]
  BY <1>3, <1>4
<1>6. k = s
  BY <1>3, <1>5, SeqEqual
<1>7. QED
  BY <1>4, <1>6 DEF k

-----------------------------------------------------------------------------
(* Sequences of entries with different keys.                               *)

Entries == [key : Keys, val : Vals \cup {Unit}]

Apart(es) == \A i, j \in DOMAIN es : es[i].key = es[j].key => i = j

\* The value of a key among entries, null when there is none.
Value(es, k) == IF Find(es, k) = 0 THEN Null ELSE es[Find(es, k)].val

\* What Find finds.
LEMMA FindIs ==
  ASSUME NEW c \in Seq(Entries), NEW k
  PROVE  /\ Find(c, k) # 0 => Find(c, k) \in 1 .. Len(c) /\ c[Find(c, k)].key = k
         /\ Find(c, k) = 0 => \A i \in 1 .. Len(c) : c[i].key # k
         /\ Find(c, k) \in 0 .. Len(c)
<1> DEFINE at == {i \in DOMAIN c : c[i].key = k}
<1>1. DOMAIN c = 1 .. Len(c) /\ Len(c) \in Nat
  OBVIOUS
<1>2. Find(c, k) = IF at = {} THEN 0 ELSE CHOOSE i \in at : TRUE
  BY DEF Find
<1>3. CASE at = {}
  <2>1. Find(c, k) = 0
    BY <1>2, <1>3
  <2>2. \A i \in 1 .. Len(c) : c[i].key # k
    BY <1>1, <1>3
  <2>3. QED
    BY <1>1, <2>1, <2>2
<1>4. CASE at # {}
  <2>1. Find(c, k) \in at
    <3> HIDE DEF at
    <3>1. QED
      BY <1>2, <1>4
  <2>2. Find(c, k) \in 1 .. Len(c) /\ c[Find(c, k)].key = k
    BY <1>1, <2>1
  <2>3. QED
    BY <1>1, <2>2
<1>5. QED
  BY <1>3, <1>4

\* Where the keys are different there is one place to find.
LEMMA FindAt ==
  ASSUME NEW c \in Seq(Entries), Apart(c), NEW i \in 1 .. Len(c)
  PROVE  /\ Find(c, c[i].key) = i
         /\ Value(c, c[i].key) = c[i].val
         /\ c[i].key \in Keys /\ c[i].val \in Vals \cup {Unit} /\ c[i].val # Null
         /\ c[i] = [key |-> c[i].key, val |-> c[i].val]
<1>1. c[i] \in Entries
  BY ElementOfSeq
<1>2. DOMAIN c = 1 .. Len(c) /\ i # 0
  OBVIOUS
<1>3. Find(c, c[i].key) # 0
  BY FindIs
<1>4. Find(c, c[i].key) = i
  <2>1. Find(c, c[i].key) \in 1 .. Len(c) /\ c[Find(c, c[i].key)].key = c[i].key
    BY <1>3, FindIs
  <2>2. QED
    BY <1>2, <2>1 DEF Apart
<1>5. Value(c, c[i].key) = c[i].val
  BY <1>2, <1>4 DEF Value
<1>6. QED
  BY <1>1, <1>4, <1>5, ValsAssumption DEF Entries

\* A key that is not there.
LEMMA ValueNone ==
  ASSUME NEW c \in Seq(Entries), NEW k, \A i \in 1 .. Len(c) : c[i].key # k
  PROVE  Find(c, k) = 0 /\ Value(c, k) = Null
<1>1. Find(c, k) = 0
  BY FindIs
<1>2. QED
  BY <1>1 DEF Value

\* A key is there, or it is not.
LEMMA ValueSome ==
  ASSUME NEW c \in Seq(Entries), Apart(c), NEW k
  PROVE  /\ Find(c, k) = 0 <=> Value(c, k) = Null
         /\ Value(c, k) # Null => Value(c, k) \in Vals \cup {Unit}
<1>1. CASE Find(c, k) = 0
  BY <1>1 DEF Value
<1>2. CASE Find(c, k) # 0
  <2>1. Find(c, k) \in 1 .. Len(c) /\ c[Find(c, k)].key = k
    BY <1>2, FindIs
  <2>2. Value(c, k) = c[Find(c, k)].val
    BY <1>2 DEF Value
  <2>3. c[Find(c, k)].val # Null /\ c[Find(c, k)].val \in Vals \cup {Unit}
    BY <2>1, FindAt
  <2>4. QED
    BY <1>2, <2>2, <2>3
<1>3. QED
  BY <1>1, <1>2

\* d holds what c holds, but v for k, or nothing for it when v is null.
Changed(c, d, k, v) ==
  /\ d \in Seq(Entries) /\ Apart(d)
  /\ \A j \in Keys : Value(d, j) = IF j = k THEN v ELSE Value(c, j)

\* Taking out an entry.
LEMMA Removed ==
  ASSUME NEW c \in Seq(Entries), Apart(c), NEW i \in 1 .. Len(c)
  PROVE  Changed(c, RemoveAt(c, i), c[i].key, Null)
<1> DEFINE d == RemoveAt(c, i)
           from(n) == IF n < i THEN n ELSE n + 1
<1>1. Len(c) \in Nat /\ i \in Int /\ DOMAIN c = 1 .. Len(c)
  OBVIOUS
<1>2. d \in Seq(Entries) /\ Len(d) = Len(c) - 1 /\ \A n \in 1 .. Len(d) : d[n] = c[from(n)]
  <2>1. /\ d \in Seq(Entries) /\ Len(d) = Len(c) - 1
        /\ \A n \in 1 .. Len(c) - 1 : d[n] = IF n < i THEN c[n] ELSE c[n + 1]
    BY RemoveAtIs
  <2> HIDE DEF d
  <2>2. QED
    BY <2>1
<1> HIDE DEF d
<1>3. DOMAIN d = 1 .. Len(d)
  BY <1>2
<1>4. \A n \in 1 .. Len(d) : from(n) \in 1 .. Len(c) /\ from(n) # i
  BY <1>1, <1>2
<1>5. Apart(d)
  <2>1. ASSUME NEW m \in 1 .. Len(d), NEW n \in 1 .. Len(d), d[m].key = d[n].key PROVE m = n
    <3>1. c[from(m)].key = c[from(n)].key
      BY <1>2, <2>1
    <3>2. from(m) = from(n)
      <4> HIDE DEF from
      <4>1. QED
        BY <1>1, <1>4, <3>1 DEF Apart
    <3>3. QED
      BY <1>1, <3>2
  <2>2. QED
    BY <1>3, <2>1 DEF Apart
<1>6. ASSUME NEW j \in Keys PROVE Value(d, j) = IF j = c[i].key THEN Null ELSE Value(c, j)
  <2>1. CASE \E m \in 1 .. Len(c) : m # i /\ c[m].key = j
    <3>1. PICK m \in 1 .. Len(c) : m # i /\ c[m].key = j
      BY <2>1
    <3>2. PICK n \in 1 .. Len(d) : from(n) = m
      <4>1. (IF m < i THEN m ELSE m - 1) \in 1 .. Len(d) /\ from(IF m < i THEN m ELSE m - 1) = m
        BY <1>1, <1>2, <3>1
      <4>2. QED
        BY <4>1
    <3>3. d[n] = c[m]
      BY <1>2, <3>2
    <3>4. Value(d, j) = c[m].val
      BY <1>2, <1>5, <3>1, <3>3, FindAt
    <3>5. Value(c, j) = c[m].val
      BY <3>1, FindAt
    <3>6. j # c[i].key
      BY <1>1, <3>1 DEF Apart
    <3>7. QED
      BY <3>4, <3>5, <3>6
  <2>2. CASE \A m \in 1 .. Len(c) : m # i => c[m].key # j
    <3>1. \A n \in 1 .. Len(d) : d[n].key # j
      <4> HIDE DEF from
      <4>1. QED
        BY <1>2, <1>4, <2>2
    <3>2. Value(d, j) = Null
      BY <1>2, <3>1, ValueNone
    <3>3. j # c[i].key => Value(c, j) = Null
      <4>1. j # c[i].key => \A m \in 1 .. Len(c) : c[m].key # j
        BY <2>2
      <4>2. QED
        BY <4>1, ValueNone
    <3>4. QED
      BY <3>2, <3>3
  <2>3. QED
    BY <2>1, <2>2
<1>7. QED
  BY <1>2, <1>5, <1>6 DEF Changed, d

\* Putting in an entry with a new key.
LEMMA Inserted ==
  ASSUME NEW c \in Seq(Entries), Apart(c), NEW i \in 1 .. Len(c) + 1,
         NEW k \in Keys, NEW v \in Vals \cup {Unit}, \A n \in 1 .. Len(c) : c[n].key # k,
         NEW d \in Seq(Entries), Len(d) = Len(c) + 1,
         \A n \in 1 .. Len(c) + 1 : d[n] = IF n < i THEN c[n] ELSE IF n = i THEN Entry(k, v) ELSE c[n - 1]
  PROVE  Changed(c, d, k, v)
<1> DEFINE e == Entry(k, v)
           to(n) == IF n < i THEN n ELSE n + 1
<1>1. /\ Len(c) \in Nat /\ Len(d) \in Nat /\ i \in Int
      /\ DOMAIN c = 1 .. Len(c) /\ DOMAIN d = 1 .. Len(d) /\ e.key = k /\ e.val = v
  BY DEF Entry
<1>2. i \in 1 .. Len(d) /\ d[i] = e
  BY <1>1
<1>3. \A n \in 1 .. Len(c) : to(n) \in 1 .. Len(d) /\ d[to(n)] = c[n]
  <2>1. ASSUME NEW n \in 1 .. Len(c) PROVE to(n) \in 1 .. Len(d) /\ d[to(n)] = c[n]
    <3>1. to(n) \in 1 .. Len(c) + 1 /\ n \in Int /\ n + 1 - 1 = n
      BY <1>1
    <3>2. CASE n < i
      BY <1>1, <3>1, <3>2
    <3>3. CASE ~(n < i)
      <4>1. ~(n + 1 < i) /\ n + 1 # i /\ to(n) = n + 1
        BY <1>1, <3>1, <3>3
      <4>2. QED
        BY <3>1, <4>1
    <3>4. QED
      BY <3>2, <3>3
  <2>2. QED
    BY <2>1
<1>4. \A m \in 1 .. Len(d) : m # i => \E n \in 1 .. Len(c) : to(n) = m
  <2>1. ASSUME NEW m \in 1 .. Len(d), m # i PROVE \E n \in 1 .. Len(c) : to(n) = m
    <3>1. (IF m < i THEN m ELSE m - 1) \in 1 .. Len(c) /\ to(IF m < i THEN m ELSE m - 1) = m
      BY <1>1, <2>1
    <3>2. QED
      BY <3>1
  <2>2. QED
    BY <2>1
<1>5. Apart(d)
  <2>1. ASSUME NEW m \in 1 .. Len(d), NEW n \in 1 .. Len(d), d[m].key = d[n].key PROVE m = n
    <3>1. CASE m # i /\ n # i
      <4>1. PICK a \in 1 .. Len(c) : to(a) = m
        BY <1>4, <3>1
      <4>2. PICK b \in 1 .. Len(c) : to(b) = n
        BY <1>4, <3>1
      <4>3. c[a].key = c[b].key
        BY <1>3, <2>1, <4>1, <4>2
      <4>4. a = b
        BY <1>1, <4>3 DEF Apart
      <4>5. QED
        BY <4>1, <4>2, <4>4
    <3>2. ASSUME NEW l \in 1 .. Len(d), l # i PROVE d[l].key # k
      <4>1. PICK a \in 1 .. Len(c) : to(a) = l
        BY <1>4, <3>2
      <4>2. d[l] = c[a]
        BY <1>3, <4>1
      <4>3. QED
        BY <4>2
    <3>3. QED
      BY <1>1, <1>2, <2>1, <3>1, <3>2
  <2>2. QED
    BY <1>1, <2>1 DEF Apart
<1> HIDE DEF e, to
<1>6. ASSUME NEW j \in Keys PROVE Value(d, j) = IF j = k THEN v ELSE Value(c, j)
  <2>1. CASE j = k
    BY <1>1, <1>2, <1>5, <2>1, FindAt
  <2>2. CASE \E n \in 1 .. Len(c) : c[n].key = j
    <3>1. PICK n \in 1 .. Len(c) : c[n].key = j
      BY <2>2
    <3>2. to(n) \in 1 .. Len(d) /\ d[to(n)] = c[n]
      BY <1>3
    <3>3. Value(d, j) = c[n].val
      BY <1>5, <3>1, <3>2, FindAt
    <3>4. Value(c, j) = c[n].val
      BY <3>1, FindAt
    <3>5. QED
      BY <3>1, <3>3, <3>4
  <2>3. CASE j # k /\ \A n \in 1 .. Len(c) : c[n].key # j
    <3>1. \A m \in 1 .. Len(d) : d[m].key # j
      BY <1>1, <1>2, <1>3, <1>4, <2>3
    <3>2. Value(d, j) = Null
      BY <3>1, ValueNone
    <3>3. Value(c, j) = Null
      BY <2>3, ValueNone
    <3>4. QED
      BY <2>3, <3>2, <3>3
  <2>4. QED
    BY <2>1, <2>2, <2>3
<1>7. QED
  BY <1>5, <1>6 DEF Changed

\* Appending an entry with a new key.
LEMMA Appended ==
  ASSUME NEW c \in Seq(Entries), Apart(c), NEW k \in Keys, NEW v \in Vals \cup {Unit},
         \A n \in 1 .. Len(c) : c[n].key # k
  PROVE  Changed(c, Append(c, Entry(k, v)), k, v)
<1> DEFINE e == Entry(k, v)
           d == Append(c, e)
<1>1. e \in Entries /\ Len(c) \in Nat
  BY DEF Entry, Entries
<1>2. d \in Seq(Entries) /\ Len(d) = Len(c) + 1 /\ (\A n \in 1 .. Len(c) : d[n] = c[n]) /\ d[Len(c) + 1] = e
  <2> HIDE DEF e
  <2>1. QED
    BY <1>1, AppendProperties
<1> HIDE DEF d
<1>3. \A n \in 1 .. Len(c) + 1 :
        d[n] = IF n < Len(c) + 1 THEN c[n] ELSE IF n = Len(c) + 1 THEN e ELSE c[n - 1]
  BY <1>1, <1>2
<1>4. Len(c) + 1 \in 1 .. Len(c) + 1
  BY <1>1
<1>5. Changed(c, d, k, v)
  BY <1>2, <1>3, <1>4, Inserted
<1>6. QED
  BY <1>5 DEF d

\* Replacing the entry of a key.
LEMMA Updated ==
  ASSUME NEW c \in Seq(Entries), Apart(c), NEW i \in 1 .. Len(c), NEW v \in Vals \cup {Unit},
         NEW d \in Seq(Entries), Len(d) = Len(c),
         \A n \in 1 .. Len(c) : d[n] = IF n = i THEN Entry(c[i].key, v) ELSE c[n]
  PROVE  Changed(c, d, c[i].key, v)
<1>1. DOMAIN c = 1 .. Len(c) /\ DOMAIN d = 1 .. Len(c)
  OBVIOUS
<1>2. \A n \in 1 .. Len(c) : d[n].key = c[n].key /\ d[n].val = IF n = i THEN v ELSE c[n].val
  BY DEF Entry
<1>3. Apart(d)
  BY <1>1, <1>2 DEF Apart
<1>4. ASSUME NEW j \in Keys PROVE Value(d, j) = IF j = c[i].key THEN v ELSE Value(c, j)
  <2>1. CASE \E n \in 1 .. Len(c) : c[n].key = j
    <3>1. PICK n \in 1 .. Len(c) : c[n].key = j
      BY <2>1
    <3>2. Value(d, j) = d[n].val
      <4>1. n \in 1 .. Len(d) /\ d[n].key = j
        BY <1>2, <3>1
      <4>2. Value(d, d[n].key) = d[n].val
        BY <1>3, <4>1, FindAt
      <4>3. QED
        BY <4>1, <4>2
    <3>3. Value(c, j) = c[n].val
      BY <3>1, FindAt
    <3>4. n = i <=> j = c[i].key
      BY <1>1, <3>1 DEF Apart
    <3>5. QED
      BY <1>2, <3>2, <3>3, <3>4
  <2>2. CASE \A n \in 1 .. Len(c) : c[n].key # j
    <3>1. Value(d, j) = Null
      <4>1. \A n \in 1 .. Len(d) : d[n].key # j
        BY <1>2, <2>2
      <4>2. QED
        BY <4>1, ValueNone
    <3>2. Value(c, j) = Null
      BY <2>2, ValueNone
    <3>3. QED
      BY <2>2, <3>1, <3>2
  <2>3. QED
    BY <2>1, <2>2
<1>5. QED
  BY <1>3, <1>4 DEF Changed

-----------------------------------------------------------------------------
(* The trie.                                                               *)

TrieHashes == [1 .. Levels -> Nat]
Places     == {p \in Seq(Nat) : Len(p) <= Levels}

\* A leaf or a collision node.
IsTip(t, p) == p \in DOMAIN t /\ ~IsBranch(t, p)

\* What is right about one node: WellPlaced and the types it leaves out.
BranchOK(t, p) == t[p] = Branch /\ Len(p) < Levels /\ Below(t, p) # {}
TipOK(t, p, hf) ==
  /\ t[p].hash \in TrieHashes /\ p = Path(t[p].hash, Len(p))
  /\ t[p].entries \in Seq(Entries) /\ Apart(t[p].entries)
  /\ t[p].kind \in {"leaf", "collision"}
  /\ IF t[p].kind = "leaf" THEN Len(t[p].entries) = 1 ELSE Len(t[p].entries) > 1
  /\ \A i \in 1 .. Len(t[p].entries) : hf[t[p].entries[i].key] = t[p].hash
  /\ t[p] = [kind |-> t[p].kind, hash |-> t[p].hash, entries |-> t[p].entries]

TrieOK(t, hf) ==
  /\ DOMAIN t \subseteq Places
  /\ \A p \in DOMAIN t : \A d \in 0 .. Len(p) - 1 : IsBranch(t, Path(p, d))
  /\ \A p \in DOMAIN t : IF IsBranch(t, p) THEN BranchOK(t, p) ELSE TipOK(t, p, hf)

\* A path has a length, and the slots of what it is a path of.
LEMMA PathIs ==
  ASSUME NEW h, NEW n \in Nat, \A i \in 1 .. n : h[i] \in Nat, NEW d \in 0 .. n
  PROVE  /\ Path(h, d) \in Seq(Nat) /\ Len(Path(h, d)) = d /\ \A i \in 1 .. d : Path(h, d)[i] = h[i]
         /\ d <= Levels => Path(h, d) \in Places
         /\ \A j \in 0 .. d : Path(Path(h, d), j) = Path(h, j)
<1>1. d \in Nat /\ Path(h, d) \in [1 .. d -> Nat] /\ \A i \in 1 .. d : Path(h, d)[i] = h[i]
  BY DEF Path
<1>2. Path(h, d) \in Seq(Nat) /\ Len(Path(h, d)) = d
  BY <1>1, SeqIs
<1>3. ASSUME NEW j \in 0 .. d PROVE Path(Path(h, d), j) = Path(h, j)
  <2>1. \A i \in 1 .. j : Path(h, d)[i] = h[i]
    BY <1>1
  <2>2. QED
    BY <2>1 DEF Path
<1>4. QED
  BY <1>1, <1>2, <1>3 DEF Places

\* The same for hashes and for places.
LEMMA PathOfHash ==
  ASSUME NEW h \in TrieHashes, NEW d \in 0 .. Levels
  PROVE  /\ Path(h, d) \in Places /\ Len(Path(h, d)) = d /\ \A i \in 1 .. d : Path(h, d)[i] = h[i]
         /\ \A j \in 0 .. d : Path(Path(h, d), j) = Path(h, j)
<1>1. \A i \in 1 .. Levels : h[i] \in Nat
  BY DEF TrieHashes
<1>2. QED
  BY <1>1, PathIs, LevelsAssumption

LEMMA PathOfPlace ==
  ASSUME NEW p \in Places, NEW d \in 0 .. Len(p)
  PROVE  /\ Path(p, d) \in Places /\ Len(Path(p, d)) = d /\ \A i \in 1 .. d : Path(p, d)[i] = p[i]
         /\ \A j \in 0 .. d : Path(Path(p, d), j) = Path(p, j)
         /\ Path(p, Len(p)) = p /\ p \in Seq(Nat) /\ Len(p) \in 0 .. Levels
<1>1. p \in Seq(Nat) /\ Len(p) \in Nat /\ Len(p) <= Levels
  BY DEF Places
<1>2. \A i \in 1 .. Len(p) : p[i] \in Nat
  BY <1>1
<1>3. d <= Levels /\ Len(p) \in 0 .. Levels
  BY <1>1, LevelsAssumption
<1>4. Path(p, Len(p)) = p
  BY <1>1 DEF Path
<1>5. /\ Path(p, d) \in Seq(Nat) /\ Len(Path(p, d)) = d /\ \A i \in 1 .. d : Path(p, d)[i] = p[i]
      /\ d <= Levels => Path(p, d) \in Places
      /\ \A j \in 0 .. d : Path(Path(p, d), j) = Path(p, j)
  BY <1>1, <1>2, PathIs
<1>6. QED
  BY <1>1, <1>3, <1>4, <1>5

\* Paths agree when their slots do.
LEMMA SamePath ==
  ASSUME NEW g, NEW h, NEW d \in Nat
  PROVE  Path(g, d) = Path(h, d) <=> \A i \in 1 .. d : g[i] = h[i]
<1>1. ASSUME Path(g, d) = Path(h, d), NEW i \in 1 .. d PROVE g[i] = h[i]
  <2>1. Path(g, d)[i] = g[i] /\ Path(h, d)[i] = h[i]
    BY DEF Path
  <2>2. QED
    BY <1>1, <2>1
<1>2. ASSUME \A i \in 1 .. d : g[i] = h[i] PROVE Path(g, d) = Path(h, d)
  BY <1>2 DEF Path
<1>3. QED
  BY <1>1, <1>2

\* Below the last slice there is no branch: the descent ends, at one place.
LEMMA DepthIs ==
  ASSUME NEW t, NEW hf, TrieOK(t, hf), NEW h \in TrieHashes
  PROVE  /\ Depth(t, h) \in 0 .. Levels
         /\ \A j \in 0 .. Depth(t, h) - 1 : IsBranch(t, Path(h, j))
         /\ ~IsBranch(t, Path(h, Depth(t, h)))
         /\ \A d \in 0 .. Levels :
              (\A j \in 0 .. d - 1 : IsBranch(t, Path(h, j))) /\ ~IsBranch(t, Path(h, d)) => Depth(t, h) = d
<1> DEFINE End(d) == (\A j \in 0 .. d - 1 : IsBranch(t, Path(h, j))) /\ ~IsBranch(t, Path(h, d))
           S == {d \in 0 .. Levels : ~IsBranch(t, Path(h, d))}
<1>1. Levels \in Nat
  BY LevelsAssumption
<1>2. ~IsBranch(t, Path(h, Levels))
  <2>1. Len(Path(h, Levels)) = Levels
    BY <1>1, PathOfHash
  <2>2. SUFFICES ASSUME IsBranch(t, Path(h, Levels)) PROVE FALSE
    OBVIOUS
  <2>3. Len(Path(h, Levels)) < Levels
    BY <2>2 DEF TrieOK, BranchOK, IsBranch
  <2>4. QED
    BY <1>1, <2>1, <2>3
<1>3. Min(S) \in S /\ \A x \in S : Min(S) <= x
  <2>1. S \subseteq Nat /\ S # {}
    BY <1>1, <1>2
  <2> HIDE DEF S
  <2>2. QED
    BY <2>1, MinIs
<1>4. \E d \in 0 .. Levels : End(d)
  <2>1. Min(S) \in 0 .. Levels /\ ~IsBranch(t, Path(h, Min(S)))
    BY <1>3
  <2>2. ASSUME NEW j \in 0 .. Min(S) - 1 PROVE IsBranch(t, Path(h, j))
    <3>1. j \in 0 .. Levels /\ ~(Min(S) <= j)
      BY <1>1, <2>1
    <3>2. j \notin S
      BY <1>3, <3>1
    <3>3. QED
      BY <3>1, <3>2
  <2>3. QED
    BY <2>1, <2>2
<1>5. Depth(t, h) = CHOOSE d \in 0 .. Levels : End(d)
  BY DEF Depth
<1>6. Depth(t, h) \in 0 .. Levels /\ End(Depth(t, h))
  <2> HIDE DEF End
  <2>1. QED
    BY <1>4, <1>5
<1>7. ASSUME NEW d \in 0 .. Levels, End(d) PROVE Depth(t, h) = d
  <2>1. ~(d < Depth(t, h))
    <3>1. d < Depth(t, h) => d \in 0 .. Depth(t, h) - 1
      BY <1>1, <1>6
    <3>2. QED
      BY <1>6, <1>7, <3>1
  <2>2. ~(Depth(t, h) < d)
    <3>1. Depth(t, h) < d => Depth(t, h) \in 0 .. d - 1
      BY <1>1, <1>6
    <3>2. QED
      BY <1>6, <1>7, <3>1
  <2>3. QED
    BY <1>1, <1>6, <2>1, <2>2
<1>8. QED
  BY <1>6, <1>7

\* The descent by the hash of a tip ends at the tip, and the end of a descent is
\* the tip of another hash, no node, or the tip of this one.
LEMMA BottomIs ==
  ASSUME NEW t, NEW hf, TrieOK(t, hf), NEW h \in TrieHashes
  PROVE  /\ Bottom(t, h) \in Places /\ Len(Bottom(t, h)) = Depth(t, h)
         /\ \A j \in 0 .. Len(Bottom(t, h)) - 1 :
              IsBranch(t, Path(h, j)) /\ Path(Bottom(t, h), j) = Path(h, j)
         /\ ~IsBranch(t, Bottom(t, h))
         /\ Bottom(t, h) = Path(h, Len(Bottom(t, h)))
         /\ \A p \in DOMAIN t : IsTip(t, p) /\ t[p].hash = h => p = Bottom(t, h)
<1> DEFINE d == Depth(t, h)
<1>1. /\ d \in 0 .. Levels
      /\ \A j \in 0 .. d - 1 : IsBranch(t, Path(h, j))
      /\ ~IsBranch(t, Path(h, d))
  BY DepthIs
<1>2. Bottom(t, h) = Path(h, d)
  BY DEF Bottom
<1>3. /\ Path(h, d) \in Places /\ Len(Path(h, d)) = d
      /\ \A j \in 0 .. d : Path(Path(h, d), j) = Path(h, j)
  BY <1>1, PathOfHash
<1>4. ASSUME NEW p \in DOMAIN t, IsTip(t, p), t[p].hash = h PROVE p = Bottom(t, h)
  <2>1. p \in Places /\ p = Path(h, Len(p))
    BY <1>4 DEF TrieOK, TipOK, IsTip
  <2>2. Len(p) \in 0 .. Levels /\ \A j \in 0 .. Len(p) : Path(p, j) = Path(h, j)
    <3>1. Len(p) \in Nat /\ Len(p) <= Levels
      BY <2>1 DEF Places
    <3>2. Len(p) \in 0 .. Levels
      BY <3>1, LevelsAssumption
    <3>3. \A j \in 0 .. Len(p) : Path(Path(h, Len(p)), j) = Path(h, j)
      BY <3>2, PathOfHash
    <3>4. QED
      BY <2>1, <3>2, <3>3
  <2>3. \A j \in 0 .. Len(p) - 1 : IsBranch(t, Path(p, j))
    BY DEF TrieOK
  <2>4. \A j \in 0 .. Len(p) - 1 : IsBranch(t, Path(h, j))
    BY <2>2, <2>3
  <2>5. ~IsBranch(t, Path(h, Len(p)))
    BY <1>4, <2>1 DEF IsTip
  <2>6. d = Len(p)
    BY <2>2, <2>4, <2>5, DepthIs
  <2>7. QED
    BY <1>2, <2>1, <2>6
<1> HIDE DEF d
<1>5. \A j \in 0 .. d - 1 : j \in 0 .. d
  BY <1>1, LevelsAssumption
<1>6. QED
  BY <1>1, <1>2, <1>3, <1>4, <1>5 DEF d

\* A key is looked up in the tip of its hash.
LEMMA LookupAt ==
  ASSUME NEW t, NEW hf \in [Keys -> TrieHashes], TrieOK(t, hf), NEW k \in Keys,
         NEW p \in DOMAIN t, IsTip(t, p), t[p].hash = hf[k]
  PROVE  HamtLookup(t, hf[k], k) = Value(t[p].entries, k)
<1> DEFINE es   == t[p].entries
           hits == {e \in Compared(t, hf[k]) : e.key = k}
<1>1. p = Bottom(t, hf[k])
  <2>1. hf[k] \in TrieHashes
    OBVIOUS
  <2>2. QED
    BY <2>1, BottomIs
<1>2. es \in Seq(Entries) /\ Apart(es)
  BY DEF TrieOK, TipOK, IsTip
<1> HIDE DEF es
<1>3. Compared(t, hf[k]) = {es[i] : i \in DOMAIN es}
  <2>1. {q \in DOMAIN t : t[q].hash = hf[k] /\ q = Bottom(t, hf[k])} = {p}
    BY <1>1
  <2>2. Compared(t, hf[k]) = UNION {ToSet(t[q].entries) : q \in {p}}
    BY <2>1 DEF Compared
  <2>3. UNION {ToSet(t[q].entries) : q \in {p}} = ToSet(es)
    BY DEF es
  <2>4. QED
    BY <2>2, <2>3 DEF ToSet
<1>4. HamtLookup(t, hf[k], k) = IF hits = {} THEN Null ELSE (CHOOSE e \in hits : TRUE).val
  BY DEF HamtLookup
<1>5. \A e : e \in hits <=> \E i \in DOMAIN es : e = es[i] /\ es[i].key = k
  BY <1>3
<1>6. DOMAIN es = 1 .. Len(es)
  BY <1>2
<1> HIDE DEF hits
<1>7. CASE Find(es, k) = 0
  <2>1. \A i \in 1 .. Len(es) : es[i].key # k
    BY <1>2, <1>7, FindIs
  <2>2. hits = {}
    BY <1>5, <1>6, <2>1
  <2>3. QED
    BY <1>4, <1>7, <2>2 DEF Value, es
<1>8. CASE Find(es, k) # 0
  <2> DEFINE i == Find(es, k)
  <2>1. i \in 1 .. Len(es) /\ es[i].key = k
    BY <1>2, <1>8, FindIs
  <2> HIDE DEF i
  <2>2. es[i] \in hits
    BY <1>5, <1>6, <2>1
  <2>3. \A e \in hits : e = es[i]
    <3>1. ASSUME NEW e \in hits PROVE e = es[i]
      <4>1. PICK j \in 1 .. Len(es) : e = es[j] /\ es[j].key = k
        BY <1>5, <1>6
      <4>2. j = i
        BY <1>2, <1>6, <2>1, <4>1 DEF Apart
      <4>3. QED
        BY <4>1, <4>2
    <3>2. QED
      BY <3>1
  <2>4. (CHOOSE e \in hits : TRUE) = es[i]
    BY <2>2, <2>3
  <2>5. HamtLookup(t, hf[k], k) = es[i].val
    BY <1>4, <2>2, <2>4
  <2>6. Value(es, k) = es[i].val
    BY <1>8 DEF Value, i
  <2>7. QED
    BY <2>5, <2>6 DEF es
<1>9. QED
  BY <1>7, <1>8

\* A key whose hash has no tip has no value.
LEMMA LookupNone ==
  ASSUME NEW t, NEW hf \in [Keys -> TrieHashes], TrieOK(t, hf), NEW k \in Keys,
         \A p \in DOMAIN t : IsTip(t, p) => t[p].hash # hf[k]
  PROVE  HamtLookup(t, hf[k], k) = Null
<1>1. hf[k] \in TrieHashes
  OBVIOUS
<1>2. ~IsBranch(t, Bottom(t, hf[k]))
  BY <1>1, BottomIs
<1>3. {q \in DOMAIN t : t[q].hash = hf[k] /\ q = Bottom(t, hf[k])} = {}
  BY <1>2 DEF IsTip
<1>4. Compared(t, hf[k]) = {}
  BY <1>3 DEF Compared
<1>5. {e \in Compared(t, hf[k]) : e.key = k} = {}
  BY <1>4
<1>6. QED
  BY <1>5 DEF HamtLookup

\* The tip a key is looked up in, if there is one.
LEMMA LookupCases ==
  ASSUME NEW t, NEW hf \in [Keys -> TrieHashes], TrieOK(t, hf), NEW k \in Keys
  PROVE  LET p == Bottom(t, hf[k])
         IN  IF p \in DOMAIN t /\ t[p].hash = hf[k]
             THEN IsTip(t, p) /\ HamtLookup(t, hf[k], k) = Value(t[p].entries, k)
             ELSE /\ HamtLookup(t, hf[k], k) = Null
                  /\ \A q \in DOMAIN t : IsTip(t, q) => t[q].hash # hf[k]
<1> DEFINE p == Bottom(t, hf[k])
<1>1. ~IsBranch(t, p) /\ \A q \in DOMAIN t : IsTip(t, q) /\ t[q].hash = hf[k] => q = p
  <2>1. hf[k] \in TrieHashes
    OBVIOUS
  <2>2. QED
    BY <2>1, BottomIs
<1> HIDE DEF p
<1>2. CASE p \in DOMAIN t /\ t[p].hash = hf[k]
  <2>1. IsTip(t, p)
    BY <1>1, <1>2 DEF IsTip
  <2>2. QED
    BY <1>2, <2>1, LookupAt DEF p
<1>3. CASE ~(p \in DOMAIN t /\ t[p].hash = hf[k])
  <2>1. \A q \in DOMAIN t : IsTip(t, q) => t[q].hash # hf[k]
    BY <1>1, <1>3
  <2>2. HamtLookup(t, hf[k], k) = Null
    BY <2>1, LookupNone
  <2>3. QED
    BY <1>3, <2>1, <2>2 DEF p
<1>4. QED
  BY <1>2, <1>3

\* A key is looked up alike in two tries that have the same tip of its hash.
LEMMA SameLookup ==
  ASSUME NEW t, NEW u, NEW hf \in [Keys -> TrieHashes], TrieOK(t, hf), TrieOK(u, hf), NEW k \in Keys,
         \A p \in DOMAIN t : IsTip(t, p) /\ t[p].hash = hf[k] => \E q \in DOMAIN u : IsTip(u, q) /\ u[q] = t[p],
         \A q \in DOMAIN u : IsTip(u, q) /\ u[q].hash = hf[k] => \E p \in DOMAIN t : IsTip(t, p) /\ t[p].hash = hf[k]
  PROVE  HamtLookup(u, hf[k], k) = HamtLookup(t, hf[k], k)
<1>1. CASE \E p \in DOMAIN t : IsTip(t, p) /\ t[p].hash = hf[k]
  <2>1. PICK p \in DOMAIN t : IsTip(t, p) /\ t[p].hash = hf[k]
    BY <1>1
  <2>2. PICK q \in DOMAIN u : IsTip(u, q) /\ u[q] = t[p]
    BY <2>1
  <2>3. HamtLookup(t, hf[k], k) = Value(t[p].entries, k)
    BY <2>1, LookupAt
  <2>4. HamtLookup(u, hf[k], k) = Value(u[q].entries, k)
    BY <2>1, <2>2, LookupAt
  <2>5. QED
    BY <2>2, <2>3, <2>4
<1>2. CASE \A p \in DOMAIN t : IsTip(t, p) => t[p].hash # hf[k]
  <2>1. HamtLookup(t, hf[k], k) = Null
    BY <1>2, LookupNone
  <2>2. \A q \in DOMAIN u : IsTip(u, q) => u[q].hash # hf[k]
    BY <1>2
  <2>3. HamtLookup(u, hf[k], k) = Null
    BY <2>2, LookupNone
  <2>4. QED
    BY <2>1, <2>3
<1>3. QED
  BY <1>1, <1>2

\* Looked up in u, every key has the value it has in t, but k has v.
Answers(t, u, hf, k, v) ==
  \A j \in Keys : HamtLookup(u, hf[j], j) = IF j = k THEN v ELSE HamtLookup(t, hf[j], j)

\* One entry alone.
LEMMA OneEntry ==
  ASSUME NEW k \in Keys, NEW v \in Vals \cup {Unit}
  PROVE  /\ <<Entry(k, v)>> \in Seq(Entries) /\ Len(<<Entry(k, v)>>) = 1 /\ Apart(<<Entry(k, v)>>)
         /\ \A j : Value(<<Entry(k, v)>>, j) = IF j = k THEN v ELSE Null
<1> DEFINE e == Entry(k, v)
           c == <<e>>
<1>1. e \in Entries /\ e.key = k /\ e.val = v
  BY DEF Entry, Entries
<1>2. c \in Seq(Entries) /\ Len(c) = 1 /\ c[1] = e /\ DOMAIN c = {1}
  <2> HIDE DEF e
  <2>1. QED
    BY <1>1
<1> HIDE DEF c, e
<1>3. Apart(c)
  BY <1>2 DEF Apart
<1>4. Value(c, k) = v
  <2>1. 1 \in 1 .. Len(c) /\ c[1].key = k /\ c[1].val = v
    BY <1>1, <1>2
  <2>2. Value(c, c[1].key) = c[1].val
    BY <1>2, <1>3, <2>1, FindAt
  <2>3. QED
    BY <2>1, <2>2
<1>5. ASSUME NEW j, j # k PROVE Value(c, j) = Null
  <2>1. \A i \in 1 .. Len(c) : c[i].key # j
    BY <1>1, <1>2, <1>5
  <2>2. QED
    BY <1>2, <2>1, ValueNone
<1>6. QED
  BY <1>2, <1>3, <1>4, <1>5 DEF c, e

\* A leaf is a tip as it should be.
LEMMA LeafIs ==
  ASSUME NEW hf \in [Keys -> TrieHashes], NEW k \in Keys, NEW v \in Vals \cup {Unit},
         NEW t, NEW p \in DOMAIN t, t[p] = Leaf(hf[k], Entry(k, v)), p = Path(hf[k], Len(p))
  PROVE  TipOK(t, p, hf) /\ IsTip(t, p) /\ t[p].hash = hf[k] /\ t[p].entries = <<Entry(k, v)>>
<1> DEFINE c == <<Entry(k, v)>>
<1>1. c \in Seq(Entries) /\ Len(c) = 1 /\ Apart(c)
  BY OneEntry
<1>2. c[1].key = k
  BY DEF Entry
<1> HIDE DEF c
<1>3. t[p] = [kind |-> "leaf", hash |-> hf[k], entries |-> c]
  BY DEF Leaf, c
<1>4. t[p].kind = "leaf" /\ t[p].hash = hf[k] /\ t[p].entries = c
  BY <1>3
<1>5. \A i \in 1 .. Len(c) : hf[c[i].key] = hf[k]
  BY <1>1, <1>2
<1>6. TipOK(t, p, hf)
  BY <1>1, <1>3, <1>4, <1>5 DEF TipOK
<1>7. IsTip(t, p)
  BY <1>4 DEF IsTip, IsBranch
<1>8. QED
  BY <1>4, <1>6, <1>7 DEF c

\* A new leaf answers for its key, and what the other tips hold stays.
LEMMA AddedLeaf ==
  ASSUME NEW t, NEW u, NEW hf \in [Keys -> TrieHashes], TrieOK(t, hf), TrieOK(u, hf),
         NEW k \in Keys, NEW v \in Vals \cup {Unit},
         \A p \in DOMAIN t : IsTip(t, p) => t[p].hash # hf[k],
         NEW new \in DOMAIN u, u[new] = Leaf(hf[k], Entry(k, v)), IsTip(u, new),
         \A p \in DOMAIN t : IsTip(t, p) => \E q \in DOMAIN u : IsTip(u, q) /\ u[q] = t[p],
         \A q \in DOMAIN u : IsTip(u, q) /\ q # new => \E p \in DOMAIN t : IsTip(t, p) /\ t[p] = u[q]
  PROVE  Answers(t, u, hf, k, v)
<1>1. u[new].hash = hf[k] /\ u[new].entries = <<Entry(k, v)>>
  BY DEF Leaf
<1>2. ASSUME NEW j \in Keys, hf[j] = hf[k]
      PROVE  HamtLookup(u, hf[j], j) = IF j = k THEN v ELSE HamtLookup(t, hf[j], j)
  <2>1. HamtLookup(t, hf[j], j) = Null
    BY <1>2, LookupNone
  <2>2. HamtLookup(u, hf[j], j) = Value(u[new].entries, j)
    BY <1>1, <1>2, LookupAt
  <2>3. Value(<<Entry(k, v)>>, j) = IF j = k THEN v ELSE Null
    BY OneEntry
  <2>4. QED
    BY <1>1, <2>1, <2>2, <2>3
<1>3. ASSUME NEW j \in Keys, hf[j] # hf[k]
      PROVE  HamtLookup(u, hf[j], j) = HamtLookup(t, hf[j], j)
  <2>1. \A p \in DOMAIN t : IsTip(t, p) /\ t[p].hash = hf[j] => \E q \in DOMAIN u : IsTip(u, q) /\ u[q] = t[p]
    OBVIOUS
  <2>2. \A q \in DOMAIN u : IsTip(u, q) /\ u[q].hash = hf[j] => \E p \in DOMAIN t : IsTip(t, p) /\ t[p].hash = hf[j]
    <3>1. ASSUME NEW q \in DOMAIN u, IsTip(u, q), u[q].hash = hf[j]
          PROVE  \E p \in DOMAIN t : IsTip(t, p) /\ t[p].hash = hf[j]
      <4>1. q # new
        BY <1>1, <1>3, <3>1
      <4>2. QED
        BY <3>1, <4>1
    <3>2. QED
      BY <3>1
  <2>3. QED
    BY <2>1, <2>2, SameLookup
<1>4. QED
  BY <1>2, <1>3 DEF Answers

\* A leaf where the descent finds no node.
LEMMA LeafInserted ==
  ASSUME NEW t, NEW hf \in [Keys -> TrieHashes], TrieOK(t, hf), NEW k \in Keys, NEW v \in Vals \cup {Unit},
         Bottom(t, hf[k]) \notin DOMAIN t
  PROVE  LET u == With(t, Bottom(t, hf[k]), Leaf(hf[k], Entry(k, v)))
         IN  TrieOK(u, hf) /\ Answers(t, u, hf, k, v)
<1> DEFINE h == hf[k]
           p == Bottom(t, h)
           l == Leaf(h, Entry(k, v))
           u == With(t, p, l)
<1>1. h \in TrieHashes /\ p \notin DOMAIN t
  OBVIOUS
<1>2. /\ p \in Places /\ p = Path(h, Len(p))
      /\ \A j \in 0 .. Len(p) - 1 : IsBranch(t, Path(h, j)) /\ Path(p, j) = Path(h, j)
  BY <1>1, BottomIs
<1>3. \A q \in DOMAIN t : IsTip(t, q) => t[q].hash # h
  BY <1>1, LookupCases
<1> HIDE DEF p
<1>4. /\ DOMAIN u = DOMAIN t \cup {p} /\ u[p] = l
      /\ \A q \in DOMAIN t : u[q] = t[q]
  BY <1>1 DEF With
<1>5. l.kind = "leaf"
  BY DEF Leaf
<1> HIDE DEF u, l
<1>6. \A q : IsBranch(u, q) <=> IsBranch(t, q)
  BY <1>1, <1>4, <1>5 DEF IsBranch
<1>7. TrieOK(u, hf)
  <2>1. DOMAIN u \subseteq Places
    BY <1>2, <1>4 DEF TrieOK
  <2>2. ASSUME NEW q \in DOMAIN u, NEW d \in 0 .. Len(q) - 1 PROVE IsBranch(u, Path(q, d))
    <3>1. CASE q \in DOMAIN t
      BY <1>6, <3>1 DEF TrieOK
    <3>2. CASE q = p
      BY <1>2, <1>6, <3>2
    <3>3. QED
      BY <1>4, <3>1, <3>2
  <2>3. ASSUME NEW q \in DOMAIN t, IsBranch(t, q) PROVE BranchOK(u, q)
    <3>1. BranchOK(t, q)
      BY <2>3 DEF TrieOK
    <3>2. Below(t, q) \subseteq Below(u, q)
      BY <1>4 DEF Below
    <3>3. QED
      BY <1>4, <3>1, <3>2 DEF BranchOK
  <2>4. ASSUME NEW q \in DOMAIN t, ~IsBranch(t, q) PROVE TipOK(u, q, hf)
    <3>1. TipOK(t, q, hf)
      BY <2>4 DEF TrieOK
    <3>2. QED
      BY <1>4, <3>1 DEF TipOK
  <2>5. TipOK(u, p, hf)
    BY <1>2, <1>4, LeafIs DEF l
  <2>6. QED
    BY <1>1, <1>4, <1>6, <2>1, <2>2, <2>3, <2>4, <2>5 DEF TrieOK, IsBranch
<1>8. Answers(t, u, hf, k, v)
  <2>1. p \in DOMAIN u /\ u[p] = Leaf(hf[k], Entry(k, v)) /\ IsTip(u, p)
    BY <1>1, <1>4, <1>6 DEF l, IsTip, IsBranch
  <2>2. \A q \in DOMAIN t : IsTip(t, q) => \E r \in DOMAIN u : IsTip(u, r) /\ u[r] = t[q]
    BY <1>4, <1>6 DEF IsTip
  <2>3. \A r \in DOMAIN u : IsTip(u, r) /\ r # p => \E q \in DOMAIN t : IsTip(t, q) /\ t[q] = u[r]
    BY <1>4, <1>6 DEF IsTip
  <2>4. QED
    BY <1>3, <1>7, <2>1, <2>2, <2>3, AddedLeaf
<1>9. QED
  BY <1>7, <1>8 DEF u, l, p

\* Another tip of the same hash at the same place.
LEMMA TipReplaced ==
  ASSUME NEW t, NEW hf \in [Keys -> TrieHashes], TrieOK(t, hf), NEW k \in Keys, NEW v,
         NEW p \in DOMAIN t, IsTip(t, p), t[p].hash = hf[k],
         NEW node, node = [kind |-> node.kind, hash |-> node.hash, entries |-> node.entries],
         node.hash = hf[k], node.kind \in {"leaf", "collision"},
         IF node.kind = "leaf" THEN Len(node.entries) = 1 ELSE Len(node.entries) > 1,
         \A i \in 1 .. Len(node.entries) : hf[node.entries[i].key] = hf[k],
         Changed(t[p].entries, node.entries, k, v)
  PROVE  TrieOK(With(t, p, node), hf) /\ Answers(t, With(t, p, node), hf, k, v)
<1> DEFINE u == With(t, p, node)
<1>1. DOMAIN u = DOMAIN t /\ u[p] = node /\ \A q \in DOMAIN t : q # p => u[q] = t[q]
  BY DEF With
<1> HIDE DEF u
<1>2. \A q : IsBranch(u, q) <=> IsBranch(t, q)
  BY <1>1 DEF IsBranch, IsTip
<1>3. TipOK(t, p, hf)
  BY DEF TrieOK, IsTip
<1>4. TrieOK(u, hf)
  <2>1. DOMAIN u \subseteq Places
    BY <1>1 DEF TrieOK
  <2>2. \A q \in DOMAIN u : \A d \in 0 .. Len(q) - 1 : IsBranch(u, Path(q, d))
    BY <1>1, <1>2 DEF TrieOK
  <2>3. ASSUME NEW q \in DOMAIN t, IsBranch(t, q) PROVE BranchOK(u, q)
    <3>1. BranchOK(t, q)
      BY <2>3 DEF TrieOK
    <3>2. Below(t, q) = Below(u, q) /\ u[q] = t[q]
      BY <1>1, <2>3 DEF Below, IsTip
    <3>3. QED
      BY <3>1, <3>2 DEF BranchOK
  <2>4. ASSUME NEW q \in DOMAIN t, ~IsBranch(t, q) PROVE TipOK(u, q, hf)
    <3>1. TipOK(t, q, hf)
      BY <2>4 DEF TrieOK
    <3>2. CASE q # p
      BY <1>1, <3>1, <3>2 DEF TipOK
    <3>3. CASE q = p
      BY <1>1, <1>3, <3>3 DEF TipOK, Changed
    <3>4. QED
      BY <3>2, <3>3
  <2>5. QED
    BY <1>1, <1>2, <2>1, <2>2, <2>3, <2>4 DEF TrieOK
<1>5. ASSUME NEW j \in Keys
      PROVE  HamtLookup(u, hf[j], j) = IF j = k THEN v ELSE HamtLookup(t, hf[j], j)
  <2>1. CASE hf[j] = hf[k]
    <3>1. HamtLookup(t, hf[j], j) = Value(t[p].entries, j)
      BY <2>1, LookupAt
    <3>2. p \in DOMAIN u /\ IsTip(u, p) /\ u[p].hash = hf[j]
      BY <1>1, <1>2, <2>1 DEF IsTip
    <3>3. HamtLookup(u, hf[j], j) = Value(u[p].entries, j)
      BY <1>4, <3>2, LookupAt
    <3>4. Value(node.entries, j) = IF j = k THEN v ELSE Value(t[p].entries, j)
      BY DEF Changed
    <3>5. QED
      BY <1>1, <3>1, <3>3, <3>4
  <2>2. CASE hf[j] # hf[k]
    <3>1. \A q \in DOMAIN t : IsTip(t, q) /\ t[q].hash = hf[j] => \E r \in DOMAIN u : IsTip(u, r) /\ u[r] = t[q]
      <4>1. ASSUME NEW q \in DOMAIN t, IsTip(t, q), t[q].hash = hf[j] PROVE IsTip(u, q) /\ u[q] = t[q]
        BY <1>1, <1>2, <2>2, <4>1 DEF IsTip
      <4>2. QED
        BY <1>1, <4>1
    <3>2. \A q \in DOMAIN u : IsTip(u, q) /\ u[q].hash = hf[j] => \E r \in DOMAIN t : IsTip(t, r) /\ t[r].hash = hf[j]
      <4>1. ASSUME NEW q \in DOMAIN u, IsTip(u, q), u[q].hash = hf[j] PROVE IsTip(t, q) /\ t[q].hash = hf[j]
        BY <1>1, <1>2, <2>2, <4>1 DEF IsTip
      <4>2. QED
        BY <1>1, <4>1
    <3>3. HamtLookup(u, hf[j], j) = HamtLookup(t, hf[j], j)
      BY <1>4, <3>1, <3>2, SameLookup
    <3>4. QED
      BY <2>2, <3>3
  <2>3. QED
    BY <2>1, <2>2
<1>6. QED
  BY <1>4, <1>5 DEF Answers, u

\* An entry put into a leaf or a collision node of its hash.
LEMMA TipJoined ==
  ASSUME NEW t, NEW hf \in [Keys -> TrieHashes], TrieOK(t, hf), NEW k \in Keys, NEW v \in Vals \cup {Unit},
         NEW p \in DOMAIN t, IsTip(t, p), t[p].hash = hf[k]
  PROVE  LET u == With(t, p, Joined(t[p], Entry(k, v)))
         IN  TrieOK(u, hf) /\ Answers(t, u, hf, k, v)
<1> DEFINE es   == t[p].entries
           e    == Entry(k, v)
           node == Joined(t[p], e)
           i    == Find(es, k)
<1>1. TipOK(t, p, hf)
  BY DEF TrieOK, IsTip
<1>2. /\ es \in Seq(Entries) /\ Apart(es) /\ Len(es) \in Nat /\ Len(es) >= 1
      /\ \A n \in 1 .. Len(es) : hf[es[n].key] = hf[k]
      /\ t[p] = [kind |-> t[p].kind, hash |-> hf[k], entries |-> es]
      /\ t[p].kind \in {"leaf", "collision"}
      /\ IF t[p].kind = "leaf" THEN Len(es) = 1 ELSE Len(es) > 1
  <2>1. es \in Seq(Entries) /\ Apart(es) /\ \A n \in 1 .. Len(es) : hf[es[n].key] = hf[k]
    BY <1>1 DEF TipOK
  <2>2. /\ t[p].kind \in {"leaf", "collision"}
        /\ IF t[p].kind = "leaf" THEN Len(es) = 1 ELSE Len(es) > 1
    BY <1>1 DEF TipOK
  <2>3. t[p] = [kind |-> t[p].kind, hash |-> hf[k], entries |-> es]
    BY <1>1 DEF TipOK
  <2>4. Len(es) \in Nat
    BY <2>1
  <2> HIDE DEF es
  <2>5. QED
    BY <2>1, <2>2, <2>3, <2>4
<1>3. e \in Entries /\ e.key = k
  BY DEF Entry, Entries
<1>4. node = IF i = 0 THEN Collision(hf[k], Append(es, e)) ELSE [t[p] EXCEPT !.entries[i] = e]
  BY <1>3 DEF Joined
<1> HIDE DEF es, node, i
<1>5. CASE i = 0
  <2> DEFINE fs == Append(es, e)
  <2>1. \A n \in 1 .. Len(es) : es[n].key # k
    BY <1>2, <1>5, FindIs DEF i
  <2>2. Changed(es, fs, k, v)
    BY <1>2, <2>1, Appended
  <2>3. Len(fs) = Len(es) + 1 /\ (\A n \in 1 .. Len(es) : fs[n] = es[n]) /\ fs[Len(es) + 1] = e
    <3> HIDE DEF e
    <3>1. QED
      BY <1>2, <1>3, AppendProperties
  <2> HIDE DEF fs, e
  <2>4. \A n \in 1 .. Len(fs) : hf[fs[n].key] = hf[k]
    <3>1. ASSUME NEW n \in 1 .. Len(fs) PROVE hf[fs[n].key] = hf[k]
      <4>1. n \in 1 .. Len(es) \/ n = Len(es) + 1
        BY <1>2, <2>3
      <4>2. QED
        BY <1>2, <1>3, <2>3, <4>1
    <3>2. QED
      BY <3>1
  <2>5. node = [kind |-> "collision", hash |-> hf[k], entries |-> fs]
    BY <1>4, <1>5 DEF Collision, fs
  <2>6. node.kind = "collision" /\ node.hash = hf[k] /\ node.entries = fs /\ Len(fs) > 1
    BY <1>2, <2>3, <2>5
  <2>7. TrieOK(With(t, p, node), hf) /\ Answers(t, With(t, p, node), hf, k, v)
    <3>1. node = [kind |-> node.kind, hash |-> node.hash, entries |-> node.entries]
      BY <2>5, <2>6
    <3>2. node.kind \in {"leaf", "collision"} /\ (IF node.kind = "leaf" THEN Len(node.entries) = 1 ELSE Len(node.entries) > 1)
      BY <2>6
    <3>3. Changed(t[p].entries, node.entries, k, v)
      BY <2>2, <2>6 DEF es
    <3>4. \A n \in 1 .. Len(node.entries) : hf[node.entries[n].key] = hf[k]
      BY <2>4, <2>6
    <3>5. QED
      BY <2>6, <3>1, <3>2, <3>3, <3>4, TipReplaced
  <2>8. QED
    BY <2>7 DEF node, e
<1>6. CASE i # 0
  <2> DEFINE fs == [es EXCEPT ![i] = e]
  <2>1. i \in 1 .. Len(es) /\ es[i].key = k
    BY <1>2, <1>6, FindIs DEF i
  <2>2. DOMAIN es = 1 .. Len(es)
    BY <1>2
  <2>3. fs \in Seq(Entries) /\ Len(fs) = Len(es)
    <3> HIDE DEF e
    <3>1. QED
      BY <1>2, <1>3, <2>1
  <2>4. \A n \in 1 .. Len(es) : fs[n] = IF n = i THEN e ELSE es[n]
    BY <2>2
  <2>5. Changed(es, fs, k, v)
    <3>1. \A n \in 1 .. Len(es) : fs[n] = IF n = i THEN Entry(es[i].key, v) ELSE es[n]
      BY <2>1, <2>4
    <3> HIDE DEF fs
    <3>2. Changed(es, fs, es[i].key, v)
      BY <1>2, <2>1, <2>3, <3>1, Updated
    <3>3. QED
      BY <2>1, <3>2
  <2> HIDE DEF fs, e
  <2>6. \A n \in 1 .. Len(fs) : hf[fs[n].key] = hf[k]
    BY <1>2, <1>3, <2>3, <2>4
  <2>7. node = [kind |-> t[p].kind, hash |-> hf[k], entries |-> fs]
    <3>1. node = [t[p] EXCEPT !.entries = [t[p].entries EXCEPT ![i] = e]]
      BY <1>4, <1>6
    <3>2. t[p].entries = es
      BY DEF es
    <3>3. QED
      BY <1>2, <3>1, <3>2 DEF fs
  <2>8. node.kind = t[p].kind /\ node.hash = hf[k] /\ node.entries = fs
    BY <2>7
  <2>9. TrieOK(With(t, p, node), hf) /\ Answers(t, With(t, p, node), hf, k, v)
    <3>1. node = [kind |-> node.kind, hash |-> node.hash, entries |-> node.entries]
      BY <2>7, <2>8
    <3>2. node.kind \in {"leaf", "collision"} /\ (IF node.kind = "leaf" THEN Len(node.entries) = 1 ELSE Len(node.entries) > 1)
      BY <1>2, <2>3, <2>8
    <3>3. Changed(t[p].entries, node.entries, k, v)
      BY <2>5, <2>8 DEF es
    <3>4. \A n \in 1 .. Len(node.entries) : hf[node.entries[n].key] = hf[k]
      BY <2>6, <2>8
    <3>5. QED
      BY <2>8, <3>1, <3>2, <3>3, <3>4, TipReplaced
  <2>10. QED
    BY <2>9 DEF node, e
<1>7. QED
  BY <1>5, <1>6

\* An entry taken out of a collision node.
LEMMA TipLeft ==
  ASSUME NEW t, NEW hf \in [Keys -> TrieHashes], TrieOK(t, hf), NEW k \in Keys,
         NEW p \in DOMAIN t, IsTip(t, p), t[p].hash = hf[k],
         Find(t[p].entries, k) # 0, Len(t[p].entries) # 1
  PROVE  LET u == With(t, p, Left(t[p], Find(t[p].entries, k)))
         IN  TrieOK(u, hf) /\ Answers(t, u, hf, k, Null)
<1> DEFINE es   == t[p].entries
           i    == Find(es, k)
           fs   == RemoveAt(es, i)
           node == Left(t[p], i)
<1>1. TipOK(t, p, hf)
  BY DEF TrieOK, IsTip
<1>2. /\ es \in Seq(Entries) /\ Apart(es) /\ Len(es) \in Nat /\ Len(es) > 1
      /\ \A n \in 1 .. Len(es) : hf[es[n].key] = hf[k]
  BY <1>1 DEF TipOK
<1>3. i \in 1 .. Len(es) /\ es[i].key = k
  BY <1>2, FindIs
<1>4. node = IF Len(fs) = 1 THEN Leaf(hf[k], fs[1]) ELSE Collision(hf[k], fs)
  BY DEF Left
<1> HIDE DEF es, i, node, fs
<1>5. /\ fs \in Seq(Entries) /\ Len(fs) = Len(es) - 1
      /\ \A n \in 1 .. Len(es) - 1 : fs[n] = IF n < i THEN es[n] ELSE es[n + 1]
  BY <1>2, <1>3, RemoveAtIs DEF fs
<1>6. Changed(es, fs, k, Null)
  <2>1. Changed(es, RemoveAt(es, i), es[i].key, Null)
    BY <1>2, <1>3, Removed
  <2>2. QED
    BY <1>3, <2>1 DEF fs
<1>7. ASSUME NEW n \in 1 .. Len(fs) PROVE hf[fs[n].key] = hf[k]
  <2>1. n \in 1 .. Len(es) /\ n + 1 \in 1 .. Len(es) /\ n \in 1 .. Len(es) - 1
    BY <1>2, <1>5
  <2>2. QED
    BY <1>2, <1>5, <2>1
<1>8. /\ node.hash = hf[k] /\ node.entries = fs /\ node.kind \in {"leaf", "collision"}
      /\ IF node.kind = "leaf" THEN Len(fs) = 1 ELSE Len(fs) > 1
      /\ node = [kind |-> node.kind, hash |-> node.hash, entries |-> node.entries]
  <2>1. CASE Len(fs) = 1
    <3>1. fs = <<fs[1]>>
      BY <1>5, <2>1
    <3>2. node = [kind |-> "leaf", hash |-> hf[k], entries |-> fs]
      BY <1>4, <2>1, <3>1 DEF Leaf
    <3>3. QED
      BY <2>1, <3>2
  <2>2. CASE Len(fs) # 1
    <3>1. node = [kind |-> "collision", hash |-> hf[k], entries |-> fs]
      BY <1>4, <2>2 DEF Collision
    <3>2. Len(fs) > 1
      BY <1>2, <1>5, <2>2
    <3>3. QED
      BY <3>1, <3>2
  <2>3. QED
    BY <2>1, <2>2
<1>9. TrieOK(With(t, p, node), hf) /\ Answers(t, With(t, p, node), hf, k, Null)
  <2>1. Changed(t[p].entries, node.entries, k, Null)
    BY <1>6, <1>8 DEF es
  <2>2. \A n \in 1 .. Len(node.entries) : hf[node.entries[n].key] = hf[k]
    BY <1>7, <1>8
  <2>3. IF node.kind = "leaf" THEN Len(node.entries) = 1 ELSE Len(node.entries) > 1
    BY <1>8
  <2>4. QED
    BY <1>8, <2>1, <2>2, <2>3, TipReplaced
<1>10. QED
  BY <1>9 DEF node, i, es

\* Two hashes that differ part at a slice: the first where they do.
LEMMA PartIs ==
  ASSUME NEW g \in TrieHashes, NEW h \in TrieHashes, g # h,
         NEW n \in 0 .. Levels, Path(g, n) = Path(h, n)
  PROVE  LET part == CHOOSE d \in n .. Levels - 1 : Path(g, d) = Path(h, d) /\ g[d + 1] # h[d + 1]
         IN  part \in n .. Levels - 1 /\ Path(g, part) = Path(h, part) /\ g[part + 1] # h[part + 1]
<1> DEFINE S == {i \in 1 .. Levels : g[i] # h[i]}
           d == Min(S) - 1
<1>1. Levels \in Nat /\ n \in Nat
  BY LevelsAssumption
<1>2. S # {}
  <2>1. SUFFICES ASSUME \A i \in 1 .. Levels : g[i] = h[i] PROVE FALSE
    OBVIOUS
  <2>2. DOMAIN g = 1 .. Levels /\ DOMAIN h = 1 .. Levels
    BY DEF TrieHashes
  <2>3. g = [i \in 1 .. Levels |-> g[i]] /\ h = [i \in 1 .. Levels |-> h[i]]
    BY <2>2 DEF TrieHashes
  <2>4. [i \in 1 .. Levels |-> g[i]] = [i \in 1 .. Levels |-> h[i]]
    BY <2>1
  <2>5. QED
    BY <2>3, <2>4
<1>3. Min(S) \in S /\ \A x \in S : Min(S) <= x
  <2>1. S \subseteq Nat
    OBVIOUS
  <2> HIDE DEF S
  <2>2. QED
    BY <1>2, <2>1, MinIs
<1>4. Min(S) \in 1 .. Levels /\ g[Min(S)] # h[Min(S)]
  BY <1>3
<1>5. \A i \in 1 .. n : g[i] = h[i]
  BY <1>1, SamePath
<1>6. ~(Min(S) <= n)
  BY <1>1, <1>4, <1>5
<1>7. d \in n .. Levels - 1 /\ d + 1 = Min(S)
  BY <1>1, <1>4, <1>6
<1>8. Path(g, d) = Path(h, d)
  <2>1. ASSUME NEW i \in 1 .. d PROVE g[i] = h[i]
    <3>1. i \in 1 .. Levels /\ ~(Min(S) <= i)
      BY <1>1, <1>4, <1>7
    <3>2. i \notin S
      BY <1>3, <3>1
    <3>3. QED
      BY <3>1, <3>2
  <2>2. d \in Nat
    BY <1>1, <1>7
  <2> HIDE DEF d
  <2>3. QED
    BY <2>1, <2>2, SamePath
<1>9. \E c \in n .. Levels - 1 : Path(g, c) = Path(h, c) /\ g[c + 1] # h[c + 1]
  <2> HIDE DEF d, S
  <2>1. QED
    BY <1>4, <1>7, <1>8
<1>10. QED
  BY <1>9

\* Branches down to where the hashes part, and the two tips below.
LEMMA TipsMerged ==
  ASSUME NEW t, NEW hf \in [Keys -> TrieHashes], TrieOK(t, hf), NEW k \in Keys, NEW v \in Vals \cup {Unit},
         Bottom(t, hf[k]) \in DOMAIN t, t[Bottom(t, hf[k])].hash # hf[k]
  PROVE  LET u == Merge(t, Bottom(t, hf[k]), hf[k], Entry(k, v))
         IN  TrieOK(u, hf) /\ Answers(t, u, hf, k, v)
<1> DEFINE h     == hf[k]
           p     == Bottom(t, h)
           l     == Leaf(h, Entry(k, v))
           node  == t[p]
           g     == node.hash
           part  == CHOOSE d \in Len(p) .. Levels - 1 : Path(g, d) = Path(h, d) /\ g[d + 1] # h[d + 1]
           old   == Path(g, part + 1)
           new   == Path(h, part + 1)
           chain == {Path(h, d) : d \in Len(p) .. part}
           u     == Merge(t, p, h, Entry(k, v))
<1>1. h \in TrieHashes /\ p \in DOMAIN t /\ g # h /\ Levels \in Nat
  BY LevelsAssumption
<1>2. /\ p \in Places /\ p = Path(h, Len(p)) /\ ~IsBranch(t, p)
      /\ \A j \in 0 .. Len(p) - 1 : IsBranch(t, Path(h, j))
  BY <1>1, BottomIs
<1>3. \A q \in DOMAIN t : IsTip(t, q) => t[q].hash # h
  BY <1>1, LookupCases
<1>4. TipOK(t, p, hf)
  BY <1>1, <1>2 DEF TrieOK
<1>5. g \in TrieHashes /\ p = Path(g, Len(p)) /\ node.kind \in {"leaf", "collision"}
  BY <1>4 DEF TipOK
<1>6. Len(p) \in 0 .. Levels
  BY <1>1, <1>2 DEF Places
<1>7. u = [q \in DOMAIN t \cup chain \cup {old, new} |->
             IF q = new THEN l ELSE IF q = old THEN node ELSE IF q \in chain THEN Branch ELSE t[q]]
  BY DEF Merge
<1>8. part \in Len(p) .. Levels - 1 /\ Path(g, part) = Path(h, part) /\ g[part + 1] # h[part + 1]
  <2>1. Path(g, Len(p)) = Path(h, Len(p))
    BY <1>2, <1>5
  <2> HIDE DEF g, p, h
  <2>2. QED
    BY <1>1, <1>5, <1>6, <2>1, PartIs
<1> HIDE DEF p, g, part, node, l
<1>9. part \in Nat /\ part + 1 \in 0 .. Levels /\ part \in 0 .. Levels /\ Len(p) \in Nat /\ Len(p) <= part
  BY <1>1, <1>6, <1>8
<1>10. \A d \in 0 .. part + 1 : /\ Path(h, d) \in Places /\ Len(Path(h, d)) = d
                                /\ \A j \in 0 .. d : Path(Path(h, d), j) = Path(h, j)
  <2>1. \A d \in 0 .. part + 1 : d \in 0 .. Levels
    BY <1>1, <1>9
  <2>2. QED
    BY <1>1, <2>1, PathOfHash
<1>11. new \in Places /\ Len(new) = part + 1 /\ \A j \in 0 .. part + 1 : Path(new, j) = Path(h, j)
  <2>1. part + 1 \in 0 .. part + 1
    BY <1>9
  <2>2. QED
    BY <1>10, <2>1
<1>12. old \in Places /\ Len(old) = part + 1 /\ \A j \in 0 .. part : Path(old, j) = Path(h, j)
  <2>1. /\ old \in Places /\ Len(old) = part + 1
        /\ \A j \in 0 .. part + 1 : Path(old, j) = Path(g, j)
    BY <1>5, <1>9, PathOfHash
  <2>2. ASSUME NEW j \in 0 .. part PROVE Path(g, j) = Path(h, j)
    <3>1. /\ \A i \in 0 .. part : Path(Path(g, part), i) = Path(g, i)
          /\ \A i \in 0 .. part : Path(Path(h, part), i) = Path(h, i)
      BY <1>1, <1>5, <1>9, PathOfHash
    <3>2. QED
      BY <1>8, <3>1
  <2>3. \A j \in 0 .. part : j \in 0 .. part + 1
    BY <1>9
  <2>4. QED
    BY <2>1, <2>2, <2>3
<1>13. old # new
  <2>1. part + 1 \in 1 .. part + 1 /\ part + 1 \in Nat
    BY <1>9
  <2>2. QED
    BY <1>8, <2>1, SamePath
<1>14. \A q \in chain : \E d \in Len(p) .. part : d \in 0 .. part /\ q = Path(h, d) /\ Len(q) = d /\ q # new /\ q # old
  <2>1. ASSUME NEW d \in Len(p) .. part
        PROVE  d \in 0 .. part /\ d \in 0 .. part + 1 /\ d # part + 1
    BY <1>9
  <2>2. QED
    BY <1>10, <1>11, <1>12, <2>1
<1>15. p \in chain
  BY <1>2, <1>9
<1>16. ASSUME NEW q \in DOMAIN t, Len(q) > Len(p), Path(q, Len(p)) = p PROVE FALSE
  <2>1. q \in Places
    BY DEF TrieOK
  <2>2. Len(q) \in Nat
    BY <2>1 DEF Places
  <2>3. Len(p) \in 0 .. Len(q) - 1
    BY <1>9, <1>16, <2>2
  <2>4. IsBranch(t, Path(q, Len(p)))
    BY <2>3 DEF TrieOK
  <2>5. QED
    BY <1>2, <1>16, <2>4
<1>17. new \notin DOMAIN t /\ old \notin DOMAIN t /\ \A q \in chain : q \in DOMAIN t => q = p
  <2>1. Len(p) \in 0 .. part + 1 /\ Len(p) \in 0 .. part /\ part + 1 > Len(p)
    BY <1>9
  <2>2. Path(new, Len(p)) = p /\ Path(old, Len(p)) = p
    BY <1>2, <1>11, <1>12, <2>1
  <2>3. ASSUME NEW q \in chain, q \in DOMAIN t PROVE q = p
    <3>1. PICK d \in Len(p) .. part : q = Path(h, d) /\ Len(q) = d
      BY <1>14
    <3>2. CASE d = Len(p)
      BY <1>2, <3>1, <3>2
    <3>3. CASE d # Len(p)
      <4>1. d > Len(p) /\ Len(p) \in 0 .. d /\ d \in 0 .. part + 1
        BY <1>9, <3>3
      <4>2. Path(q, Len(p)) = p
        BY <1>2, <1>10, <3>1, <4>1
      <4>3. QED
        BY <1>16, <2>3, <3>1, <4>1, <4>2
    <3>4. QED
      BY <3>2, <3>3
  <2>4. QED
    BY <1>11, <1>12, <1>16, <2>1, <2>2, <2>3
<1>18. \A d \in Len(p) .. part : Path(h, d) \in chain
  OBVIOUS
<1> HIDE DEF chain, new, old, h
<1>19. /\ DOMAIN u = DOMAIN t \cup chain \cup {old, new}
       /\ u[new] = l /\ u[old] = node
       /\ \A q \in chain : u[q] = Branch
       /\ \A q \in DOMAIN t : q # p => u[q] = t[q]
  <2>1. \A q \in chain : q # new /\ q # old
    BY <1>14
  <2>2. \A q \in DOMAIN t : q # p => q # new /\ q # old /\ q \notin chain
    BY <1>17
  <2> HIDE DEF u
  <2>3. QED
    BY <1>7, <1>13, <2>1, <2>2
<1> HIDE DEF u
<1>20. l.kind = "leaf" /\ Branch.kind = "branch"
  BY DEF l, Leaf, Branch
<1>21. \A q : IsBranch(u, q) <=> q \in chain \/ IsBranch(t, q)
  <2>1. ~IsBranch(u, new) /\ ~IsBranch(u, old) /\ ~IsBranch(t, new) /\ ~IsBranch(t, old)
    BY <1>5, <1>17, <1>19, <1>20 DEF IsBranch
  <2>2. \A q \in chain : IsBranch(u, q)
    BY <1>19, <1>20 DEF IsBranch
  <2>3. \A q \in DOMAIN t : q # p => (IsBranch(u, q) <=> IsBranch(t, q))
    BY <1>19 DEF IsBranch
  <2>4. \A q : q \notin DOMAIN u => ~IsBranch(u, q)
    BY DEF IsBranch
  <2>5. \A q : q \notin DOMAIN t => ~IsBranch(t, q)
    BY DEF IsBranch
  <2>6. new \notin chain /\ old \notin chain
    BY <1>14
  <2>7. QED
    BY <1>15, <1>19, <2>1, <2>2, <2>3, <2>4, <2>5, <2>6
<1>22. \A d \in 0 .. part : IsBranch(u, Path(h, d))
  <2>1. ASSUME NEW d \in 0 .. part PROVE IsBranch(u, Path(h, d))
    <3>1. d \in Len(p) .. part \/ d \in 0 .. Len(p) - 1
      BY <1>9
    <3>2. QED
      BY <1>2, <1>18, <1>21, <3>1 DEF h
  <2>2. QED
    BY <2>1
<1>23. TrieOK(u, hf)
  <2>1. DOMAIN u \subseteq Places
    <3>1. \A q \in chain : q \in Places
      <4>1. ASSUME NEW q \in chain PROVE q \in Places
        <5>1. PICK d \in Len(p) .. part : d \in 0 .. part /\ q = Path(h, d)
          BY <1>14
        <5>2. d \in 0 .. part + 1
          BY <1>9
        <5>3. QED
          BY <1>10, <5>1, <5>2
      <4>2. QED
        BY <4>1
    <3>2. DOMAIN t \subseteq Places
      BY DEF TrieOK
    <3>3. QED
      BY <1>11, <1>12, <1>19, <3>1, <3>2
  <2>2. ASSUME NEW q \in DOMAIN u, NEW d \in 0 .. Len(q) - 1 PROVE IsBranch(u, Path(q, d))
    <3>1. CASE q \in DOMAIN t
      BY <1>21, <3>1 DEF TrieOK
    <3>2. CASE q \in chain
      <4>1. PICK c \in 0 .. part : q = Path(h, c) /\ Len(q) = c
        BY <1>14, <3>2
      <4>2. d \in 0 .. c /\ d \in 0 .. part /\ c \in 0 .. part + 1
        BY <1>9, <4>1
      <4>3. Path(q, d) = Path(h, d)
        BY <1>10, <4>1, <4>2
      <4>4. QED
        BY <1>22, <4>2, <4>3
    <3>3. CASE q \in {old, new}
      <4>1. d \in 0 .. part /\ d \in 0 .. part + 1
        BY <1>9, <1>11, <1>12, <3>3
      <4>2. Path(q, d) = Path(h, d)
        BY <1>11, <1>12, <3>3, <4>1
      <4>3. QED
        BY <1>22, <4>1, <4>2
    <3>4. QED
      BY <1>19, <3>1, <3>2, <3>3
  <2>3. ASSUME NEW q \in chain PROVE BranchOK(u, q)
    <3>1. PICK d \in Len(p) .. part : d \in 0 .. part /\ q = Path(h, d) /\ Len(q) = d
      BY <1>14
    <3>2. d + 1 \in 0 .. part + 1 /\ d \in 0 .. d + 1 /\ d < Levels /\ d + 1 = Len(q) + 1
      BY <1>1, <1>9, <3>1
    <3>3. Path(h, d + 1) \in DOMAIN u
      <4>1. CASE d = part
        BY <1>19, <4>1 DEF new
      <4>2. CASE d # part
        <5>1. d + 1 \in Len(p) .. part
          BY <1>9, <4>2
        <5>2. QED
          BY <1>18, <1>19, <5>1
      <4>3. QED
        BY <4>1, <4>2
    <3>4. Len(Path(h, d + 1)) = Len(q) + 1 /\ Path(Path(h, d + 1), Len(q)) = q
      BY <1>10, <3>1, <3>2
    <3>5. Path(h, d + 1) \in Below(u, q)
      BY <3>3, <3>4 DEF Below
    <3>6. QED
      BY <1>19, <3>1, <3>2, <3>5 DEF BranchOK
  <2>4. ASSUME NEW q \in DOMAIN t, IsBranch(t, q) PROVE BranchOK(u, q)
    <3>1. BranchOK(t, q)
      BY <2>4 DEF TrieOK
    <3>2. Below(t, q) \subseteq Below(u, q)
      BY <1>19 DEF Below
    <3>3. u[q] = t[q]
      BY <1>2, <1>19, <2>4
    <3>4. QED
      BY <3>1, <3>2, <3>3 DEF BranchOK
  <2>5. ASSUME NEW q \in DOMAIN t, ~IsBranch(t, q), q # p PROVE TipOK(u, q, hf)
    <3>1. TipOK(t, q, hf)
      BY <2>5 DEF TrieOK
    <3>2. u[q] = t[q]
      BY <1>19, <2>5
    <3>3. QED
      BY <3>1, <3>2 DEF TipOK
  <2>6. TipOK(u, new, hf)
    <3>1. new \in DOMAIN u /\ new = Path(hf[k], Len(new)) /\ u[new] = Leaf(hf[k], Entry(k, v))
      BY <1>11, <1>19 DEF new, h, l
    <3>2. QED
      BY <3>1, LeafIs
  <2>7. TipOK(u, old, hf)
    <3>1. u[old] = t[p] /\ old = Path(t[p].hash, Len(old))
      BY <1>12, <1>19 DEF old, g, node
    <3>2. QED
      BY <1>4, <3>1 DEF TipOK
  <2>8. ASSUME NEW q \in DOMAIN u PROVE IF IsBranch(u, q) THEN BranchOK(u, q) ELSE TipOK(u, q, hf)
    <3>1. CASE IsBranch(u, q)
      <4>1. q \in chain \/ (q \in DOMAIN t /\ IsBranch(t, q))
        BY <1>21, <3>1 DEF IsBranch
      <4>2. QED
        BY <2>3, <2>4, <3>1, <4>1
    <3>2. CASE ~IsBranch(u, q)
      <4>1. q \in {old, new} \/ (q \in DOMAIN t /\ ~IsBranch(t, q) /\ q # p)
        BY <1>15, <1>19, <1>21, <3>2
      <4>2. QED
        BY <2>5, <2>6, <2>7, <3>2, <4>1
    <3>3. QED
      BY <3>1, <3>2
  <2>9. QED
    BY <2>1, <2>2, <2>8 DEF TrieOK
<1>24. Answers(t, u, hf, k, v)
  <2>1. new \in DOMAIN u /\ u[new] = Leaf(hf[k], Entry(k, v)) /\ IsTip(u, new)
    BY <1>19, <1>20 DEF l, h, IsTip, IsBranch
  <2>2. ASSUME NEW q \in DOMAIN t, IsTip(t, q) PROVE \E r \in DOMAIN u : IsTip(u, r) /\ u[r] = t[q]
    <3>1. CASE q = p
      <4>1. old \in DOMAIN u /\ IsTip(u, old) /\ u[old] = t[p]
        BY <1>5, <1>19 DEF node, IsTip, IsBranch
      <4>2. QED
        BY <3>1, <4>1
    <3>2. CASE q # p
      <4>1. q \in DOMAIN u /\ u[q] = t[q]
        BY <1>19, <3>2
      <4>2. IsTip(u, q)
        BY <2>2, <4>1 DEF IsTip, IsBranch
      <4>3. QED
        BY <4>1, <4>2
    <3>3. QED
      BY <3>1, <3>2
  <2>3. ASSUME NEW r \in DOMAIN u, IsTip(u, r), r # new PROVE \E q \in DOMAIN t : IsTip(t, q) /\ t[q] = u[r]
    <3>1. CASE r = old
      BY <1>1, <1>2, <1>19, <3>1 DEF node, IsTip, p, h
    <3>2. CASE r # old
      <4>1. r \notin chain
        BY <1>21, <2>3 DEF IsTip
      <4>2. r \in DOMAIN t /\ r # p
        BY <1>15, <1>19, <2>3, <3>2, <4>1
      <4>3. IsTip(t, r) /\ t[r] = u[r]
        BY <1>19, <2>3, <4>2 DEF IsTip, IsBranch
      <4>4. QED
        BY <4>2, <4>3
    <3>3. QED
      BY <3>1, <3>2
  <2>4. QED
    BY <1>3, <1>23, <2>1, <2>2, <2>3, AddedLeaf DEF h
<1>25. QED
  BY <1>23, <1>24 DEF u, p, h

\* hamt_insert makes a trie that answers v for the key, and what it did for the others.
LEMMA TrieInserted ==
  ASSUME NEW t, NEW hf \in [Keys -> TrieHashes], TrieOK(t, hf), NEW k \in Keys, NEW v \in Vals \cup {Unit}
  PROVE  LET u == HamtInsert(t, hf[k], Entry(k, v)) IN TrieOK(u, hf) /\ Answers(t, u, hf, k, v)
<1> DEFINE p == Bottom(t, hf[k])
<1>1. CASE p \notin DOMAIN t
  BY <1>1, LeafInserted DEF HamtInsert
<1>2. CASE p \in DOMAIN t /\ t[p].hash = hf[k]
  <2>1. IsTip(t, p)
    BY <1>2, LookupCases
  <2> HIDE DEF p
  <2>2. LET u == With(t, p, Joined(t[p], Entry(k, v))) IN TrieOK(u, hf) /\ Answers(t, u, hf, k, v)
    BY <1>2, <2>1, TipJoined
  <2>3. HamtInsert(t, hf[k], Entry(k, v)) = With(t, p, Joined(t[p], Entry(k, v)))
    BY <1>2 DEF HamtInsert, p
  <2>4. QED
    BY <2>2, <2>3
<1>3. CASE p \in DOMAIN t /\ t[p].hash # hf[k]
  BY <1>3, TipsMerged DEF HamtInsert
<1>4. QED
  BY <1>1, <1>2, <1>3

\* Up from a tip, the branches that point at nothing else stop somewhere.
LEMMA TopIs ==
  ASSUME NEW t, NEW p \in Places
  PROVE  /\ Top(t, p) \in 0 .. Len(p)
         /\ \A d \in Top(t, p) .. Len(p) - 1 : Alone(t, p, d)
         /\ Top(t, p) > 0 => ~Alone(t, p, Top(t, p) - 1)
<1> DEFINE alone(d) == Alone(t, p, d)
           S == {c \in 0 .. Len(p) : \A d \in c .. Len(p) - 1 : alone(d)}
           m == Min(S)
<1>1. Len(p) \in Nat
  BY DEF Places
<1>2. m \in S /\ \A x \in S : m <= x
  <2>1. Len(p) \in S
    <3>1. Len(p) \in 0 .. Len(p) /\ Len(p) .. Len(p) - 1 = {}
      BY <1>1
    <3>2. QED
      BY <3>1
  <2>2. S \subseteq Nat /\ S # {}
    BY <2>1
  <2> HIDE DEF S
  <2>3. QED
    BY <2>2, MinIs
<1>3. m \in 0 .. Len(p) /\ \A d \in m .. Len(p) - 1 : alone(d)
  BY <1>2
<1>4. ASSUME m > 0, alone(m - 1) PROVE FALSE
  <2> HIDE DEF m, alone
  <2>1. m - 1 \in 0 .. Len(p) /\ ~(m <= m - 1)
    BY <1>1, <1>3, <1>4
  <2>2. \A d \in m - 1 .. Len(p) - 1 : d = m - 1 \/ d \in m .. Len(p) - 1
    BY <1>1, <1>3
  <2>3. m - 1 \in S
    BY <1>3, <1>4, <2>1, <2>2
  <2>4. QED
    BY <1>2, <2>1, <2>3
<1>5. \E c \in 0 .. Len(p) : /\ \A d \in c .. Len(p) - 1 : alone(d)
                             /\ c > 0 => ~alone(c - 1)
  <2> HIDE DEF m, alone
  <2>1. QED
    BY <1>3, <1>4
<1>6. QED
  BY <1>5 DEF Top

\* A tip goes, and every branch that would be empty without it.
LEMMA TipPruned ==
  ASSUME NEW t, NEW hf \in [Keys -> TrieHashes], TrieOK(t, hf), NEW k \in Keys,
         NEW p \in DOMAIN t, IsTip(t, p), t[p].hash = hf[k],
         Find(t[p].entries, k) # 0, Len(t[p].entries) = 1
  PROVE  TrieOK(Pruned(t, p), hf) /\ Answers(t, Pruned(t, p), hf, k, Null)
<1> DEFINE alone(d) == Below(t, Path(p, d)) = {Path(p, d + 1)}
           top  == Top(t, p)
           gone == {Path(p, d) : d \in top .. Len(p)}
           u    == Pruned(t, p)
<1>1. p \in Places /\ Len(p) \in Nat /\ ~IsBranch(t, p) /\ TipOK(t, p, hf)
  BY DEF TrieOK, IsTip, Places
<1>2. /\ top \in 0 .. Len(p)
      /\ \A d \in top .. Len(p) - 1 : alone(d)
      /\ top > 0 => ~alone(top - 1)
  <2>1. /\ top \in 0 .. Len(p)
        /\ \A d \in top .. Len(p) - 1 : Alone(t, p, d)
        /\ top > 0 => ~Alone(t, p, top - 1)
    BY <1>1, TopIs
  <2> HIDE DEF top
  <2>2. QED
    BY <2>1 DEF Alone
<1>3. u = Restrict(t, DOMAIN t \ gone)
  BY DEF Pruned
<1> HIDE DEF top
<1>4. \A d \in 0 .. Len(p) : /\ Len(Path(p, d)) = d
                             /\ \A j \in 0 .. d : Path(Path(p, d), j) = Path(p, j)
  BY <1>1, PathOfPlace
<1>5. p \in gone /\ Path(p, Len(p)) = p
  <2>1. Path(p, Len(p)) = p /\ Len(p) \in top .. Len(p)
    BY <1>1, <1>2, PathOfPlace
  <2>2. QED
    BY <2>1
<1>6. \A q \in gone : \E d \in top .. Len(p) : d \in 0 .. Len(p) /\ q = Path(p, d) /\ Len(q) = d
  <2>1. \A d \in top .. Len(p) : d \in 0 .. Len(p)
    BY <1>1, <1>2
  <2>2. QED
    BY <1>4, <2>1
<1>7. \A d \in top .. Len(p) : Path(p, d) \in gone
  OBVIOUS
<1>8. DOMAIN u = DOMAIN t \ gone /\ \A q \in DOMAIN u : q \in DOMAIN t /\ u[q] = t[q]
  BY <1>3 DEF Restrict
<1> HIDE DEF gone, u
<1>9. ASSUME NEW q \in DOMAIN t, q # p PROVE q \in gone => IsBranch(t, q)
  <2>1. SUFFICES ASSUME q \in gone PROVE IsBranch(t, q)
    OBVIOUS
  <2>2. PICK d \in top .. Len(p) : d \in 0 .. Len(p) /\ q = Path(p, d)
    BY <1>6, <2>1
  <2>3. d # Len(p)
    BY <1>5, <1>9, <2>2
  <2>4. d \in 0 .. Len(p) - 1
    BY <1>1, <2>2, <2>3
  <2>5. QED
    BY <2>2, <2>4 DEF TrieOK
\* What is below a node that goes, goes.
<1>10. ASSUME NEW q \in DOMAIN t, NEW d \in 0 .. Len(q) - 1, Path(q, d) \in gone
       PROVE  q \in gone
  <2> DEFINE S == {j \in d + 1 .. Len(q) : j > Len(p) \/ Path(q, j) # Path(p, j)}
             m == Min(S)
  <2>1. q \in Places /\ Len(q) \in Nat /\ Path(q, Len(q)) = q
    <3>1. q \in Places
      BY DEF TrieOK
    <3>2. Len(q) \in Nat
      BY <3>1 DEF Places
    <3>3. Len(q) \in 0 .. Len(q)
      BY <3>2
    <3>4. QED
      BY <3>1, <3>2, <3>3, PathOfPlace
  <2>2. \A j \in 0 .. Len(q) - 1 : IsBranch(t, Path(q, j)) /\ Len(Path(q, j)) = j
    <3>1. \A j \in 0 .. Len(q) - 1 : IsBranch(t, Path(q, j))
      BY DEF TrieOK
    <3>2. \A j \in 0 .. Len(q) - 1 : j \in 0 .. Len(q)
      BY <2>1
    <3>3. QED
      BY <2>1, <3>1, <3>2, PathOfPlace
  <2>3. /\ d \in top .. Len(p) /\ Path(q, d) = Path(p, d)
        /\ top \in Int /\ d \in Int /\ top <= d
    <3>1. d \in top .. Len(p) /\ Path(q, d) = Path(p, d)
      BY <1>6, <1>10, <2>2
    <3>2. QED
      BY <1>1, <1>2, <2>1, <3>1
  <2>4. CASE S = {}
    <3>1. Len(q) \in d + 1 .. Len(q) /\ Len(q) \notin S
      BY <2>1, <2>4
    <3>2. Len(q) <= Len(p) /\ Path(q, Len(q)) = Path(p, Len(q)) /\ d + 1 <= Len(q)
      BY <1>1, <2>1, <3>1
    <3>3. Len(q) \in top .. Len(p)
      <4> HIDE DEF S, m
      <4>1. top \in Int /\ d \in Int /\ Len(q) \in Int /\ Len(p) \in Int
        BY <1>1, <2>1, <2>3
      <4>2. top <= d /\ d + 1 <= Len(q) /\ Len(q) <= Len(p)
        BY <2>3, <3>2
      <4>3. QED
        BY <4>1, <4>2
    <3>4. QED
      BY <1>7, <2>1, <3>2, <3>3
  <2>5. CASE S # {}
    <3>1. m \in S /\ \A x \in S : m <= x
      <4>1. S \subseteq Nat
        BY <1>1
      <4> HIDE DEF S
      <4>2. QED
        BY <2>5, <4>1, MinIs
    <3>2. m \in d + 1 .. Len(q) /\ (m > Len(p) \/ Path(q, m) # Path(p, m))
      BY <3>1
    <3>3. m - 1 = d \/ m - 1 \in d + 1 .. Len(q)
      BY <2>1, <3>2
    <3>4. ~(m <= m - 1)
      BY <2>1, <3>2
    <3> HIDE DEF m
    <3>5. Path(q, m - 1) = Path(p, m - 1) /\ m - 1 <= Len(p)
      <4>1. CASE m - 1 = d
        BY <1>1, <2>3, <4>1
      <4>2. CASE m - 1 \in d + 1 .. Len(q)
        <5>1. m - 1 \notin S
          BY <3>1, <3>4
        <5>2. QED
          BY <1>1, <2>1, <4>2, <5>1
      <4>3. QED
        BY <3>3, <4>1, <4>2
    <3> HIDE DEF S
    <3>6. m - 1 \in 0 .. Len(q) - 1 /\ m - 1 \in Nat /\ m \in Nat
      BY <2>1, <3>2
    <3>7. IsBranch(t, Path(p, m - 1))
      BY <2>2, <3>5, <3>6
    <3>8. m - 1 # Len(p)
      BY <1>1, <1>5, <3>7
    <3>9. m - 1 \in top .. Len(p) - 1 /\ m - 1 + 1 = m
      <4>1. d + 1 <= m
        BY <2>1, <3>2
      <4>2. top <= m - 1 /\ m - 1 <= Len(p) - 1
        BY <1>1, <2>3, <3>5, <3>6, <3>8, <4>1
      <4>3. QED
        BY <1>1, <2>3, <3>6, <4>2
    <3>10. Below(t, Path(q, m - 1)) = {Path(p, m)}
      BY <1>2, <3>5, <3>9
    <3>11. Path(q, m) \in Below(t, Path(q, m - 1))
      <4>1. m \in 0 .. Len(q) /\ m - 1 \in 0 .. m /\ m - 1 \in 0 .. Len(q)
        BY <2>1, <3>2, <3>6
      <4>2. Len(Path(q, m)) = m /\ Path(Path(q, m), m - 1) = Path(q, m - 1) /\ Len(Path(q, m - 1)) = m - 1
        BY <2>1, <4>1, PathOfPlace
      <4>3. Path(q, m) \in DOMAIN t
        <5>1. CASE m = Len(q)
          BY <2>1, <5>1
        <5>2. CASE m # Len(q)
          <6>1. m \in 0 .. Len(q) - 1
            BY <2>1, <4>1, <5>2
          <6>2. QED
            BY <2>2, <6>1 DEF IsBranch
        <5>3. QED
          BY <5>1, <5>2
      <4>4. QED
        BY <3>9, <4>2, <4>3 DEF Below
    <3>12. Path(q, m) = Path(p, m)
      BY <3>10, <3>11
    <3>13. m <= Len(p)
      BY <1>1, <3>9
    <3>14. QED
      BY <1>1, <3>2, <3>6, <3>12, <3>13
  <2>6. QED
    BY <2>4, <2>5
<1>11. \A q : IsBranch(u, q) <=> IsBranch(t, q) /\ q \notin gone
  BY <1>8 DEF IsBranch
<1>12. TrieOK(u, hf)
  <2>1. DOMAIN u \subseteq Places
    BY <1>8 DEF TrieOK
  <2>2. ASSUME NEW q \in DOMAIN u, NEW d \in 0 .. Len(q) - 1 PROVE IsBranch(u, Path(q, d))
    <3>1. q \in DOMAIN t /\ q \notin gone
      BY <1>8
    <3>2. IsBranch(t, Path(q, d))
      BY <3>1 DEF TrieOK
    <3>3. Path(q, d) \notin gone
      BY <1>10, <3>1
    <3>4. QED
      BY <1>11, <3>2, <3>3
  <2>3. ASSUME NEW q \in DOMAIN u, IsBranch(u, q) PROVE BranchOK(u, q)
    <3>1. q \in DOMAIN t /\ q \notin gone /\ IsBranch(t, q) /\ u[q] = t[q]
      BY <1>8, <1>11, <2>3
    <3>2. BranchOK(t, q)
      BY <3>1 DEF TrieOK
    <3>3. Below(u, q) = Below(t, q) \ gone
      BY <1>8 DEF Below
    <3>4. q \in Places /\ Len(q) \in Nat
      BY <3>1 DEF TrieOK, Places
    <3>5. ASSUME NEW c \in Below(t, q), c \in gone PROVE Len(q) + 1 = top /\ c = Path(p, top) /\ q = Path(p, top - 1) /\ top > 0
      <4>1. PICK d \in top .. Len(p) : d \in 0 .. Len(p) /\ c = Path(p, d) /\ Len(c) = d
        BY <1>6, <3>5
      <4>2. Len(c) = Len(q) + 1 /\ Path(c, Len(q)) = q
        BY DEF Below
      <4>3. Len(q) = d - 1 /\ d - 1 \in 0 .. d
        BY <3>4, <4>1, <4>2
      <4>4. q = Path(p, d - 1)
        BY <1>4, <4>1, <4>2, <4>3
      <4>5. d - 1 \notin top .. Len(p)
        BY <1>7, <3>1, <4>4
      <4>6. d = top
        BY <1>1, <1>2, <3>4, <4>1, <4>3, <4>5
      <4>7. QED
        BY <3>4, <4>1, <4>3, <4>4, <4>6
    <3>6. Below(u, q) # {}
      <4>1. CASE Below(t, q) \cap gone = {}
        BY <3>2, <3>3, <4>1 DEF BranchOK
      <4>2. CASE Below(t, q) \cap gone # {}
        <5>1. PICK c \in Below(t, q) : c \in gone
          BY <4>2
        <5>2. Len(q) + 1 = top /\ c = Path(p, top) /\ q = Path(p, top - 1) /\ top > 0
          BY <3>5, <5>1
        <5>3. ~alone(top - 1) /\ top - 1 + 1 = top
          BY <1>1, <1>2, <5>2
        <5>4. Below(t, q) # {c}
          BY <5>2, <5>3
        <5>5. PICK b \in Below(t, q) : b # c
          BY <5>1, <5>4
        <5>6. b \notin gone
          BY <3>5, <5>2, <5>5
        <5>7. QED
          BY <3>3, <5>6
      <4>3. QED
        BY <4>1, <4>2
    <3>7. QED
      BY <3>1, <3>2, <3>6 DEF BranchOK
  <2>4. ASSUME NEW q \in DOMAIN u, ~IsBranch(u, q) PROVE TipOK(u, q, hf)
    <3>1. q \in DOMAIN t /\ ~IsBranch(t, q) /\ u[q] = t[q]
      BY <1>8, <1>11, <2>4
    <3>2. TipOK(t, q, hf)
      BY <3>1 DEF TrieOK
    <3>3. QED
      BY <3>1, <3>2 DEF TipOK
  <2>5. QED
    BY <2>1, <2>2, <2>3, <2>4 DEF TrieOK
<1>13. \A q \in DOMAIN t : q # p => (IsTip(t, q) <=> IsTip(u, q))
  BY <1>8, <1>9, <1>11 DEF IsTip
<1>14. \A q \in DOMAIN u : q # p
  BY <1>5, <1>8
<1>15. ASSUME NEW j \in Keys PROVE HamtLookup(u, hf[j], j) = IF j = k THEN Null ELSE HamtLookup(t, hf[j], j)
  <2>1. CASE hf[j] = hf[k]
    <3>1. \A q \in DOMAIN u : IsTip(u, q) => u[q].hash # hf[j]
      <4>1. ASSUME NEW q \in DOMAIN u, IsTip(u, q), u[q].hash = hf[j] PROVE FALSE
        <5>1. q \in DOMAIN t /\ q # p /\ IsTip(t, q) /\ t[q].hash = hf[k]
          BY <1>8, <1>13, <1>14, <2>1, <4>1
        <5>2. hf[k] \in TrieHashes
          OBVIOUS
        <5>3. q = Bottom(t, hf[k]) /\ p = Bottom(t, hf[k])
          BY <5>1, <5>2, BottomIs
        <5>4. QED
          BY <5>1, <5>3
      <4>2. QED
        BY <4>1
    <3>2. HamtLookup(u, hf[j], j) = Null
      BY <1>12, <3>1, LookupNone
    <3>3. j # k => HamtLookup(t, hf[j], j) = Null
      <4>1. SUFFICES ASSUME j # k PROVE HamtLookup(t, hf[j], j) = Null
        OBVIOUS
      <4> DEFINE es == t[p].entries
      <4>2. es \in Seq(Entries) /\ Len(es) = 1
        BY <1>1 DEF TipOK
      <4>3. HamtLookup(t, hf[j], j) = Value(es, j)
        BY <2>1, LookupAt
      <4> HIDE DEF es
      <4>4. Find(es, k) \in 1 .. Len(es) /\ es[Find(es, k)].key = k
        BY <4>2, FindIs DEF es
      <4>5. \A i \in 1 .. Len(es) : es[i].key # j
        BY <4>1, <4>2, <4>4
      <4>6. Value(es, j) = Null
        BY <4>2, <4>5, ValueNone
      <4>7. QED
        BY <4>3, <4>6
    <3>4. QED
      BY <3>2, <3>3
  <2>2. CASE hf[j] # hf[k]
    <3>1. \A q \in DOMAIN t : IsTip(t, q) /\ t[q].hash = hf[j] => \E r \in DOMAIN u : IsTip(u, r) /\ u[r] = t[q]
      <4>1. ASSUME NEW q \in DOMAIN t, IsTip(t, q), t[q].hash = hf[j] PROVE IsTip(u, q) /\ q \in DOMAIN u
        <5>1. q # p
          BY <2>2, <4>1
        <5>2. IsTip(u, q)
          BY <1>13, <4>1, <5>1
        <5>3. QED
          BY <5>2 DEF IsTip
      <4>2. QED
        BY <1>8, <4>1
    <3>2. \A q \in DOMAIN u : IsTip(u, q) /\ u[q].hash = hf[j] => \E r \in DOMAIN t : IsTip(t, r) /\ t[r].hash = hf[j]
      BY <1>8, <1>13, <1>14
    <3>3. HamtLookup(u, hf[j], j) = HamtLookup(t, hf[j], j)
      BY <1>12, <3>1, <3>2, SameLookup
    <3>4. QED
      BY <2>2, <3>3
  <2>3. QED
    BY <2>1, <2>2
<1>16. QED
  BY <1>12, <1>15 DEF Answers, u

\* hamt_remove of a key that is there makes a trie without it.
LEMMA TrieRemoved ==
  ASSUME NEW t, NEW hf \in [Keys -> TrieHashes], TrieOK(t, hf), NEW k \in Keys,
         HamtLookup(t, hf[k], k) # Null
  PROVE  LET u == HamtRemove(t, hf[k], k) IN TrieOK(u, hf) /\ Answers(t, u, hf, k, Null)
<1> DEFINE p == Bottom(t, hf[k])
<1>1. p \in DOMAIN t /\ t[p].hash = hf[k] /\ IsTip(t, p) /\ HamtLookup(t, hf[k], k) = Value(t[p].entries, k)
  BY LookupCases
<1> HIDE DEF p
<1>2. Find(t[p].entries, k) # 0
  BY <1>1 DEF Value
<1>3. HamtRemove(t, hf[k], k) = IF Len(t[p].entries) = 1 THEN Pruned(t, p)
                                ELSE With(t, p, Left(t[p], Find(t[p].entries, k)))
  BY DEF HamtRemove, p
<1>4. CASE Len(t[p].entries) = 1
  <2>1. TrieOK(Pruned(t, p), hf) /\ Answers(t, Pruned(t, p), hf, k, Null)
    BY <1>1, <1>2, <1>4, TipPruned
  <2>2. QED
    BY <1>3, <1>4, <2>1
<1>5. CASE Len(t[p].entries) # 1
  <2>1. LET u == With(t, p, Left(t[p], Find(t[p].entries, k)))
        IN  TrieOK(u, hf) /\ Answers(t, u, hf, k, Null)
    BY <1>1, <1>2, <1>5, TipLeft
  <2>2. QED
    BY <1>3, <1>5, <2>1
<1>6. QED
  BY <1>4, <1>5

-----------------------------------------------------------------------------
(* The order in which a trie calls its entries back.                       *)

\* The entry of a visit.
Visited(t, a) == t[a[1]].entries[a[2]]

\* A visit is to an entry of a tip, whose key is looked up there.
LEMMA VisitIs ==
  ASSUME NEW t, NEW hf \in [Keys -> TrieHashes], TrieOK(t, hf), NEW a \in Visits(t)
  PROVE  /\ a[1] \in DOMAIN t /\ IsTip(t, a[1]) /\ a[1] \in Places
         /\ a[2] \in 1 .. Len(t[a[1]].entries) /\ a[2] \in Nat /\ a = <<a[1], a[2]>>
         /\ Visited(t, a) \in Entries
         /\ hf[Visited(t, a).key] = t[a[1]].hash
         /\ HamtLookup(t, hf[Visited(t, a).key], Visited(t, a).key) = Visited(t, a).val
<1>1. PICK p \in DOMAIN t : \E i \in DOMAIN t[p].entries : a = <<p, i>>
  BY DEF Visits
<1>2. PICK i \in DOMAIN t[p].entries : a = <<p, i>>
  BY <1>1
<1>3. a[1] = p /\ a[2] = i /\ a = <<a[1], a[2]>>
  BY <1>2
<1>4. ~IsBranch(t, p)
  <2>1. SUFFICES ASSUME IsBranch(t, p) PROVE FALSE
    OBVIOUS
  <2>2. t[p] = Branch
    BY <2>1 DEF TrieOK, BranchOK
  <2>3. t[p].entries = <<>>
    BY <2>2 DEF Branch
  <2>4. QED
    BY <2>3
<1> DEFINE es == t[p].entries
<1>5. TipOK(t, p, hf) /\ IsTip(t, p) /\ p \in Places
  BY <1>4 DEF TrieOK, IsTip
<1>6. es \in Seq(Entries) /\ Apart(es) /\ \A n \in 1 .. Len(es) : hf[es[n].key] = t[p].hash
  BY <1>5 DEF TipOK
<1>7. i \in DOMAIN es /\ Visited(t, a) = es[i]
  BY <1>3 DEF Visited
<1>8. HamtLookup(t, hf[es[i].key], es[i].key) = Value(es, es[i].key)
  <2>1. i \in 1 .. Len(es)
    BY <1>6, <1>7
  <2>2. es[i].key \in Keys /\ hf[es[i].key] = t[p].hash
    <3> HIDE DEF es
    <3>1. QED
      BY <1>6, <2>1, FindAt
  <2>3. QED
    BY <1>5, <2>2, LookupAt
<1> HIDE DEF es
<1>9. i \in 1 .. Len(es) /\ i \in Nat
  BY <1>6, <1>7
<1>10. es[i] \in Entries
  BY <1>6, <1>9, ElementOfSeq
<1>11. Value(es, es[i].key) = es[i].val
  BY <1>6, <1>9, FindAt
<1>12. QED
  BY <1>3, <1>5, <1>6, <1>7, <1>8, <1>9, <1>10, <1>11 DEF es

\* A key that has a value is visited.
LEMMA VisitOf ==
  ASSUME NEW t, NEW hf \in [Keys -> TrieHashes], TrieOK(t, hf), NEW k \in Keys,
         HamtLookup(t, hf[k], k) # Null
  PROVE  \E a \in Visits(t) : Visited(t, a).key = k
<1> DEFINE p == Bottom(t, hf[k])
<1>1. p \in DOMAIN t /\ IsTip(t, p) /\ HamtLookup(t, hf[k], k) = Value(t[p].entries, k)
  BY LookupCases
<1> HIDE DEF p
<1> DEFINE es == t[p].entries
<1>2. es \in Seq(Entries)
  BY <1>1 DEF TrieOK, TipOK, IsTip
<1>3. Find(es, k) # 0
  BY <1>1 DEF Value
<1>4. Find(es, k) \in 1 .. Len(es) /\ es[Find(es, k)].key = k
  <2> HIDE DEF es
  <2>1. QED
    BY <1>2, <1>3, FindIs
<1> DEFINE a == <<p, Find(es, k)>>
<1>5. a \in Visits(t)
  BY <1>1, <1>2, <1>4 DEF Visits
<1>6. a[1] = p /\ a[2] = Find(es, k)
  OBVIOUS
<1>7. Visited(t, a) = es[Find(es, k)]
  BY <1>6 DEF Visited
<1> HIDE DEF a, es
<1>8. QED
  BY <1>4, <1>5, <1>7

\* No two visits are to the same key.
LEMMA VisitsApart ==
  ASSUME NEW t, NEW hf \in [Keys -> TrieHashes], TrieOK(t, hf),
         NEW a \in Visits(t), NEW b \in Visits(t), Visited(t, a).key = Visited(t, b).key
  PROVE  a = b
<1>1. /\ a[1] \in DOMAIN t /\ IsTip(t, a[1]) /\ a[2] \in 1 .. Len(t[a[1]].entries) /\ a = <<a[1], a[2]>>
      /\ hf[Visited(t, a).key] = t[a[1]].hash /\ Visited(t, a) \in Entries
  BY VisitIs
<1>2. /\ b[1] \in DOMAIN t /\ IsTip(t, b[1]) /\ b[2] \in 1 .. Len(t[b[1]].entries) /\ b = <<b[1], b[2]>>
      /\ hf[Visited(t, b).key] = t[b[1]].hash
  BY VisitIs
<1> DEFINE h == hf[Visited(t, a).key]
<1>3. h \in TrieHashes
  BY <1>1 DEF Entries
<1>4. a[1] = b[1]
  <2>1. t[a[1]].hash = h /\ t[b[1]].hash = h
    BY <1>1, <1>2
  <2> HIDE DEF h
  <2>2. a[1] = Bottom(t, h) /\ b[1] = Bottom(t, h)
    BY <1>1, <1>2, <1>3, <2>1, BottomIs
  <2>3. QED
    BY <2>2
<1> DEFINE es == t[a[1]].entries
<1>5. es \in Seq(Entries) /\ Apart(es)
  BY <1>1 DEF TrieOK, TipOK, IsTip
<1>6. es[a[2]].key = es[b[2]].key /\ a[2] \in DOMAIN es /\ b[2] \in DOMAIN es
  <2>1. DOMAIN es = 1 .. Len(es)
    BY <1>5
  <2>2. QED
    BY <1>1, <1>2, <1>4, <2>1 DEF Visited
<1>7. a[2] = b[2]
  <2> HIDE DEF es
  <2>1. QED
    BY <1>5, <1>6 DEF Apart
<1>8. QED
  BY <1>1, <1>2, <1>4, <1>7

\* One place comes before another when it turns off at a smaller slot.
Ahead(p, q) == \E d \in DOMAIN p \cap DOMAIN q : Path(p, d - 1) = Path(q, d - 1) /\ p[d] < q[d]

\* Turning off is an order.
LEMMA AheadIs ==
  ASSUME NEW p \in Places, NEW q \in Places
  PROVE  /\ ~Ahead(p, p)
         /\ Ahead(p, q) <=> \E d \in 1 .. Len(p) \cap 1 .. Len(q) :
                               p[d] < q[d] /\ \A i \in 1 .. d - 1 : p[i] = q[i]
<1>1. /\ DOMAIN p = 1 .. Len(p) /\ DOMAIN q = 1 .. Len(q) /\ Len(p) \in Nat /\ Len(q) \in Nat
      /\ \A i \in DOMAIN p : p[i] \in Nat
  BY DEF Places
<1>2. ~Ahead(p, p)
  BY <1>1 DEF Ahead
<1>3. ASSUME NEW d \in 1 .. Len(p)
      PROVE  Path(p, d - 1) = Path(q, d - 1) <=> \A i \in 1 .. d - 1 : p[i] = q[i]
  <2>1. d - 1 \in Nat
    BY <1>1
  <2>2. QED
    BY <2>1, SamePath
<1>4. QED
  BY <1>1, <1>2, <1>3 DEF Ahead

LEMMA AheadOrders ==
  ASSUME NEW p \in Places, NEW q \in Places, NEW r \in Places, Ahead(p, q), Ahead(q, r)
  PROVE  Ahead(p, r)
<1>1. PICK d \in 1 .. Len(p) \cap 1 .. Len(q) : p[d] < q[d] /\ \A i \in 1 .. d - 1 : p[i] = q[i]
  BY AheadIs
<1>2. PICK e \in 1 .. Len(q) \cap 1 .. Len(r) : q[e] < r[e] /\ \A i \in 1 .. e - 1 : q[i] = r[i]
  BY AheadIs
<1>3. /\ Len(p) \in Nat /\ Len(q) \in Nat /\ Len(r) \in Nat
      /\ \A i \in 1 .. Len(p) : p[i] \in Nat
      /\ \A i \in 1 .. Len(q) : q[i] \in Nat
      /\ \A i \in 1 .. Len(r) : r[i] \in Nat
  BY DEF Places
<1>4. CASE d < e
  <2>1. d \in 1 .. e - 1 /\ d \in 1 .. Len(r)
    BY <1>1, <1>2, <1>3, <1>4
  <2>2. p[d] < r[d]
    BY <1>1, <1>2, <2>1
  <2>3. \A i \in 1 .. d - 1 : i \in 1 .. e - 1
    BY <1>2, <1>3, <1>4
  <2>4. \A i \in 1 .. d - 1 : p[i] = r[i]
    BY <1>1, <1>2, <2>3
  <2>5. d \in 1 .. Len(p) \cap 1 .. Len(r)
    BY <1>1, <2>1
  <2>6. QED
    BY <2>2, <2>4, <2>5, AheadIs
<1>5. CASE e <= d
  <2>1. e \in 1 .. Len(p) \cap 1 .. Len(r)
    BY <1>1, <1>2, <1>3, <1>5
  <2>2. p[e] <= q[e]
    <3>1. CASE e = d
      BY <1>1, <1>3, <3>1
    <3>2. CASE e # d
      <4>1. e \in 1 .. d - 1
        BY <1>2, <1>3, <1>5, <3>2
      <4>2. QED
        BY <1>1, <1>3, <4>1
    <3>3. QED
      BY <3>1, <3>2
  <2>3. p[e] < r[e]
    BY <1>2, <1>3, <2>1, <2>2
  <2>4. \A i \in 1 .. e - 1 : i \in 1 .. d - 1
    BY <1>1, <1>2, <1>3, <1>5
  <2>5. \A i \in 1 .. e - 1 : p[i] = r[i]
    BY <1>1, <1>2, <2>4
  <2>6. QED
    BY <2>1, <2>3, <2>5, AheadIs
<1>6. QED
  BY <1>1, <1>2, <1>3, <1>4, <1>5

\* Two tips are not on one path from the root.
LEMMA TipsPart ==
  ASSUME NEW t, NEW hf, TrieOK(t, hf), NEW p \in DOMAIN t, NEW q \in DOMAIN t,
         IsTip(t, p), IsTip(t, q), p # q
  PROVE  Ahead(p, q) \/ Ahead(q, p)
<1> DEFINE S == {i \in 1 .. Len(p) \cap 1 .. Len(q) : p[i] # q[i]}
           m == Min(S)
<1>1. /\ p \in Places /\ q \in Places /\ Len(p) \in Nat /\ Len(q) \in Nat
      /\ p \in Seq(Nat) /\ q \in Seq(Nat)
      /\ \A i \in 1 .. Len(p) : p[i] \in Nat
      /\ \A i \in 1 .. Len(q) : q[i] \in Nat
  BY DEF TrieOK, Places
<1>2. ASSUME NEW a \in DOMAIN t, NEW b \in DOMAIN t, IsTip(t, a), IsTip(t, b), Len(a) < Len(b),
             a \in Places, b \in Places, \A i \in 1 .. Len(a) : a[i] = b[i]
      PROVE  FALSE
  <2>1. Len(a) \in Nat /\ Len(b) \in Nat
    BY <1>2 DEF Places
  <2>2. Len(a) \in 0 .. Len(b) - 1
    BY <1>2, <2>1
  <2>3. IsBranch(t, Path(b, Len(a)))
    BY <2>2 DEF TrieOK
  <2>4. Path(a, Len(a)) = Path(b, Len(a))
    BY <1>2, <2>1, SamePath
  <2>5. Len(a) \in 0 .. Len(a)
    BY <2>1
  <2>6. Path(a, Len(a)) = a
    BY <1>2, <2>5, PathOfPlace
  <2>7. QED
    BY <1>2, <2>3, <2>4, <2>6 DEF IsTip
<1>3. CASE S = {}
  <2>1. \A i \in 1 .. Len(p) \cap 1 .. Len(q) : p[i] = q[i]
    BY <1>3
  <2>2. CASE Len(p) < Len(q)
    <3>1. \A i \in 1 .. Len(p) : p[i] = q[i]
      BY <1>1, <2>1, <2>2
    <3>2. QED
      BY <1>1, <1>2, <2>2, <3>1
  <2>3. CASE Len(q) < Len(p)
    <3>1. \A i \in 1 .. Len(q) : q[i] = p[i]
      BY <1>1, <2>1, <2>3
    <3>2. QED
      BY <1>1, <1>2, <2>3, <3>1
  <2>4. CASE Len(q) = Len(p)
    <3>1. \A i \in 1 .. Len(p) : p[i] = q[i]
      BY <1>1, <2>1, <2>4
    <3>2. p = q
      BY <1>1, <2>4, <3>1, SeqEqual
    <3>3. QED
      BY <3>2
  <2>5. QED
    BY <1>1, <2>2, <2>3, <2>4
<1>4. CASE S # {}
  <2>1. m \in S /\ \A x \in S : m <= x
    <3>1. S \subseteq Nat
      BY <1>1
    <3> HIDE DEF S
    <3>2. QED
      BY <1>4, <3>1, MinIs
  <2>2. m \in 1 .. Len(p) \cap 1 .. Len(q) /\ p[m] # q[m]
    BY <2>1
  <2>3. ASSUME NEW i \in 1 .. m - 1 PROVE p[i] = q[i]
    <3> HIDE DEF m
    <3>1. i \in 1 .. Len(p) \cap 1 .. Len(q) /\ ~(m <= i)
      BY <1>1, <2>2
    <3>2. i \notin S
      BY <2>1, <3>1
    <3>3. QED
      BY <3>1, <3>2
  <2> HIDE DEF m, S
  <2>4. CASE p[m] < q[m]
    BY <1>1, <2>2, <2>3, <2>4, AheadIs
  <2>5. CASE q[m] < p[m]
    <3>1. m \in 1 .. Len(q) \cap 1 .. Len(p) /\ \A i \in 1 .. m - 1 : q[i] = p[i]
      BY <2>2, <2>3
    <3>2. QED
      BY <1>1, <2>5, <3>1, AheadIs
  <2>6. QED
    BY <1>1, <2>2, <2>4, <2>5
<1>5. QED
  BY <1>3, <1>4

\* Before orders the visits.
LEMMA VisitsOrdered ==
  ASSUME NEW t, NEW hf \in [Keys -> TrieHashes], TrieOK(t, hf)
  PROVE  /\ \A a \in Visits(t) : ~Before(a, a)
         /\ \A a, b, c \in Visits(t) : Before(a, b) /\ Before(b, c) => Before(a, c)
         /\ \A a, b \in Visits(t) : a # b => Before(a, b) \/ Before(b, a)
<1>1. \A a, b : Before(a, b) <=> (a[1] = b[1] /\ a[2] < b[2]) \/ Ahead(a[1], b[1])
  BY DEF Before, Ahead
<1>2. ASSUME NEW a \in Visits(t)
      PROVE  a[1] \in Places /\ a[2] \in Nat /\ a = <<a[1], a[2]>> /\ a[1] \in DOMAIN t /\ IsTip(t, a[1])
  BY VisitIs
<1>3. ASSUME NEW a \in Visits(t) PROVE ~Before(a, a)
  BY <1>1, <1>2, AheadIs
<1>4. ASSUME NEW a \in Visits(t), NEW b \in Visits(t), NEW c \in Visits(t), Before(a, b), Before(b, c)
      PROVE  Before(a, c)
  <2>1. CASE a[1] = b[1] /\ a[2] < b[2] /\ b[1] = c[1] /\ b[2] < c[2]
    BY <1>1, <1>2, <2>1
  <2>2. CASE a[1] = b[1] /\ Ahead(b[1], c[1])
    BY <1>1, <2>2
  <2>3. CASE Ahead(a[1], b[1]) /\ b[1] = c[1]
    BY <1>1, <2>3
  <2>4. CASE Ahead(a[1], b[1]) /\ Ahead(b[1], c[1])
    <3>1. Ahead(a[1], c[1])
      BY <1>2, <2>4, AheadOrders
    <3>2. QED
      BY <1>1, <3>1
  <2>5. QED
    BY <1>1, <1>4, <2>1, <2>2, <2>3, <2>4
<1>5. ASSUME NEW a \in Visits(t), NEW b \in Visits(t), a # b PROVE Before(a, b) \/ Before(b, a)
  <2>1. CASE a[1] = b[1]
    <3>1. a[2] # b[2]
      BY <1>2, <1>5, <2>1
    <3>2. a[2] < b[2] \/ b[2] < a[2]
      BY <1>2, <3>1
    <3>3. QED
      BY <1>1, <2>1, <3>2
  <2>2. CASE a[1] # b[1]
    BY <1>1, <1>2, <2>2, TipsPart
  <2>3. QED
    BY <2>1, <2>2
<1>6. QED
  BY <1>3, <1>4, <1>5

\* A trie that answers as c does has as many visits as c has entries.
LEMMA VisitsCounted ==
  ASSUME NEW t, NEW hf \in [Keys -> TrieHashes], TrieOK(t, hf), NEW c \in Seq(Entries), Apart(c),
         \A k \in Keys : HamtLookup(t, hf[k], k) = Value(c, k)
  PROVE  IsFiniteSet(Visits(t)) /\ Cardinality(Visits(t)) = Len(c)
<1> DEFINE V == Visits(t)
           key(a) == Visited(t, a).key
           f == [a \in V |-> Find(c, key(a))]
<1>1. ASSUME NEW a \in V PROVE Find(c, key(a)) \in 1 .. Len(c) /\ c[Find(c, key(a))].key = key(a)
  <2>1. /\ Visited(t, a) \in Entries
        /\ HamtLookup(t, hf[key(a)], key(a)) = Visited(t, a).val
    BY VisitIs
  <2>2. key(a) \in Keys /\ Visited(t, a).val # Null
    BY <2>1, ValsAssumption DEF Entries
  <2>3. Value(c, key(a)) # Null
    BY <2>1, <2>2
  <2> HIDE DEF key
  <2>4. Find(c, key(a)) # 0
    BY <2>3 DEF Value
  <2>5. QED
    BY <2>4, FindIs
<1>2. \A a, b \in V : a # b => key(a) # key(b)
  BY VisitsApart
<1>3. ASSUME NEW i \in 1 .. Len(c) PROVE \E a \in V : Find(c, key(a)) = i
  <2>1. c[i].key \in Keys /\ Value(c, c[i].key) = c[i].val /\ c[i].val # Null /\ Find(c, c[i].key) = i
    BY FindAt
  <2>2. HamtLookup(t, hf[c[i].key], c[i].key) # Null
    BY <2>1
  <2>3. \E a \in V : key(a) = c[i].key
    BY <2>1, <2>2, VisitOf
  <2> HIDE DEF key, V
  <2>4. QED
    BY <2>1, <2>3
<1> HIDE DEF key
<1>4. f \in [V -> 1 .. Len(c)]
  BY <1>1
<1>5. f \in Injection(V, 1 .. Len(c))
  <2>1. ASSUME NEW a \in V, NEW b \in V, a # b PROVE f[a] # f[b]
    <3>1. key(a) # key(b)
      BY <1>2, <2>1
    <3>2. QED
      BY <1>1, <3>1
  <2> HIDE DEF f
  <2>2. QED
    BY <1>4, <2>1, InjectionIs
<1>6. f \in Surjection(V, 1 .. Len(c))
  BY <1>3, <1>4 DEF Surjection
<1>7. IsFiniteSet(1 .. Len(c)) /\ Cardinality(1 .. Len(c)) = Len(c)
  <2>1. Len(c) \in Int /\ 1 \in Int /\ Len(c) >= 0
    OBVIOUS
  <2>2. IsFiniteSet(1 .. Len(c)) /\ Cardinality(1 .. Len(c)) = IF 1 > Len(c) THEN 0 ELSE Len(c) - 1 + 1
    BY <2>1, FS_Interval
  <2>3. QED
    BY <2>1, <2>2
<1> HIDE DEF f, V
<1>8. IsFiniteSet(V) /\ Cardinality(V) = Len(c)
  BY <1>5, <1>6, <1>7, FS_Injection
<1>9. QED
  BY <1>8 DEF V

\* for_each of a trie that answers as c does calls back the entries of c, each once.
LEMMA ForEachIs ==
  ASSUME NEW t, NEW hf \in [Keys -> TrieHashes], TrieOK(t, hf), NEW c \in Seq(Entries), Apart(c),
         \A k \in Keys : HamtLookup(t, hf[k], k) = Value(c, k)
  PROVE  LET w == HamtForEach(t)
         IN  /\ w \in Seq(Entries) /\ Apart(w) /\ Len(w) = Len(c)
             /\ \A k \in Keys : Value(w, k) = Value(c, k)
<1> DEFINE V == Visits(t)
           R == {p \in V \X V : Before(p[1], p[2])}
           num(a) == Cardinality({b \in V : Before(b, a)}) + 1
           at(n) == CHOOSE a \in V : num(a) = n
           w == HamtForEach(t)
<1>1. IsFiniteSet(V) /\ Cardinality(V) = Len(c) /\ Len(c) \in Nat
  BY VisitsCounted
<1>2. /\ \A a \in V : ~Before(a, a)
      /\ \A a, b, d \in V : Before(a, b) /\ Before(b, d) => Before(a, d)
      /\ \A a, b \in V : a # b => Before(a, b) \/ Before(b, a)
  BY VisitsOrdered
<1>3. w = [n \in 1 .. Len(c) |-> Visited(t, at(n))]
  BY <1>1 DEF HamtForEach, Visited
<1>4. \A a \in V : /\ Visited(t, a) \in Entries
                   /\ HamtLookup(t, hf[Visited(t, a).key], Visited(t, a).key) = Visited(t, a).val
  BY VisitIs
<1>5. \A a, b \in V : Visited(t, a).key = Visited(t, b).key => a = b
  BY VisitsApart
<1>6. \A k \in Keys : Value(c, k) # Null => \E a \in V : Visited(t, a).key = k
  BY VisitOf
<1> HIDE DEF V, w
<1>7. \A a, b \in V : <<a, b>> \in R <=> Before(a, b)
  OBVIOUS
<1>8. \A a \in V : Number(V, R, a) = num(a)
  <2>1. ASSUME NEW a \in V PROVE {b \in V : <<b, a>> \in R} = {b \in V : Before(b, a)}
    BY <1>7
  <2>2. QED
    BY <2>1 DEF Number
<1> HIDE DEF R, num
<1>9. /\ \A a \in V : num(a) \in 1 .. Len(c)
      /\ \A a, b \in V : Before(a, b) => num(a) < num(b)
      /\ \A n \in 1 .. Len(c) : \E a \in V : num(a) = n
  <2>1. /\ \A a \in V : Number(V, R, a) \in 1 .. Cardinality(V)
        /\ \A a, b \in V : <<a, b>> \in R => Number(V, R, a) < Number(V, R, b)
        /\ \A n \in 1 .. Cardinality(V) : \E a \in V : Number(V, R, a) = n
    <3>1. \A a \in V : <<a, a>> \notin R
      BY <1>2, <1>7
    <3>2. \A a, b, d \in V : <<a, b>> \in R /\ <<b, d>> \in R => <<a, d>> \in R
      BY <1>2, <1>7
    <3>3. \A a, b \in V : a # b => <<a, b>> \in R \/ <<b, a>> \in R
      BY <1>2, <1>7
    <3>4. QED
      BY <1>1, <3>1, <3>2, <3>3, NumbersAre
  <2>2. QED
    BY <1>1, <1>7, <1>8, <2>1
<1>10. \A n \in 1 .. Len(c) : at(n) \in V /\ num(at(n)) = n
  BY <1>9
<1>11. \A a \in V : at(num(a)) = a
  <2>1. ASSUME NEW a \in V, NEW b \in V, num(a) = num(b) PROVE a = b
    <3>1. num(a) \in Int /\ ~(num(a) < num(b)) /\ ~(num(b) < num(a))
      BY <1>9, <2>1
    <3>2. QED
      BY <1>2, <1>9, <3>1
  <2>2. QED
    BY <1>9, <1>10, <2>1
<1> HIDE DEF at
<1>12. w \in Seq(Entries) /\ Len(w) = Len(c)
  <2>1. w \in [1 .. Len(c) -> Entries]
    BY <1>3, <1>4, <1>10
  <2>2. QED
    BY <1>1, <2>1, SeqIs
<1>13. \A n \in 1 .. Len(w) : w[n] = Visited(t, at(n)) /\ at(n) \in V /\ num(at(n)) = n
  BY <1>3, <1>10, <1>12
<1>14. Apart(w)
  <2>1. DOMAIN w = 1 .. Len(w)
    BY <1>12
  <2>2. ASSUME NEW m \in 1 .. Len(w), NEW n \in 1 .. Len(w), w[m].key = w[n].key PROVE m = n
    <3>1. at(m) = at(n)
      BY <1>5, <1>13, <2>2
    <3>2. QED
      BY <1>13, <3>1
  <2>3. QED
    BY <2>1, <2>2 DEF Apart
<1>15. ASSUME NEW k \in Keys PROVE Value(w, k) = Value(c, k)
  <2>1. CASE \E a \in V : Visited(t, a).key = k
    <3>1. PICK a \in V : Visited(t, a).key = k
      BY <2>1
    <3>2. num(a) \in 1 .. Len(w) /\ w[num(a)] = Visited(t, a)
      BY <1>9, <1>11, <1>12, <1>13
    <3>3. Value(w, w[num(a)].key) = w[num(a)].val
      BY <1>12, <1>14, <3>2, FindAt
    <3>4. Value(c, k) = Visited(t, a).val
      BY <1>4, <3>1
    <3>5. QED
      BY <3>1, <3>2, <3>3, <3>4
  <2>2. CASE \A a \in V : Visited(t, a).key # k
    <3>1. \A n \in 1 .. Len(w) : w[n].key # k
      BY <1>13, <2>2
    <3>2. Value(w, k) = Null
      BY <1>12, <3>1, ValueNone
    <3>3. Value(c, k) = Null
      BY <1>6, <2>2
    <3>4. QED
      BY <3>2, <3>3
  <2>3. QED
    BY <2>1, <2>2
<1>16. QED
  BY <1>12, <1>14, <1>15 DEF w

-----------------------------------------------------------------------------
(* The table of a linked map.                                              *)

\* A probe visits slots of the table, and every slot.
LEMMA AtIs ==
  ASSUME NEW cap \in Nat \ {0}, NEW h \in Nat
  PROVE  /\ \A i \in 0 .. cap - 1 : At(cap, h, i) \in 0 .. cap - 1
         /\ \A s \in 0 .. cap - 1 : \E i \in 0 .. cap - 1 : At(cap, h, i) = s
<1> DEFINE r == h % cap
<1>1. r \in 0 .. cap - 1
  OBVIOUS
<1>2. ASSUME NEW i \in 0 .. cap - 1 PROVE At(cap, h, i) = IF r + i < cap THEN r + i ELSE r + i - cap
  <2> DEFINE s == (h % cap) + i
  <2>1. At(cap, h, i) = IF s < cap THEN s ELSE s - cap
    BY DEF At
  <2>2. s = r + i /\ r \in Int /\ i \in Int /\ s \in Int
    BY <1>1
  <2> HIDE DEF s, r
  <2>3. QED
    BY <2>1, <2>2
<1> HIDE DEF r
<1>3. ASSUME NEW i \in 0 .. cap - 1 PROVE At(cap, h, i) \in 0 .. cap - 1
  BY <1>1, <1>2
<1>4. ASSUME NEW s \in 0 .. cap - 1 PROVE \E i \in 0 .. cap - 1 : At(cap, h, i) = s
  <2>1. CASE r <= s
    <3>1. s - r \in 0 .. cap - 1 /\ r + (s - r) < cap /\ r + (s - r) = s
      BY <1>1, <2>1
    <3>2. At(cap, h, s - r) = s
      BY <1>2, <3>1
    <3>3. QED
      BY <3>1, <3>2
  <2>2. CASE s < r
    <3>1. s + cap - r \in 0 .. cap - 1 /\ ~(r + (s + cap - r) < cap) /\ r + (s + cap - r) - cap = s
      BY <1>1, <2>2
    <3>2. At(cap, h, s + cap - r) = s
      BY <1>2, <3>1
    <3>3. QED
      BY <3>1, <3>2
  <2>3. QED
    BY <1>1, <2>1, <2>2
<1>5. QED
  BY <1>3, <1>4

\* Where a probe ends.
LEMMA FirstIs ==
  ASSUME NEW cap \in Nat, NEW stops, stops \subseteq 0 .. cap - 1
  PROVE  /\ stops = {} => First(cap, stops) = cap
         /\ stops # {} => /\ First(cap, stops) \in stops /\ First(cap, stops) # cap
                          /\ \A m \in 0 .. First(cap, stops) - 1 : m \notin stops
<1>1. CASE stops = {}
  BY <1>1 DEF First
<1>2. CASE stops # {}
  <2>1. First(cap, stops) = Min(stops)
    BY <1>2 DEF First
  <2>2. Min(stops) \in stops /\ \A x \in stops : Min(stops) <= x
    <3>1. stops \subseteq Nat
      OBVIOUS
    <3>2. QED
      BY <1>2, <3>1, MinIs
  <2>3. Min(stops) \in 0 .. cap - 1
    BY <2>2
  <2>4. ASSUME NEW m \in 0 .. Min(stops) - 1 PROVE m \notin stops
    <3>1. ~(Min(stops) <= m)
      BY <2>3
    <3>2. QED
      BY <2>2, <3>1
  <2>5. Min(stops) # cap
    BY <2>3
  <2>6. QED
    BY <1>2, <2>1, <2>2, <2>4, <2>5
<1>3. QED
  BY <1>1, <1>2

Slots == [occupied : {0, 1, 2}, key : Keys \cup {Tomb}, entry : Nat]

\* A probe for hash h, past slots that are not empty, reaches entry i of key k.
Reached(idx, cap, h, k, i) ==
  \E j \in 0 .. cap - 1 : /\ idx[At(cap, h, j)] = Slot(k, i)
                          /\ \A m \in 0 .. j - 1 : idx[At(cap, h, m)].occupied # 0

\* What is right about a table for the first n entries of es.
IndexOK(hf, es, n, idx, cap) ==
  /\ cap \in Nat \ {0} /\ idx \in [0 .. cap - 1 -> Slots]
  /\ \A s \in 0 .. cap - 1 :
       /\ idx[s].occupied = 0 => idx[s].entry = 0
       /\ idx[s].occupied = 1 => /\ idx[s].entry \in 1 .. n /\ idx[s].key \in Keys
                                 /\ es[idx[s].entry].key = idx[s].key
  /\ \A s, r \in 0 .. cap - 1 :
       idx[s].occupied = 1 /\ idx[r].occupied = 1 /\ idx[s].entry = idx[r].entry => s = r
  /\ \A i \in 1 .. n : es[i].key # Tomb => Reached(idx, cap, hf[es[i].key], es[i].key, i)

\* Keys of entries that are not tombstones differ.
LiveApart(es) == \A i, j \in LiveAt(es) : es[i].key = es[j].key => i = j

\* index_lookup finds the entry of a key, or none.
LEMMA IndexLookupIs ==
  ASSUME NEW hf \in [Keys -> Hashes], NEW es, NEW n, DOMAIN es = 1 .. n, NEW idx, NEW cap,
         IndexOK(hf, es, n, idx, cap), LiveApart(es), NEW k \in Keys
  PROVE  /\ \A i \in 1 .. n : es[i].key = k => IndexLookup(idx, hf[k], k) = i
         /\ (\A i \in 1 .. n : es[i].key # k) => IndexLookup(idx, hf[k], k) = 0
<1> DEFINE h == hf[k]
           stops == {j \in 0 .. cap - 1 : LET s == idx[At(cap, h, j)] IN s.occupied = 0 \/ (s.occupied = 1 /\ s.key = k)}
           f == First(cap, stops)
<1>1. cap \in Nat \ {0} /\ DOMAIN idx = 0 .. cap - 1 /\ h \in Nat /\ k # Tomb
  BY HashAssumption, TombAssumption DEF IndexOK
<1>2. Cap(idx) = cap
  <2>1. Cardinality(0 .. cap - 1) = IF 0 > cap - 1 THEN 0 ELSE cap - 1 - 0 + 1
    <3>1. 0 \in Int /\ cap - 1 \in Int
      BY <1>1
    <3>2. QED
      BY <3>1, FS_Interval
  <2>2. QED
    BY <1>1, <2>1 DEF Cap
<1>3. IndexLookup(idx, h, k) = IF f = cap THEN 0 ELSE idx[At(cap, h, f)].entry
  BY <1>2 DEF IndexLookup, ToKey
<1>4. /\ stops = {} => f = cap
      /\ stops # {} => f \in stops /\ f # cap /\ \A m \in 0 .. f - 1 : m \notin stops
  <2>1. stops \subseteq 0 .. cap - 1 /\ cap \in Nat
    BY <1>1
  <2> HIDE DEF stops
  <2>2. QED
    BY <2>1, FirstIs
<1>5. \A j \in stops : /\ j \in 0 .. cap - 1 /\ At(cap, h, j) \in 0 .. cap - 1
                       /\ idx[At(cap, h, j)].occupied = 0
                          \/ (idx[At(cap, h, j)].occupied = 1 /\ idx[At(cap, h, j)].key = k)
  BY <1>1, AtIs
<1>6. \A j \in 0 .. cap - 1 : idx[At(cap, h, j)].occupied = 1 /\ idx[At(cap, h, j)].key = k => j \in stops
  OBVIOUS
<1> HIDE DEF stops, f, h
<1>7. ASSUME NEW i \in 1 .. n, es[i].key = k PROVE IndexLookup(idx, h, k) = i
  <2>1. Reached(idx, cap, h, k, i)
    BY <1>1, <1>7 DEF IndexOK, h
  <2>2. PICK j \in 0 .. cap - 1 : /\ idx[At(cap, h, j)] = Slot(k, i)
                                  /\ \A m \in 0 .. j - 1 : idx[At(cap, h, m)].occupied # 0
    BY <2>1 DEF Reached
  <2>3. j \in stops
    BY <1>6, <2>2 DEF Slot
  <2>4. f \in stops /\ f # cap /\ \A m \in 0 .. f - 1 : m \notin stops
    BY <1>4, <2>3
  <2>5. f \in 0 .. cap - 1 /\ At(cap, h, f) \in 0 .. cap - 1
    BY <1>5, <2>4
  <2>6. f <= j
    <3>1. ~(j < f)
      <4>1. j < f => j \in 0 .. f - 1
        BY <1>1, <2>5
      <4>2. QED
        BY <2>3, <2>4, <4>1
    <3>2. QED
      BY <1>1, <2>5, <3>1
  <2>7. idx[At(cap, h, f)].occupied # 0
    <3>1. CASE f = j
      BY <2>2, <3>1 DEF Slot
    <3>2. CASE f # j
      <4>1. f \in 0 .. j - 1
        BY <1>1, <2>5, <2>6, <3>2
      <4>2. QED
        BY <2>2, <4>1
    <3>3. QED
      BY <3>1, <3>2
  <2>8. idx[At(cap, h, f)].occupied = 1 /\ idx[At(cap, h, f)].key = k
    BY <1>5, <2>4, <2>7
  <2> DEFINE e == idx[At(cap, h, f)].entry
  <2>9. e \in 1 .. n /\ es[e].key = k
    BY <2>5, <2>8 DEF IndexOK
  <2>10. e \in LiveAt(es) /\ i \in LiveAt(es)
    BY <1>1, <1>7, <2>9 DEF LiveAt
  <2> HIDE DEF e
  <2>11. e = i
    BY <1>7, <2>9, <2>10 DEF LiveApart
  <2>12. QED
    BY <1>3, <2>4, <2>11 DEF e
<1>8. ASSUME \A i \in 1 .. n : es[i].key # k PROVE IndexLookup(idx, h, k) = 0
  <2>1. CASE stops = {}
    BY <1>3, <1>4, <2>1
  <2>2. CASE stops # {}
    <3>1. f \in stops /\ f # cap
      BY <1>4, <2>2
    <3>2. At(cap, h, f) \in 0 .. cap - 1
      BY <1>5, <3>1
    <3>3. ~(idx[At(cap, h, f)].occupied = 1 /\ idx[At(cap, h, f)].key = k)
      BY <1>8, <3>2 DEF IndexOK
    <3>4. idx[At(cap, h, f)].occupied = 0
      BY <1>5, <3>1, <3>3
    <3>5. idx[At(cap, h, f)].entry = 0
      BY <3>2, <3>4 DEF IndexOK
    <3>6. QED
      BY <1>3, <3>1, <3>5
  <2>3. QED
    BY <2>1, <2>2
<1>9. QED
  BY <1>7, <1>8 DEF h

\* What the doubling of next_pow2 goes through.
IsDoubling(f, n, m) ==
  f = [i \in 0..m |-> IF i = 0 THEN MinCap ELSE IF f[i - 1] < n THEN 2 * f[i - 1] ELSE f[i - 1]]

\* There is such a function, for any number of rounds.
LEMMA DoublingUpTo ==
  ASSUME NEW n, NEW m \in Nat
  PROVE  \E f : IsDoubling(f, n, m)
<1> DEFINE Have == {l \in Nat : \E f : IsDoubling(f, n, l)}
           next(x) == IF x < n THEN 2 * x ELSE x
<1>1. 0 \in Have
  <2>1. IsDoubling([i \in 0..0 |-> MinCap], n, 0)
    BY DEF IsDoubling
  <2>2. QED
    BY <2>1
<1>2. ASSUME NEW l \in Nat, l \in Have PROVE l + 1 \in Have
  <2>1. PICK f : IsDoubling(f, n, l)
    BY <1>2
  <2>2. \A i \in 0..l : f[i] = IF i = 0 THEN MinCap ELSE next(f[i - 1])
    BY <2>1 DEF IsDoubling
  <2> HIDE DEF next
  <2> DEFINE g == [i \in 0..(l + 1) |-> IF i <= l THEN f[i] ELSE next(f[l])]
  <2>3. ASSUME NEW i \in 0..(l + 1) PROVE g[i] = IF i = 0 THEN MinCap ELSE next(g[i - 1])
    <3>1. CASE i = 0
      BY <2>2, <3>1
    <3>2. CASE i \in 1..l
      <4>1. i - 1 \in 0..(l + 1) /\ i - 1 <= l /\ i \in 0..l /\ i <= l /\ i # 0
        BY <3>2
      <4>2. g[i] = f[i] /\ g[i - 1] = f[i - 1]
        BY <4>1
      <4>3. QED
        BY <2>2, <4>1, <4>2
    <3>3. CASE i = l + 1
      <4>1. g[i] = next(f[l]) /\ g[i - 1] = f[l] /\ i # 0
        BY <3>3
      <4>2. QED
        BY <4>1
    <3>4. QED
      BY <3>1, <3>2, <3>3
  <2> HIDE DEF g
  <2>4. g = [i \in 0..(l + 1) |-> g[i]]
    BY DEF g
  <2>5. IsDoubling(g, n, l + 1)
    BY <2>3, <2>4 DEF IsDoubling, next
  <2>6. QED
    BY <2>5
<1> HIDE DEF Have
<1>3. Nat \subseteq Have
  BY <1>1, <1>2, SetInduction
<1>4. QED
  BY <1>3 DEF Have

\* next_pow2 does not go below its argument.
LEMMA NextPow2Is ==
  ASSUME NEW n \in Nat
  PROVE  NextPow2(n) \in Nat \ {0} /\ NextPow2(n) >= n
<1> DEFINE p == CHOOSE f : IsDoubling(f, n, n)
<1>1. IsDoubling(p, n, n)
  BY DoublingUpTo
<1>2. NextPow2(n) = p[n]
  BY DEF NextPow2, IsDoubling
<1> HIDE DEF p
<1>3. \A i \in 0..n : p[i] = IF i = 0 THEN MinCap ELSE IF p[i - 1] < n THEN 2 * p[i - 1] ELSE p[i - 1]
  BY <1>1 DEF IsDoubling
<1> DEFINE Good == {i \in Nat : i <= n => p[i] \in Nat \ {0} /\ (p[i] >= n \/ p[i] >= i)}
<1>4. 0 \in Good
  BY <1>3, CapAssumption
<1>5. ASSUME NEW i \in Nat, i \in Good PROVE i + 1 \in Good
  <2>1. SUFFICES ASSUME i + 1 <= n PROVE p[i + 1] \in Nat \ {0} /\ (p[i + 1] >= n \/ p[i + 1] >= i + 1)
    OBVIOUS
  <2>2. p[i] \in Nat \ {0} /\ (p[i] >= n \/ p[i] >= i)
    BY <1>5, <2>1
  <2>3. p[i + 1] = IF p[i] < n THEN 2 * p[i] ELSE p[i]
    <3>1. i + 1 \in 0..n /\ i + 1 - 1 = i /\ i + 1 # 0
      BY <2>1
    <3>2. QED
      BY <1>3, <3>1
  <2>4. QED
    BY <2>1, <2>2, <2>3
<1> HIDE DEF Good
<1>6. Nat \subseteq Good
  BY <1>4, <1>5, SetInduction
<1>7. n \in Good
  BY <1>6
<1>8. QED
  BY <1>2, <1>7 DEF Good

\* The slots of a table that are not empty.
Used(idx) == {s \in DOMAIN idx : idx[s].occupied # 0}

\* Entry n goes into the first empty slot.
FillStep(idx, es, n, cap, hf) ==
  [idx EXCEPT ![At(cap, hf[es[n].key], ToEmpty(idx, hf[es[n].key], cap))] = Slot(es[n].key, n)]

\* What a table built up to its n-th entry is right about.
FilledOK(hf, es, n, idx, cap) ==
  IndexOK(hf, es, n, idx, cap) /\ IsFiniteSet(Used(idx)) /\ Cardinality(Used(idx)) = n

\* As long as a slot is empty, the next entry finds one and keeps the table right.
LEMMA FillStepIs ==
  ASSUME NEW hf \in [Keys -> Hashes], NEW es \in Seq(Entries), NEW n \in Nat, n + 1 <= Len(es),
         NEW idx, NEW cap, n < cap, FilledOK(hf, es, n, idx, cap)
  PROVE  FilledOK(hf, es, n + 1, FillStep(idx, es, n + 1, cap, hf), cap)
<1> DEFINE k == es[n + 1].key
           h == hf[k]
           stops == {i \in 0..cap - 1 : idx[At(cap, h, i)].occupied = 0}
           f == ToEmpty(idx, h, cap)
           t == At(cap, h, f)
           sl == Slot(k, n + 1)
           new == FillStep(idx, es, n + 1, cap, hf)
<1>1. /\ cap \in Nat \ {0} /\ idx \in [0 .. cap - 1 -> Slots]
      /\ IsFiniteSet(Used(idx)) /\ Cardinality(Used(idx)) = n
  BY DEF FilledOK, IndexOK
<1>2. k \in Keys /\ h \in Nat /\ k # Tomb
  <2>1. es[n + 1] \in Entries
    BY ElementOfSeq
  <2>2. QED
    BY <2>1, HashAssumption, TombAssumption DEF Entries
<1>3. IsFiniteSet(0 .. cap - 1) /\ Cardinality(0 .. cap - 1) = cap
  <2>1. 0 \in Int /\ cap - 1 \in Int
    BY <1>1
  <2>2. IsFiniteSet(0 .. cap - 1) /\ Cardinality(0 .. cap - 1) = IF 0 > cap - 1 THEN 0 ELSE cap - 1 - 0 + 1
    BY <2>1, FS_Interval
  <2>3. QED
    BY <1>1, <2>2
<1>4. \E s \in 0 .. cap - 1 : idx[s].occupied = 0
  <2>1. Used(idx) # 0 .. cap - 1
    BY <1>1, <1>3
  <2>2. QED
    BY <1>1, <2>1 DEF Used
<1>5. f = First(cap, stops)
  BY DEF ToEmpty
<1>6. stops # {} /\ stops \subseteq 0 .. cap - 1
  <2>1. PICK s \in 0 .. cap - 1 : idx[s].occupied = 0
    BY <1>4
  <2>2. PICK i \in 0 .. cap - 1 : At(cap, h, i) = s
    BY <1>1, <1>2, AtIs
  <2>3. QED
    BY <2>1, <2>2
<1>7. f \in stops /\ \A m \in 0 .. f - 1 : m \notin stops
  <2> HIDE DEF stops, f
  <2>1. cap \in Nat
    BY <1>1
  <2>2. QED
    BY <1>5, <1>6, <2>1, FirstIs
<1>8. f \in 0 .. cap - 1 /\ idx[t].occupied = 0 /\ \A m \in 0 .. f - 1 : idx[At(cap, h, m)].occupied # 0
  <2> HIDE DEF f
  <2>1. f \in 0 .. cap - 1 /\ idx[At(cap, h, f)].occupied = 0
    BY <1>7
  <2>2. \A m \in 0 .. f - 1 : m \in 0 .. cap - 1
    BY <1>1, <2>1
  <2>3. QED
    BY <1>7, <2>1, <2>2
<1> HIDE DEF stops, f
<1>9. t \in 0 .. cap - 1
  BY <1>1, <1>2, <1>8, AtIs
<1>10. new = [idx EXCEPT ![t] = sl]
  BY DEF FillStep, f
<1>11. sl \in Slots /\ sl.occupied = 1 /\ sl.key = k /\ sl.entry = n + 1
  BY <1>2 DEF Slot, Slots
<1>12. /\ new \in [0 .. cap - 1 -> Slots] /\ new[t] = sl
       /\ \A s \in 0 .. cap - 1 : s # t => new[s] = idx[s]
  <2> HIDE DEF new, t, sl
  <2>1. QED
    BY <1>1, <1>9, <1>10, <1>11
<1> HIDE DEF new, sl
<1>13. \A j \in 0 .. cap - 1 : \A x \in Nat : At(cap, x, j) \in 0 .. cap - 1
  BY <1>1, AtIs
<1>14. Used(new) = Used(idx) \cup {t} /\ t \notin Used(idx)
  <2>1. idx[t].occupied = 0 /\ new[t].occupied = 1
    BY <1>8, <1>11, <1>12
  <2> HIDE DEF t
  <2>2. DOMAIN new = 0 .. cap - 1 /\ DOMAIN idx = 0 .. cap - 1
    BY <1>1, <1>12
  <2>3. \A s \in 0 .. cap - 1 : new[s].occupied # 0 <=> s = t \/ idx[s].occupied # 0
    BY <1>12, <2>1
  <2>4. QED
    BY <1>9, <2>1, <2>2, <2>3 DEF Used
<1>15. IsFiniteSet(Used(new)) /\ Cardinality(Used(new)) = n + 1
  <2> HIDE DEF t
  <2>1. /\ IsFiniteSet(Used(idx) \cup {t})
        /\ Cardinality(Used(idx) \cup {t}) = IF t \in Used(idx) THEN Cardinality(Used(idx)) ELSE Cardinality(Used(idx)) + 1
    BY <1>1, FS_AddElement
  <2>2. QED
    BY <1>1, <1>14, <2>1
<1>16. \A s \in 0 .. cap - 1 :
         /\ idx[s].occupied = 0 => idx[s].entry = 0
         /\ idx[s].occupied = 1 => /\ idx[s].entry \in 1 .. n /\ idx[s].key \in Keys
                                   /\ es[idx[s].entry].key = idx[s].key
  BY DEF FilledOK, IndexOK
<1>17. ASSUME NEW s \in 0 .. cap - 1
       PROVE  /\ new[s].occupied = 0 => new[s].entry = 0
              /\ new[s].occupied = 1 => /\ new[s].entry \in 1 .. n + 1 /\ new[s].key \in Keys
                                        /\ es[new[s].entry].key = new[s].key
  <2>1. CASE s = t
    <3>1. new[s] = new[t]
      BY <2>1
    <3>2. new[s].occupied = 1 /\ new[s].entry \in 1 .. n + 1 /\ new[s].key \in Keys
          /\ es[new[s].entry].key = new[s].key
      BY <1>2, <1>11, <1>12, <3>1
    <3>3. QED
      BY <3>2
  <2>2. CASE s # t
    <3>1. new[s] = idx[s]
      BY <1>12, <2>2
    <3>2. \A i \in 1 .. n : i \in 1 .. n + 1
      OBVIOUS
    <3>3. QED
      BY <1>16, <3>1, <3>2
  <2>3. QED
    BY <2>1, <2>2
<1>18. ASSUME NEW s \in 0 .. cap - 1, NEW r \in 0 .. cap - 1,
              new[s].occupied = 1, new[r].occupied = 1, new[s].entry = new[r].entry
       PROVE  s = r
  <2>1. n + 1 \notin 1 .. n
    OBVIOUS
  <2>2. CASE s = t \/ r = t
    BY <1>11, <1>12, <1>16, <1>18, <2>1, <2>2
  <2>3. CASE s # t /\ r # t
    BY <1>12, <1>18, <2>3 DEF FilledOK, IndexOK
  <2>4. QED
    BY <2>2, <2>3
<1>19. \A s \in 0 .. cap - 1 : idx[s].occupied # 0 => new[s].occupied # 0 /\ s # t
  BY <1>8, <1>12
<1>20. ASSUME NEW i \in 1 .. n + 1, es[i].key # Tomb PROVE Reached(new, cap, hf[es[i].key], es[i].key, i)
  <2>1. CASE i = n + 1
    <3>1. new[At(cap, h, f)] = Slot(k, n + 1)
      BY <1>12 DEF sl
    <3>2. \A m \in 0 .. f - 1 : At(cap, h, m) \in 0 .. cap - 1
      <4>1. \A m \in 0 .. f - 1 : m \in 0 .. cap - 1
        BY <1>1, <1>8
      <4>2. QED
        BY <1>2, <1>13, <4>1
    <3>3. \A m \in 0 .. f - 1 : new[At(cap, h, m)].occupied # 0
      BY <1>8, <1>19, <3>2
    <3>4. QED
      BY <1>8, <2>1, <3>1, <3>3 DEF Reached
  <2>2. CASE i # n + 1
    <3> DEFINE g == hf[es[i].key]
    <3>1. i \in 1 .. n /\ i \in 1 .. Len(es)
      BY <2>2
    <3>2. g \in Nat
      <4>1. es[i] \in Entries
        BY <3>1, ElementOfSeq
      <4>2. QED
        BY <4>1, HashAssumption DEF Entries
    <3>3. Reached(idx, cap, g, es[i].key, i)
      BY <1>20, <3>1 DEF FilledOK, IndexOK
    <3> HIDE DEF g
    <3>4. PICK j \in 0 .. cap - 1 : /\ idx[At(cap, g, j)] = Slot(es[i].key, i)
                                    /\ \A m \in 0 .. j - 1 : idx[At(cap, g, m)].occupied # 0
      BY <3>3 DEF Reached
    <3>5. At(cap, g, j) # t /\ At(cap, g, j) \in 0 .. cap - 1
      <4>1. idx[At(cap, g, j)].occupied = 1
        BY <3>4 DEF Slot
      <4>2. At(cap, g, j) # t
        <5> HIDE DEF t
        <5>1. QED
          BY <1>8, <4>1 DEF t
      <4>3. QED
        BY <1>13, <3>2, <4>2
    <3>6. new[At(cap, g, j)] = Slot(es[i].key, i)
      BY <1>12, <3>4, <3>5
    <3>7. \A m \in 0 .. j - 1 : At(cap, g, m) \in 0 .. cap - 1
      <4>1. \A m \in 0 .. j - 1 : m \in 0 .. cap - 1
        BY <1>1
      <4>2. QED
        BY <1>13, <3>2, <4>1
    <3>8. \A m \in 0 .. j - 1 : new[At(cap, g, m)].occupied # 0
      BY <1>19, <3>4, <3>7
    <3>9. QED
      BY <3>6, <3>8 DEF Reached, g
  <2>3. QED
    BY <2>1, <2>2
<1>21. IndexOK(hf, es, n + 1, new, cap)
  BY <1>1, <1>12, <1>17, <1>18, <1>20 DEF IndexOK
<1>22. QED
  BY <1>15, <1>21 DEF FilledOK, new

\* What build_index goes through.
IsFill(f, es, cap, hf, n) ==
  f = [i \in 0..n |-> IF i = 0 THEN [s \in 0..cap - 1 |-> Empty] ELSE FillStep(f[i - 1], es, i, cap, hf)]

\* There is such a function, for any number of entries.
LEMMA FillUpTo ==
  ASSUME NEW es, NEW cap, NEW hf, NEW n \in Nat
  PROVE  \E f : IsFill(f, es, cap, hf, n)
<1> DEFINE Have == {l \in Nat : \E f : IsFill(f, es, cap, hf, l)}
           none == [s \in 0..cap - 1 |-> Empty]
<1>1. 0 \in Have
  <2>1. IsFill([i \in 0..0 |-> none], es, cap, hf, 0)
    BY DEF IsFill
  <2>2. QED
    BY <2>1
<1>2. ASSUME NEW l \in Nat, l \in Have PROVE l + 1 \in Have
  <2>1. PICK f : IsFill(f, es, cap, hf, l)
    BY <1>2
  <2>2. \A i \in 0..l : f[i] = IF i = 0 THEN none ELSE FillStep(f[i - 1], es, i, cap, hf)
    BY <2>1 DEF IsFill
  <2> HIDE DEF none
  <2> DEFINE last == FillStep(f[l], es, l + 1, cap, hf)
             g == [i \in 0..(l + 1) |-> IF i <= l THEN f[i] ELSE last]
  <2>3. ASSUME NEW i \in 0..(l + 1) PROVE g[i] = IF i = 0 THEN none ELSE FillStep(g[i - 1], es, i, cap, hf)
    <3>1. CASE i = 0
      BY <2>2, <3>1
    <3>2. CASE i \in 1..l
      <4>1. i - 1 \in 0..(l + 1) /\ i - 1 <= l /\ i \in 0..l /\ i <= l /\ i # 0
        BY <3>2
      <4>2. g[i] = f[i] /\ g[i - 1] = f[i - 1]
        BY <4>1
      <4> HIDE DEF g
      <4>3. QED
        BY <2>2, <4>1, <4>2
    <3>3. CASE i = l + 1
      <4>1. g[i] = last /\ g[i - 1] = f[l] /\ i # 0
        BY <3>3
      <4> HIDE DEF g
      <4>2. QED
        BY <3>3, <4>1
    <3>4. QED
      BY <3>1, <3>2, <3>3
  <2> HIDE DEF g
  <2>4. g = [i \in 0..(l + 1) |-> g[i]]
    BY DEF g
  <2>5. IsFill(g, es, cap, hf, l + 1)
    BY <2>3, <2>4 DEF IsFill, none
  <2>6. QED
    BY <2>5
<1> HIDE DEF Have
<1>3. Nat \subseteq Have
  BY <1>1, <1>2, SetInduction
<1>4. QED
  BY <1>3 DEF Have

\* build_index in a table of twice the size, for entries without tombstones.
LEMMA BuildIndexIs ==
  ASSUME NEW hf \in [Keys -> Hashes], NEW es \in Seq(Entries), Apart(es),
         NEW cap \in Nat \ {0}, 2 * Len(es) <= cap
  PROVE  FilledOK(hf, es, Len(es), BuildIndex(es, cap, hf), cap)
<1> DEFINE L == Len(es)
           F == CHOOSE f : IsFill(f, es, cap, hf, L)
<1>1. L \in Nat
  OBVIOUS
<1>2. IsFill(F, es, cap, hf, L)
  <2> HIDE DEF L
  <2>1. QED
    BY <1>1, FillUpTo
<1>3. BuildIndex(es, cap, hf) = F[L]
  BY DEF BuildIndex, IsFill, FillStep
<1> HIDE DEF F
<1>4. \A i \in 0..L : F[i] = IF i = 0 THEN [s \in 0..cap - 1 |-> Empty] ELSE FillStep(F[i - 1], es, i, cap, hf)
  BY <1>2 DEF IsFill
<1> DEFINE Good == {n \in Nat : n <= L => FilledOK(hf, es, n, F[n], cap)}
<1>5. 0 \in Good
  <2>1. F[0] = [s \in 0..cap - 1 |-> Empty]
    BY <1>1, <1>4
  <2> HIDE DEF L
  <2>2. Empty \in Slots /\ Empty.occupied = 0 /\ Empty.entry = 0
    BY DEF Empty, Slots
  <2>3. /\ F[0] \in [0 .. cap - 1 -> Slots]
        /\ \A s \in 0 .. cap - 1 : F[0][s].occupied = 0 /\ F[0][s].entry = 0
    <3> HIDE DEF Empty
    <3>1. QED
      BY <2>1, <2>2
  <2>4. Used(F[0]) = {}
    BY <2>3 DEF Used
  <2>5. IsFiniteSet({}) /\ Cardinality({}) = 0
    BY FS_EmptySet
  <2>6. IndexOK(hf, es, 0, F[0], cap)
    BY <2>3 DEF IndexOK
  <2>7. QED
    BY <2>4, <2>5, <2>6 DEF FilledOK
<1>6. ASSUME NEW n \in Nat, n \in Good PROVE n + 1 \in Good
  <2>1. SUFFICES ASSUME n + 1 <= L PROVE FilledOK(hf, es, n + 1, F[n + 1], cap)
    OBVIOUS
  <2>2. FilledOK(hf, es, n, F[n], cap)
    BY <1>1, <1>6, <2>1
  <2>3. F[n + 1] = FillStep(F[n], es, n + 1, cap, hf)
    <3>1. n + 1 \in 0..L /\ n + 1 - 1 = n /\ n + 1 # 0
      BY <1>1, <2>1
    <3>2. QED
      BY <1>4, <3>1
  <2>4. n < cap
    BY <1>1, <2>1
  <2>5. FilledOK(hf, es, n + 1, FillStep(F[n], es, n + 1, cap, hf), cap)
    BY <2>1, <2>2, <2>4, FillStepIs
  <2>6. QED
    BY <2>3, <2>5
<1> HIDE DEF Good
<1>7. Nat \subseteq Good
  BY <1>5, <1>6, SetInduction
<1>8. L \in Good
  BY <1>1, <1>7
<1>9. QED
  BY <1>1, <1>3, <1>8 DEF Good

\* Entries or tombstones.
Rows == [key : Keys \cup {Tomb}, val : Vals \cup {Unit}]

\* What is right about a linked map that holds what c holds, in its order.
TableOK(hf, es, idx, n, c) ==
  /\ es \in Seq(Rows) /\ n = Len(c)
  /\ LiveApart(es) /\ Kept(es, LiveAt(es)) = c
  /\ IndexOK(hf, es, Len(es), idx, Cap(idx))
  /\ IsFiniteSet(Used(idx)) /\ 2 * Cardinality(Used(idx)) <= Cap(idx)

\* How many slots a table has.
LEMMA CapIs ==
  ASSUME NEW cap \in Nat \ {0}, NEW idx \in [0 .. cap - 1 -> Slots]
  PROVE  Cap(idx) = cap
<1>1. DOMAIN idx = 0 .. cap - 1 /\ 0 \in Int /\ cap - 1 \in Int
  OBVIOUS
<1>2. Cardinality(0 .. cap - 1) = IF 0 > cap - 1 THEN 0 ELSE cap - 1 - 0 + 1
  BY <1>1, FS_Interval
<1>3. QED
  BY <1>1, <1>2 DEF Cap

\* make_map makes a map of the entries it is given.
LEMMA MakeIs ==
  ASSUME NEW hf \in [Keys -> Hashes], NEW es \in Seq(Entries), Apart(es)
  PROVE  TableOK(hf, es, BuildIndex(es, NextPow2(IF es = <<>> THEN MinCap ELSE 2 * Len(es)), hf), Len(es), es)
<1> DEFINE m == IF es = <<>> THEN MinCap ELSE 2 * Len(es)
           cap == NextPow2(m)
           idx == BuildIndex(es, cap, hf)
<1>1. Len(es) \in Nat /\ m \in Nat /\ 2 * Len(es) <= m
  BY CapAssumption
<1>2. cap \in Nat \ {0} /\ cap >= m
  <2> HIDE DEF m
  <2>1. QED
    BY <1>1, NextPow2Is
<1> HIDE DEF m, cap
<1>3. FilledOK(hf, es, Len(es), idx, cap)
  <2>1. 2 * Len(es) <= cap
    BY <1>1, <1>2
  <2>2. QED
    BY <1>2, <2>1, BuildIndexIs
<1> HIDE DEF idx
<1>4. Cap(idx) = cap
  BY <1>2, <1>3, CapIs DEF FilledOK, IndexOK
<1>5. LiveAt(es) = 1 .. Len(es)
  <2>1. DOMAIN es = 1 .. Len(es)
    OBVIOUS
  <2>2. \A i \in 1 .. Len(es) : es[i].key # Tomb
    <3>1. \A i \in 1 .. Len(es) : es[i] \in Entries
      BY ElementOfSeq
    <3>2. QED
      BY <3>1, TombAssumption DEF Entries
  <2>3. QED
    BY <2>1, <2>2 DEF LiveAt
<1>6. Kept(es, LiveAt(es)) = es
  BY <1>5, KeptAll
<1>7. LiveApart(es)
  BY <1>5 DEF LiveApart, Apart
<1>8. es \in Seq(Rows)
  <2>1. Entries \subseteq Rows
    BY DEF Entries, Rows
  <2>2. QED
    BY <2>1
<1>9. 2 * Cardinality(Used(idx)) <= Cap(idx)
  BY <1>1, <1>2, <1>3, <1>4 DEF FilledOK
<1>10. TableOK(hf, es, idx, Len(es), es)
  BY <1>3, <1>4, <1>6, <1>7, <1>8, <1>9 DEF TableOK, FilledOK
<1>11. QED
  BY <1>10 DEF idx, cap, m

\* Where a key of a linked map is found: at the entry that goes where it stands in c.
LEMMA TableLookup ==
  ASSUME NEW hf \in [Keys -> Hashes], NEW es, NEW idx, NEW n, NEW c \in Seq(Entries), Apart(c),
         TableOK(hf, es, idx, n, c), NEW k \in Keys
  PROVE  LET found == IndexLookup(idx, hf[k], k)
         IN  /\ Find(c, k) = 0 => found = 0 /\ \A i \in 1 .. Len(es) : es[i].key # k
             /\ Find(c, k) # 0 => /\ found \in 1 .. Len(es) /\ found \in LiveAt(es)
                                  /\ Rank(LiveAt(es), found) = Find(c, k) /\ es[found] = c[Find(c, k)]
<1> DEFINE I == LiveAt(es)
           found == IndexLookup(idx, hf[k], k)
<1>1. /\ es \in Seq(Rows) /\ LiveApart(es) /\ Kept(es, I) = c
      /\ IndexOK(hf, es, Len(es), idx, Cap(idx)) /\ DOMAIN es = 1 .. Len(es)
  BY DEF TableOK
<1>2. /\ \A i \in 1 .. Len(es) : es[i].key = k => found = i
      /\ (\A i \in 1 .. Len(es) : es[i].key # k) => found = 0
  <2> HIDE DEF found
  <2>1. QED
    BY <1>1, IndexLookupIs DEF found
<1>3. I \subseteq 1 .. Len(es)
  BY <1>1 DEF LiveAt
<1>4. KeptInOrder(Rows, es, I)
  <2> HIDE DEF I
  <2>1. QED
    BY <1>1, <1>3, KeptIs
<1>5. /\ Len(c) = Cardinality(I)
      /\ \A i \in I : Rank(I, i) \in 1 .. Cardinality(I) /\ c[Rank(I, i)] = es[i]
      /\ \A m \in 1 .. Cardinality(I) : \E i \in I : Rank(I, i) = m /\ c[m] = es[i]
  BY <1>1, <1>4 DEF KeptInOrder
<1>6. \A i \in 1 .. Len(es) : es[i].key = k => i \in I
  BY <1>1, TombAssumption DEF LiveAt
<1> HIDE DEF I, found
<1>7. CASE \E i \in 1 .. Len(es) : es[i].key = k
  <2>1. PICK i \in 1 .. Len(es) : es[i].key = k
    BY <1>7
  <2>2. found = i /\ i \in I
    BY <1>2, <1>6, <2>1
  <2>3. Rank(I, i) \in 1 .. Len(c) /\ c[Rank(I, i)] = es[i]
    BY <1>5, <2>2
  <2>4. Find(c, c[Rank(I, i)].key) = Rank(I, i)
    BY <2>3, FindAt
  <2>5. Find(c, k) = Rank(I, i)
    BY <2>1, <2>3, <2>4
  <2>6. Find(c, k) # 0
    BY <2>3, <2>5
  <2>7. QED
    BY <2>1, <2>2, <2>3, <2>5, <2>6 DEF I, found
<1>8. CASE \A i \in 1 .. Len(es) : es[i].key # k
  <2>1. \A m \in 1 .. Len(c) : c[m].key # k
    BY <1>3, <1>5, <1>8
  <2>2. Find(c, k) = 0
    BY <2>1, ValueNone
  <2>3. QED
    BY <1>2, <1>8, <2>2 DEF found
<1>9. QED
  BY <1>7, <1>8

\* The two tombstones of linked_map_remove leave a map without the key.
LEMMA TableRemoved ==
  ASSUME NEW hf \in [Keys -> Hashes], NEW es, NEW idx, NEW n, NEW c \in Seq(Entries), Apart(c),
         TableOK(hf, es, idx, n, c), NEW k \in Keys, Find(c, k) # 0
  PROVE  LET found == IndexLookup(idx, hf[k], k)
             slot  == At(Cap(idx), hf[k], ToEntry(idx, hf[k], found, Cap(idx)))
         IN  TableOK(hf, [es EXCEPT ![found].key = Tomb], [idx EXCEPT ![slot].occupied = 2],
                     n - 1, RemoveAt(c, Find(c, k)))
<1> DEFINE I == LiveAt(es)
           h == hf[k]
           cap == Cap(idx)
           found == IndexLookup(idx, h, k)
           stops == {i \in 0..cap - 1 : LET s == idx[At(cap, h, i)] IN s.occupied = 1 /\ s.entry = found}
           f == ToEntry(idx, h, found, cap)
           slot == At(cap, h, f)
           fs == [es EXCEPT ![found].key = Tomb]
           new == [idx EXCEPT ![slot].occupied = 2]
           J == LiveAt(fs)
<1>1. /\ es \in Seq(Rows) /\ LiveApart(es) /\ Kept(es, I) = c /\ n = Len(c)
      /\ IndexOK(hf, es, Len(es), idx, cap) /\ DOMAIN es = 1 .. Len(es) /\ Len(es) \in Nat
      /\ IsFiniteSet(Used(idx)) /\ 2 * Cardinality(Used(idx)) <= cap
  BY DEF TableOK
<1>2. /\ found \in 1 .. Len(es) /\ found \in I
      /\ Rank(I, found) = Find(c, k) /\ es[found] = c[Find(c, k)]
  BY TableLookup
<1>3. c[Find(c, k)].key = k /\ Find(c, k) \in 1 .. Len(c)
  BY FindIs
<1>4. cap \in Nat \ {0} /\ idx \in [0 .. cap - 1 -> Slots] /\ DOMAIN idx = 0 .. cap - 1
  BY <1>1 DEF IndexOK
<1>5. h \in Nat /\ \A x \in Nat : \A j \in 0 .. cap - 1 : At(cap, x, j) \in 0 .. cap - 1
  BY <1>4, AtIs, HashAssumption
<1> HIDE DEF I, cap, found, h
<1>6. f = First(cap, stops)
  BY DEF ToEntry
<1>7. stops # {} /\ stops \subseteq 0 .. cap - 1
  <2>1. Reached(idx, cap, hf[es[found].key], es[found].key, found)
    BY <1>1, <1>2, <1>3, TombAssumption DEF IndexOK
  <2>2. PICK j \in 0 .. cap - 1 : idx[At(cap, h, j)] = Slot(k, found)
    BY <1>2, <1>3, <2>1 DEF Reached, h
  <2>3. j \in stops
    BY <2>2 DEF Slot
  <2>4. QED
    BY <2>3
<1>8. f \in stops
  <2> HIDE DEF stops, f
  <2>1. cap \in Nat
    BY <1>4
  <2>2. QED
    BY <1>6, <1>7, <2>1, FirstIs
<1>9. f \in 0 .. cap - 1 /\ idx[slot].occupied = 1 /\ idx[slot].entry = found
  <2> HIDE DEF f
  <2>1. QED
    BY <1>8
<1> HIDE DEF stops, f
<1>10. slot \in 0 .. cap - 1
  BY <1>5, <1>9
<1> HIDE DEF slot
\* The entries.
<1>11. /\ fs \in Seq(Rows) /\ Len(fs) = Len(es) /\ DOMAIN fs = 1 .. Len(es)
       /\ fs[found].key = Tomb /\ \A i \in 1 .. Len(es) : i # found => fs[i] = es[i]
  <2>1. es[found] \in Rows
    BY <1>1, <1>2, ElementOfSeq
  <2> DEFINE e == [es[found] EXCEPT !.key = Tomb]
  <2>2. e \in Rows /\ e.key = Tomb
    BY <2>1 DEF Rows
  <2>3. fs = [es EXCEPT ![found] = e]
    OBVIOUS
  <2> HIDE DEF e, fs
  <2>4. fs \in Seq(Rows) /\ Len(fs) = Len(es)
    BY <1>1, <1>2, <2>2, <2>3
  <2>5. QED
    BY <1>1, <1>2, <2>2, <2>3, <2>4
<1> HIDE DEF fs
<1>12. J = I \ {found} /\ I \subseteq 1 .. Len(es)
  BY <1>1, <1>11 DEF LiveAt, I
<1>13. Kept(fs, J) = RemoveAt(c, Find(c, k))
  <2>1. \A j \in I \ {found} : fs[j] = es[j]
    BY <1>11, <1>12
  <2>2. KeptBut(es, fs, I, found)
    BY <1>1, <1>2, <1>11, <1>12, <2>1, KeptWithout
  <2>3. Kept(fs, I \ {found}) = RemoveAt(Kept(es, I), Rank(I, found))
    BY <2>2 DEF KeptBut
  <2>4. QED
    BY <1>1, <1>2, <1>12, <2>3
<1>14. LiveApart(fs)
  <2>1. \A i \in J : i \in I /\ fs[i] = es[i]
    BY <1>11, <1>12
  <2>2. QED
    BY <1>1, <2>1 DEF LiveApart, I, J
<1>15. n - 1 = Len(RemoveAt(c, Find(c, k)))
  BY <1>1, <1>3, RemoveAtIs
\* The table.
<1>16. /\ new \in [0 .. cap - 1 -> Slots] /\ new[slot].occupied = 2
       /\ \A s \in 0 .. cap - 1 : s # slot => new[s] = idx[s]
  <2>1. idx[slot] \in Slots
    BY <1>4, <1>10
  <2> DEFINE s == [idx[slot] EXCEPT !.occupied = 2]
  <2>2. s \in Slots /\ s.occupied = 2
    BY <2>1 DEF Slots
  <2>3. new = [idx EXCEPT ![slot] = s]
    OBVIOUS
  <2> HIDE DEF s, new
  <2>4. QED
    BY <1>4, <1>10, <2>2, <2>3
<1> HIDE DEF new
<1>17. Used(new) = Used(idx)
  BY <1>4, <1>9, <1>10, <1>16 DEF Used
<1>18. Cap(new) = cap
  BY <1>4, <1>16, CapIs
<1>19. /\ \A s \in 0 .. cap - 1 :
            /\ idx[s].occupied = 0 => idx[s].entry = 0
            /\ idx[s].occupied = 1 => /\ idx[s].entry \in 1 .. Len(es) /\ idx[s].key \in Keys
                                      /\ es[idx[s].entry].key = idx[s].key
       /\ \A s, r \in 0 .. cap - 1 :
            idx[s].occupied = 1 /\ idx[r].occupied = 1 /\ idx[s].entry = idx[r].entry => s = r
       /\ \A i \in 1 .. Len(es) : es[i].key # Tomb => Reached(idx, cap, hf[es[i].key], es[i].key, i)
  BY <1>1 DEF IndexOK
<1>20. ASSUME NEW s \in 0 .. cap - 1
       PROVE  /\ new[s].occupied = 0 => new[s].entry = 0
              /\ new[s].occupied = 1 => /\ new[s].entry \in 1 .. Len(fs) /\ new[s].key \in Keys
                                        /\ fs[new[s].entry].key = new[s].key
  <2>1. CASE s = slot
    BY <1>16, <2>1
  <2>2. CASE s # slot
    <3>1. new[s] = idx[s]
      BY <1>16, <2>2
    <3>2. idx[s].occupied = 1 => idx[s].entry # found
      BY <1>9, <1>10, <1>19, <2>2
    <3>3. QED
      BY <1>11, <1>19, <3>1, <3>2
  <2>3. QED
    BY <2>1, <2>2
<1>21. \A s, r \in 0 .. cap - 1 :
         new[s].occupied = 1 /\ new[r].occupied = 1 /\ new[s].entry = new[r].entry => s = r
  BY <1>16, <1>19
<1>22. ASSUME NEW i \in 1 .. Len(fs), fs[i].key # Tomb
       PROVE  Reached(new, cap, hf[fs[i].key], fs[i].key, i)
  <2>1. i \in 1 .. Len(es) /\ i # found /\ fs[i] = es[i] /\ es[i].key # Tomb
    BY <1>11, <1>22
  <2> DEFINE g == hf[es[i].key]
  <2>2. g \in Nat
    <3>1. es[i] \in Rows
      BY <1>1, <2>1, ElementOfSeq
    <3>2. QED
      BY <2>1, <3>1, HashAssumption DEF Rows
  <2>3. Reached(idx, cap, g, es[i].key, i)
    BY <1>19, <2>1
  <2> HIDE DEF g
  <2>4. PICK j \in 0 .. cap - 1 : /\ idx[At(cap, g, j)] = Slot(es[i].key, i)
                                  /\ \A m \in 0 .. j - 1 : idx[At(cap, g, m)].occupied # 0
    BY <2>3 DEF Reached
  <2>5. At(cap, g, j) \in 0 .. cap - 1 /\ \A m \in 0 .. j - 1 : At(cap, g, m) \in 0 .. cap - 1
    <3>1. \A m \in 0 .. j - 1 : m \in 0 .. cap - 1
      BY <1>4
    <3>2. QED
      BY <1>5, <2>2, <3>1
  <2>6. At(cap, g, j) # slot
    <3>1. idx[At(cap, g, j)].entry = i
      BY <2>4 DEF Slot
    <3>2. QED
      BY <1>9, <2>1, <3>1
  <2>7. new[At(cap, g, j)] = Slot(es[i].key, i)
    BY <1>16, <2>4, <2>5, <2>6
  <2>8. \A s \in 0 .. cap - 1 : idx[s].occupied # 0 => new[s].occupied # 0
    BY <1>16
  <2>9. \A m \in 0 .. j - 1 : new[At(cap, g, m)].occupied # 0
    BY <2>4, <2>5, <2>8
  <2>10. QED
    BY <2>1, <2>7, <2>9 DEF Reached, g
<1>23. IndexOK(hf, fs, Len(fs), new, cap)
  BY <1>4, <1>16, <1>20, <1>21, <1>22 DEF IndexOK
<1>24. TableOK(hf, fs, new, n - 1, RemoveAt(c, Find(c, k)))
  BY <1>1, <1>11, <1>13, <1>14, <1>15, <1>17, <1>18, <1>23 DEF TableOK
<1>25. QED
  BY <1>24 DEF fs, new, slot, f, found, cap, h

\* The vector without a key.
LEMMA KeptOthers ==
  ASSUME NEW c \in Seq(Entries), Apart(c), NEW k
  PROVE  Kept(c, {i \in DOMAIN c : c[i].key # k}) = IF Find(c, k) = 0 THEN c ELSE RemoveAt(c, Find(c, k))
<1> DEFINE I == 1 .. Len(c)
           J == {i \in DOMAIN c : c[i].key # k}
<1>1. DOMAIN c = I
  OBVIOUS
<1>2. CASE Find(c, k) = 0
  <2>1. J = I
    BY <1>1, <1>2, FindIs
  <2>2. Kept(c, I) = c
    BY KeptAll
  <2>3. QED
    BY <1>2, <2>1, <2>2
<1>3. CASE Find(c, k) # 0
  <2> DEFINE i == Find(c, k)
  <2>1. i \in I /\ c[i].key = k
    BY <1>3, FindIs
  <2> HIDE DEF i
  <2>2. J = I \ {i}
    BY <1>1, <2>1 DEF Apart
  <2>3. Rank(I, i) = i /\ Kept(c, I) = c
    BY <2>1, KeptAll
  <2>4. Kept(c, I \ {i}) = RemoveAt(Kept(c, I), Rank(I, i))
    <3>1. I \subseteq 1 .. Len(c) /\ \A j \in I \ {i} : c[j] = c[j]
      OBVIOUS
    <3> HIDE DEF I
    <3>2. KeptBut(c, c, I, i)
      BY <2>1, <3>1, KeptWithout
    <3>3. QED
      BY <3>2 DEF KeptBut
  <2>5. QED
    BY <1>3, <2>2, <2>3, <2>4 DEF i
<1>4. QED
  BY <1>2, <1>3

-----------------------------------------------------------------------------
(* What an insertion makes of the vector.                                  *)

\* The value of the i-th entry replaced.
LEMMA ValueSet ==
  ASSUME NEW c \in Seq(Entries), Apart(c), NEW i \in 1 .. Len(c), NEW v \in Vals \cup {Unit}
  PROVE  /\ Changed(c, [c EXCEPT ![i].val = v], c[i].key, v)
         /\ Len([c EXCEPT ![i].val = v]) = Len(c)
         /\ \A n \in 1 .. Len(c) : [c EXCEPT ![i].val = v][n].key = c[n].key
<1> DEFINE e == [c[i] EXCEPT !.val = v]
           d == [c EXCEPT ![i].val = v]
<1>1. c[i] = [key |-> c[i].key, val |-> c[i].val] /\ c[i].key \in Keys
  BY FindAt
<1>2. e = Entry(c[i].key, v)
  BY <1>1 DEF Entry
<1>3. e \in Entries /\ e.key = c[i].key
  BY <1>1, <1>2 DEF Entry, Entries
<1>4. d = [c EXCEPT ![i] = e]
  OBVIOUS
<1> HIDE DEF e, d
<1>5. d \in Seq(Entries) /\ Len(d) = Len(c) /\ \A n \in 1 .. Len(c) : d[n] = IF n = i THEN e ELSE c[n]
  BY <1>3, <1>4
<1>6. Changed(c, d, c[i].key, v)
  BY <1>2, <1>5, Updated
<1>7. \A n \in 1 .. Len(c) : d[n].key = c[n].key
  BY <1>3, <1>5
<1>8. QED
  BY <1>5, <1>6, <1>7 DEF d

\* linked_map_insert makes the map of what the vector becomes.
TableGrown(hf, es, idx, c, k, v) ==
  LET found == IndexLookup(idx, hf[k], k)
      fs == IF found # 0 THEN [Kept(es, LiveAt(es)) EXCEPT ![Rank(LiveAt(es), found)].val = v]
            ELSE Append(Kept(es, LiveAt(es)), Entry(k, v))
      d  == IF Find(c, k) # 0 THEN [c EXCEPT ![Find(c, k)].val = v] ELSE Append(c, Entry(k, v))
  IN  /\ fs = d /\ Changed(c, d, k, v)
      /\ TableOK(hf, d, BuildIndex(d, NextPow2(IF d = <<>> THEN MinCap ELSE 2 * Len(d)), hf), Len(d), d)

LEMMA TableInserted ==
  ASSUME NEW hf \in [Keys -> Hashes], NEW es, NEW idx, NEW n, NEW c \in Seq(Entries), Apart(c),
         TableOK(hf, es, idx, n, c), NEW k \in Keys, NEW v \in Vals \cup {Unit}
  PROVE  TableGrown(hf, es, idx, c, k, v)
<1> DEFINE found == IndexLookup(idx, hf[k], k)
           fs == IF found # 0 THEN [Kept(es, LiveAt(es)) EXCEPT ![Rank(LiveAt(es), found)].val = v]
                 ELSE Append(Kept(es, LiveAt(es)), Entry(k, v))
           d  == IF Find(c, k) # 0 THEN [c EXCEPT ![Find(c, k)].val = v] ELSE Append(c, Entry(k, v))
<1>1. Kept(es, LiveAt(es)) = c
  BY DEF TableOK
<1>2. /\ Find(c, k) = 0 => found = 0
      /\ Find(c, k) # 0 => found # 0 /\ Rank(LiveAt(es), found) = Find(c, k)
  <2>1. /\ Find(c, k) = 0 => found = 0
        /\ Find(c, k) # 0 => found \in 1 .. Len(es) /\ Rank(LiveAt(es), found) = Find(c, k)
    BY TableLookup
  <2> HIDE DEF found
  <2>2. QED
    BY <2>1
<1> HIDE DEF found
<1>3. fs = d
  BY <1>1, <1>2
<1>4. Changed(c, d, k, v)
  <2>1. CASE Find(c, k) # 0
    <3>1. Find(c, k) \in 1 .. Len(c) /\ c[Find(c, k)].key = k
      BY <2>1, FindIs
    <3>2. Changed(c, [c EXCEPT ![Find(c, k)].val = v], c[Find(c, k)].key, v)
      BY <3>1, ValueSet
    <3>3. QED
      BY <2>1, <3>1, <3>2
  <2>2. CASE Find(c, k) = 0
    <3>1. \A i \in 1 .. Len(c) : c[i].key # k
      BY <2>2, FindIs
    <3>2. Changed(c, Append(c, Entry(k, v)), k, v)
      BY <3>1, Appended
    <3>3. QED
      BY <2>2, <3>2
  <2>3. QED
    BY <2>1, <2>2
<1>5. TableOK(hf, d, BuildIndex(d, NextPow2(IF d = <<>> THEN MinCap ELSE 2 * Len(d)), hf), Len(d), d)
  <2> HIDE DEF d
  <2>1. d \in Seq(Entries) /\ Apart(d)
    BY <1>4 DEF Changed
  <2>2. QED
    BY <2>1, MakeIs
<1>6. QED
  BY <1>3, <1>4, <1>5 DEF found, TableGrown

-----------------------------------------------------------------------------
(* The sorted array.                                                       *)

\* The keys ascend.
Sorted(c) == \A i, j \in 1 .. Len(c) : i < j => c[i].key < c[j].key

\* What the loop of binary_search goes through.
Halve(es, k, at) ==
  LET mid == at.lo + (at.hi - at.lo) \div 2
  IN  IF at.found \/ at.lo >= at.hi THEN at
      ELSE LET c == Cmp(es[mid].key, k)
           IN  IF c < 0 THEN [at EXCEPT !.lo = mid + 1]
               ELSE IF c > 0 THEN [at EXCEPT !.hi = mid]
               ELSE [at EXCEPT !.lo = mid, !.found = TRUE]
IsHalving(f, es, k, n) ==
  f = [i \in 0 .. n |-> IF i = 0 THEN [lo |-> 1, hi |-> Len(es) + 1, found |-> FALSE] ELSE Halve(es, k, f[i - 1])]

\* There is such a function, for any number of rounds.
LEMMA HalvingUpTo ==
  ASSUME NEW es, NEW k, NEW n \in Nat
  PROVE  \E f : IsHalving(f, es, k, n)
<1> DEFINE Have == {l \in Nat : \E f : IsHalving(f, es, k, l)}
           start == [lo |-> 1, hi |-> Len(es) + 1, found |-> FALSE]
<1>1. 0 \in Have
  <2>1. IsHalving([i \in 0 .. 0 |-> start], es, k, 0)
    BY DEF IsHalving
  <2>2. QED
    BY <2>1
<1>2. ASSUME NEW l \in Nat, l \in Have PROVE l + 1 \in Have
  <2>1. PICK f : IsHalving(f, es, k, l)
    BY <1>2
  <2>2. \A i \in 0 .. l : f[i] = IF i = 0 THEN start ELSE Halve(es, k, f[i - 1])
    BY <2>1 DEF IsHalving
  <2> HIDE DEF start
  <2> DEFINE last == Halve(es, k, f[l])
             g == [i \in 0 .. (l + 1) |-> IF i <= l THEN f[i] ELSE last]
  <2>3. ASSUME NEW i \in 0 .. (l + 1) PROVE g[i] = IF i = 0 THEN start ELSE Halve(es, k, g[i - 1])
    <3>1. CASE i = 0
      BY <2>2, <3>1
    <3>2. CASE i \in 1 .. l
      <4>1. i - 1 \in 0 .. (l + 1) /\ i - 1 <= l /\ i \in 0 .. l /\ i <= l /\ i # 0
        BY <3>2
      <4>2. g[i] = f[i] /\ g[i - 1] = f[i - 1]
        BY <4>1
      <4> HIDE DEF g
      <4>3. QED
        BY <2>2, <4>1, <4>2
    <3>3. CASE i = l + 1
      <4>1. g[i] = last /\ g[i - 1] = f[l] /\ i # 0
        BY <3>3
      <4> HIDE DEF g
      <4>2. QED
        BY <3>3, <4>1
    <3>4. QED
      BY <3>1, <3>2, <3>3
  <2> HIDE DEF g
  <2>4. g = [i \in 0 .. (l + 1) |-> g[i]]
    BY DEF g
  <2>5. IsHalving(g, es, k, l + 1)
    BY <2>3, <2>4 DEF IsHalving, start
  <2>6. QED
    BY <2>5
<1> HIDE DEF Have
<1>3. Nat \subseteq Have
  BY <1>1, <1>2, SetInduction
<1>4. QED
  BY <1>3 DEF Have

\* Where the search is after n rounds: at the key, or with the place of the key
\* between lo and hi, which are closer by n than at first.
Searching(c, k, n, at) ==
  /\ at \in [lo : Int, hi : Int, found : BOOLEAN]
  /\ IF at.found THEN at.lo \in 1 .. Len(c) /\ c[at.lo].key = k
     ELSE /\ 1 <= at.lo /\ at.lo <= at.hi /\ at.hi <= Len(c) + 1
          /\ at.hi - at.lo <= Len(c) - n
          /\ \A i \in 1 .. at.lo - 1 : c[i].key < k
          /\ \A i \in at.hi .. Len(c) : c[i].key > k

\* A round brings the bounds closer, or finds the key.
LEMMA HalveIs ==
  ASSUME NEW c \in Seq(Entries), Sorted(c), NEW k \in Keys, NEW n \in Nat, n < Len(c),
         NEW at, Searching(c, k, n, at)
  PROVE  Searching(c, k, n + 1, Halve(c, k, at))
<1> DEFINE lo == at.lo
           hi == at.hi
           mid == lo + (hi - lo) \div 2
           m == c[mid].key
           L == Len(c)
<1>1. at \in [lo : Int, hi : Int, found : BOOLEAN] /\ lo \in Int /\ hi \in Int /\ L \in Nat
  BY DEF Searching
<1>2. CASE at.found
  <2>1. Halve(c, k, at) = at
    BY <1>2 DEF Halve
  <2>2. QED
    BY <1>2, <2>1 DEF Searching
<1>3. CASE ~at.found
  <2>1. /\ 1 <= lo /\ lo <= hi /\ hi <= L + 1 /\ hi - lo <= L - n
        /\ \A i \in 1 .. lo - 1 : c[i].key < k
        /\ \A i \in hi .. L : c[i].key > k
    BY <1>3 DEF Searching
  <2>2. CASE lo >= hi
    <3>1. Halve(c, k, at) = at
      BY <2>2 DEF Halve
    <3>2. hi - lo <= L - (n + 1)
      BY <1>1, <2>1, <2>2
    <3>3. QED
      BY <1>1, <1>3, <2>1, <3>1, <3>2 DEF Searching
  <2>3. CASE lo < hi
    <3>1. lo <= mid /\ mid < hi /\ mid \in Int
      BY <1>1, <2>3
    <3>2. /\ mid \in 1 .. L
          /\ hi - (mid + 1) <= L - (n + 1)
          /\ mid - lo <= L - (n + 1)
      <4> HIDE DEF mid, lo, hi, L
      <4>1. QED
        BY <1>1, <2>1, <3>1
    <3>3. m \in Int /\ k \in Int
      <4>1. c[mid] \in Entries
        <5> HIDE DEF mid
        <5>1. QED
          BY <3>2, ElementOfSeq
      <4>2. QED
        BY <4>1, KeysAssumption DEF Entries
    <3>4. Halve(c, k, at) = IF m < k THEN [at EXCEPT !.lo = mid + 1]
                            ELSE IF m > k THEN [at EXCEPT !.hi = mid]
                            ELSE [at EXCEPT !.lo = mid, !.found = TRUE]
      <4>1. Halve(c, k, at) = IF Cmp(m, k) < 0 THEN [at EXCEPT !.lo = mid + 1]
                              ELSE IF Cmp(m, k) > 0 THEN [at EXCEPT !.hi = mid]
                              ELSE [at EXCEPT !.lo = mid, !.found = TRUE]
        <5>1. ~(at.found \/ at.lo >= at.hi)
          BY <1>1, <1>3, <2>3
        <5>2. QED
          BY <5>1 DEF Halve
      <4>2. (Cmp(m, k) < 0 <=> m < k) /\ (Cmp(m, k) > 0 <=> m > k)
        <5> HIDE DEF m
        <5>1. QED
          BY <3>3 DEF Cmp
      <4> HIDE DEF m, mid
      <4>3. QED
        BY <4>1, <4>2
    <3>5. /\ \A i \in 1 .. L : i < mid => c[i].key < m
          /\ \A i \in 1 .. L : mid < i => m < c[i].key
      <4> HIDE DEF mid
      <4>1. QED
        BY <3>2 DEF Sorted
    <3>6. \A i \in 1 .. L : c[i].key \in Int
      <4>1. \A i \in 1 .. L : c[i] \in Entries
        BY ElementOfSeq
      <4>2. QED
        BY <4>1, KeysAssumption DEF Entries
    <3>7. CASE m < k
      <4> DEFINE b == [at EXCEPT !.lo = mid + 1]
      <4>1. /\ b \in [lo : Int, hi : Int, found : BOOLEAN]
            /\ b.lo = mid + 1 /\ b.hi = hi /\ b.found = FALSE
        <5> HIDE DEF mid
        <5>1. QED
          BY <1>1, <1>3, <3>1
      <4>2. \A i \in 1 .. mid : c[i].key < k
        <5>1. ASSUME NEW i \in 1 .. mid PROVE c[i].key < k
          <6> HIDE DEF mid, m
          <6>1. i \in 1 .. L /\ (i < mid \/ i = mid)
            BY <1>1, <3>2
          <6>2. CASE i < mid
            BY <3>3, <3>5, <3>6, <3>7, <6>1, <6>2
          <6>3. CASE i = mid
            BY <3>7, <6>3 DEF m
          <6>4. QED
            BY <6>1, <6>2, <6>3
        <5>2. QED
          BY <5>1
      <4> HIDE DEF b, mid, lo, hi
      <4>3. 1 <= b.lo /\ b.lo <= b.hi /\ b.hi <= L + 1 /\ b.hi - b.lo <= L - (n + 1) /\ b.lo - 1 = mid
        BY <1>1, <2>1, <3>1, <3>2, <4>1
      <4>4. Searching(c, k, n + 1, b)
        BY <2>1, <4>1, <4>2, <4>3 DEF Searching
      <4>5. QED
        BY <3>4, <3>7, <4>4 DEF b
    <3>8. CASE m > k
      <4> DEFINE b == [at EXCEPT !.hi = mid]
      <4>1. /\ b \in [lo : Int, hi : Int, found : BOOLEAN]
            /\ b.lo = lo /\ b.hi = mid /\ b.found = FALSE
        <5> HIDE DEF mid
        <5>1. QED
          BY <1>1, <1>3, <3>1
      <4>2. \A i \in mid .. L : c[i].key > k
        <5>1. ASSUME NEW i \in mid .. L PROVE c[i].key > k
          <6> HIDE DEF mid, m
          <6>1. i \in 1 .. L /\ (mid < i \/ i = mid)
            BY <1>1, <3>2
          <6>2. CASE mid < i
            BY <3>3, <3>5, <3>6, <3>8, <6>1, <6>2
          <6>3. CASE i = mid
            BY <3>8, <6>3 DEF m
          <6>4. QED
            BY <6>1, <6>2, <6>3
        <5>2. QED
          BY <5>1
      <4> HIDE DEF b, mid, lo, hi
      <4>3. 1 <= b.lo /\ b.lo <= b.hi /\ b.hi <= L + 1 /\ b.hi - b.lo <= L - (n + 1)
        BY <1>1, <2>1, <3>1, <3>2, <4>1
      <4>4. Searching(c, k, n + 1, b)
        BY <2>1, <4>1, <4>2, <4>3 DEF Searching
      <4>5. ~(m < k)
        <5> HIDE DEF m
        <5>1. QED
          BY <3>3, <3>8
      <4>6. QED
        BY <3>4, <3>8, <4>4, <4>5 DEF b
    <3>9. CASE m = k
      <4> DEFINE b == [at EXCEPT !.lo = mid, !.found = TRUE]
      <4>1. b \in [lo : Int, hi : Int, found : BOOLEAN] /\ b.lo = mid /\ b.found = TRUE
        <5> HIDE DEF mid
        <5>1. QED
          BY <1>1, <3>1
      <4> HIDE DEF b, mid
      <4>2. Searching(c, k, n + 1, b)
        BY <3>2, <3>9, <4>1 DEF Searching
      <4>3. ~(m < k) /\ ~(m > k)
        <5> HIDE DEF m
        <5>1. QED
          BY <3>3, <3>9
      <4>4. QED
        BY <3>4, <4>2, <4>3 DEF b
    <3>10. QED
      <4> HIDE DEF m
      <4>1. m < k \/ m > k \/ m = k
        BY <3>3
      <4>2. QED
        BY <3>7, <3>8, <3>9, <4>1
  <2>4. QED
    BY <1>1, <2>2, <2>3
<1>4. QED
  BY <1>2, <1>3

\* Keys that ascend are different.
LEMMA SortedApart ==
  ASSUME NEW c \in Seq(Entries), Sorted(c)
  PROVE  Apart(c)
<1>1. DOMAIN c = 1 .. Len(c) /\ \A i \in 1 .. Len(c) : c[i].key \in Int
  <2>1. \A i \in 1 .. Len(c) : c[i] \in Entries
    BY ElementOfSeq
  <2>2. \A i \in 1 .. Len(c) : c[i].key \in Keys
    BY <2>1 DEF Entries
  <2>3. \A i \in 1 .. Len(c) : c[i].key \in Int
    BY <2>2, KeysAssumption
  <2>4. DOMAIN c = 1 .. Len(c)
    OBVIOUS
  <2>5. QED
    BY <2>3, <2>4
<1>2. ASSUME NEW i \in 1 .. Len(c), NEW j \in 1 .. Len(c), c[i].key = c[j].key PROVE i = j
  <2>1. ~(i < j) /\ ~(j < i)
    BY <1>1, <1>2 DEF Sorted
  <2>2. QED
    BY <2>1
<1>3. QED
  BY <1>1, <1>2 DEF Apart

\* binary_search finds the key, or the place it would have.
LEMMA BinarySearchIs ==
  ASSUME NEW c \in Seq(Entries), Sorted(c), NEW k \in Keys
  PROVE  LET place == BinarySearch(c, k)
         IN  IF place.found THEN Find(c, k) # 0 /\ place.lo = Find(c, k)
             ELSE /\ Find(c, k) = 0 /\ place.lo \in 1 .. Len(c) + 1
                  /\ \A i \in 1 .. place.lo - 1 : c[i].key < k
                  /\ \A i \in place.lo .. Len(c) : c[i].key > k
<1> DEFINE L == Len(c)
           F == CHOOSE f : IsHalving(f, c, k, L)
           place == BinarySearch(c, k)
<1>1. L \in Nat
  OBVIOUS
<1>2. IsHalving(F, c, k, L)
  <2> HIDE DEF L
  <2>1. QED
    BY <1>1, HalvingUpTo
<1>3. place = F[L]
  BY DEF BinarySearch, IsHalving, Halve
<1> HIDE DEF F, place
<1>4. \A i \in 0 .. L : F[i] = IF i = 0 THEN [lo |-> 1, hi |-> L + 1, found |-> FALSE] ELSE Halve(c, k, F[i - 1])
  BY <1>2 DEF IsHalving
<1> DEFINE Good == {n \in Nat : n <= L => Searching(c, k, n, F[n])}
<1>5. 0 \in Good
  <2>1. F[0] = [lo |-> 1, hi |-> L + 1, found |-> FALSE]
    <3> HIDE DEF L
    <3>1. 0 \in 0 .. L
      BY <1>1
    <3>2. F[0] = IF 0 = 0 THEN [lo |-> 1, hi |-> L + 1, found |-> FALSE] ELSE Halve(c, k, F[0 - 1])
      BY <1>4, <3>1
    <3>3. QED
      BY <3>2
  <2>2. F[0] \in [lo : Int, hi : Int, found : BOOLEAN] /\ F[0].lo = 1 /\ F[0].hi = L + 1 /\ F[0].found = FALSE
    BY <1>1, <2>1
  <2>3. Searching(c, k, 0, F[0])
    <3>1. 1 .. F[0].lo - 1 = {} /\ F[0].hi .. L = {}
      BY <1>1, <2>2
    <3>2. 1 <= L + 1 /\ L + 1 - 1 <= L - 0 /\ L + 1 <= L + 1
      BY <1>1
    <3>3. QED
      BY <2>2, <3>1, <3>2 DEF Searching
  <2>4. QED
    BY <2>3
<1>6. ASSUME NEW n \in Nat, n \in Good PROVE n + 1 \in Good
  <2>1. SUFFICES ASSUME n + 1 <= L PROVE Searching(c, k, n + 1, F[n + 1])
    OBVIOUS
  <2>2. Searching(c, k, n, F[n]) /\ n < L
    BY <1>1, <1>6, <2>1
  <2>3. F[n + 1] = Halve(c, k, F[n])
    <3>1. n + 1 \in 0 .. L /\ n + 1 - 1 = n /\ n + 1 # 0
      BY <1>1, <2>1
    <3>2. QED
      BY <1>4, <3>1
  <2>4. QED
    BY <2>2, <2>3, HalveIs
<1> HIDE DEF Good
<1>7. Nat \subseteq Good
  BY <1>5, <1>6, SetInduction
<1>8. L \in Good
  BY <1>1, <1>7
<1>9. Searching(c, k, L, place)
  BY <1>1, <1>3, <1>8 DEF Good
<1>10. CASE place.found
  <2>1. place.lo \in 1 .. Len(c) /\ c[place.lo].key = k
    BY <1>9, <1>10 DEF Searching
  <2>2. Find(c, c[place.lo].key) = place.lo
    BY <2>1, SortedApart, FindAt
  <2>3. Find(c, k) = place.lo /\ place.lo # 0
    BY <2>1, <2>2
  <2>4. QED
    BY <1>10, <2>3 DEF place
<1>11. CASE ~place.found
  <2>1. /\ place.lo \in Int /\ place.hi \in Int
        /\ 1 <= place.lo /\ place.lo <= place.hi /\ place.hi <= L + 1
        /\ place.hi - place.lo <= L - L
        /\ \A i \in 1 .. place.lo - 1 : c[i].key < k
        /\ \A i \in place.hi .. L : c[i].key > k
    BY <1>9, <1>11 DEF Searching
  <2>2. place.lo = place.hi /\ place.lo \in 1 .. L + 1
    <3>1. L - L = 0
      BY <1>1
    <3> HIDE DEF L
    <3>2. QED
      BY <1>1, <2>1, <3>1
  <2>3. k \in Int /\ \A i \in 1 .. L : c[i].key \in Int
    <3>1. \A i \in 1 .. Len(c) : c[i] \in Entries
      BY ElementOfSeq
    <3>2. QED
      BY <3>1, KeysAssumption DEF Entries
  <2>4. \A i \in 1 .. L : c[i].key # k
    <3>1. ASSUME NEW i \in 1 .. L PROVE c[i].key # k
      <4>1. i \in 1 .. place.lo - 1 \/ i \in place.hi .. L
        BY <1>1, <2>1, <2>2
      <4>2. QED
        BY <2>1, <2>3, <4>1
    <3>2. QED
      BY <3>1
  <2>5. Find(c, k) = 0
    BY <2>4, ValueNone
  <2>6. QED
    BY <1>11, <2>1, <2>2, <2>5 DEF place
<1>12. QED
  BY <1>10, <1>11

\* A key below which all keys up to one place are, and above which the others are.
SortedGrown(c, d, p, k, v) ==
  /\ Cardinality({i \in DOMAIN c : c[i].key < k}) + 1 = p
  /\ Changed(c, d, k, v) /\ Sorted(d) /\ Len(d) = Len(c) + 1

LEMMA SortedInserted ==
  ASSUME NEW c \in Seq(Entries), Sorted(c), NEW k \in Keys, NEW v \in Vals \cup {Unit},
         NEW p \in 1 .. Len(c) + 1,
         \A i \in 1 .. p - 1 : c[i].key < k, \A i \in p .. Len(c) : c[i].key > k
  PROVE  SortedGrown(c, InsertAt(c, p, Entry(k, v)), p, k, v)
<1> DEFINE e == Entry(k, v)
           d == InsertAt(c, p, e)
           L == Len(c)
<1>1. L \in Nat /\ DOMAIN c = 1 .. L /\ p \in Int /\ e \in Entries /\ e.key = k
  BY DEF Entry, Entries
<1>2. k \in Int /\ \A i \in 1 .. L : c[i].key \in Int
  <2>1. \A i \in 1 .. Len(c) : c[i] \in Entries
    BY ElementOfSeq
  <2>2. QED
    BY <2>1, KeysAssumption DEF Entries
<1>3. \A i \in 1 .. L : c[i].key < k <=> i < p
  <2>1. ASSUME NEW i \in 1 .. L PROVE c[i].key < k <=> i < p
    <3>1. CASE i < p
      <4>1. i \in 1 .. p - 1
        BY <1>1, <3>1
      <4>2. QED
        BY <3>1, <4>1
    <3>2. CASE ~(i < p)
      <4>1. i \in p .. Len(c)
        BY <1>1, <3>2
      <4>2. c[i].key > k
        BY <4>1
      <4>3. QED
        BY <1>2, <3>2, <4>2
    <3>3. QED
      BY <3>1, <3>2
  <2>2. QED
    BY <2>1
<1>4. Cardinality({i \in DOMAIN c : c[i].key < k}) + 1 = p
  <2>1. {i \in DOMAIN c : c[i].key < k} = 1 .. p - 1
    BY <1>1, <1>3
  <2>2. Cardinality(1 .. p - 1) = IF 1 > p - 1 THEN 0 ELSE p - 1 - 1 + 1
    <3>1. 1 \in Int /\ p - 1 \in Int
      BY <1>1
    <3>2. QED
      BY <3>1, FS_Interval
  <2>3. p \in Int /\ 1 <= p
    BY <1>1
  <2>4. (IF 1 > p - 1 THEN 0 ELSE p - 1 - 1 + 1) = p - 1
    BY <2>3
  <2>5. Cardinality({i \in DOMAIN c : c[i].key < k}) = p - 1
    BY <2>1, <2>2, <2>4
  <2>6. QED
    BY <2>3, <2>5
<1>5. /\ d \in Seq(Entries) /\ Len(d) = L + 1
      /\ \A n \in 1 .. L + 1 : d[n] = IF n < p THEN c[n] ELSE IF n = p THEN e ELSE c[n - 1]
  <2> HIDE DEF e
  <2>1. QED
    BY <1>1, InsertAtIs
<1>6. \A i \in 1 .. L : c[i].key # k
  BY <1>1, <1>2, <1>3
<1> HIDE DEF d
<1>7. Changed(c, d, k, v)
  BY <1>5, <1>6, SortedApart, Inserted
<1> HIDE DEF e
<1>8. ASSUME NEW i \in 1 .. L + 1, NEW j \in 1 .. L + 1, i < j PROVE d[i].key < d[j].key
  <2>1. CASE j < p
    <3>1. i \in 1 .. L /\ j \in 1 .. L /\ d[i] = c[i] /\ d[j] = c[j]
      BY <1>1, <1>5, <1>8, <2>1
    <3>2. QED
      BY <1>8, <3>1 DEF Sorted
  <2>2. CASE j = p
    <3>1. i \in 1 .. L /\ i < p /\ d[i] = c[i] /\ d[j] = e
      BY <1>1, <1>5, <1>8, <2>2
    <3>2. QED
      BY <1>1, <1>3, <3>1
  <2>3. CASE p < j
    <3>1. j - 1 \in 1 .. L /\ d[j] = c[j - 1] /\ ~(j - 1 < p) /\ j - 1 \in p .. Len(c)
      <4>1. j \in Int /\ ~(j < p) /\ j # p
        BY <1>1, <2>3
      <4>2. QED
        BY <1>1, <1>5, <2>3, <4>1
    <3>2. c[j - 1].key > k
      BY <3>1
    <3>3. CASE i < p
      <4>1. i \in 1 .. L /\ d[i] = c[i] /\ c[i].key < k
        BY <1>1, <1>3, <1>5, <3>3
      <4>2. c[j - 1].key \in Int /\ c[i].key \in Int
        BY <1>2, <3>1, <4>1
      <4>3. QED
        BY <1>2, <3>1, <3>2, <4>1, <4>2
    <3>4. CASE i = p
      <4>1. d[i] = e
        BY <1>1, <1>5, <3>4
      <4>2. QED
        BY <1>1, <1>2, <3>1, <3>2, <4>1
    <3>5. CASE p < i
      <4>1. i - 1 \in 1 .. L /\ d[i] = c[i - 1] /\ i - 1 < j - 1
        <5>1. i \in Int /\ j \in Int /\ ~(i < p) /\ i # p
          BY <1>1, <3>5
        <5>2. QED
          BY <1>1, <1>5, <1>8, <3>5, <5>1
      <4>2. QED
        BY <3>1, <4>1 DEF Sorted
    <3>6. QED
      BY <1>1, <3>3, <3>4, <3>5
  <2>4. QED
    BY <1>1, <2>1, <2>2, <2>3
<1>9. Sorted(d)
  BY <1>5, <1>8 DEF Sorted
<1>10. SortedGrown(c, d, p, k, v)
  BY <1>4, <1>5, <1>7, <1>9 DEF SortedGrown
<1>11. QED
  BY <1>10 DEF d, e

\* Without one of its entries a sorted array is sorted.
LEMMA SortedRemoved ==
  ASSUME NEW c \in Seq(Entries), Sorted(c), NEW i \in 1 .. Len(c)
  PROVE  Sorted(RemoveAt(c, i))
<1> DEFINE d == RemoveAt(c, i)
           L == Len(c)
           from(n) == IF n < i THEN n ELSE n + 1
<1>1. L \in Nat /\ i \in Int
  OBVIOUS
<1>2. Len(d) = L - 1 /\ \A n \in 1 .. L - 1 : d[n] = c[from(n)]
  <2>1. /\ d \in Seq(Entries) /\ Len(d) = L - 1
        /\ \A n \in 1 .. L - 1 : d[n] = IF n < i THEN c[n] ELSE c[n + 1]
    BY RemoveAtIs
  <2> HIDE DEF d
  <2>2. QED
    BY <2>1
<1> HIDE DEF d
<1>3. ASSUME NEW m \in 1 .. L - 1, NEW n \in 1 .. L - 1, m < n PROVE d[m].key < d[n].key
  <2>1. from(m) \in 1 .. L /\ from(n) \in 1 .. L /\ from(m) < from(n)
    BY <1>1, <1>3
  <2> HIDE DEF from
  <2>2. c[from(m)].key < c[from(n)].key
    BY <2>1 DEF Sorted
  <2>3. QED
    BY <1>2, <2>2
<1>4. QED
  BY <1>2, <1>3 DEF Sorted, d

\* Replacing a value does not change the order.
LEMMA SortedSet ==
  ASSUME NEW c \in Seq(Entries), Sorted(c), NEW i \in 1 .. Len(c), NEW v \in Vals \cup {Unit}
  PROVE  Sorted([c EXCEPT ![i].val = v])
<1> DEFINE d == [c EXCEPT ![i].val = v]
<1>1. Len(d) = Len(c) /\ \A n \in 1 .. Len(c) : d[n].key = c[n].key
  BY SortedApart, ValueSet
<1> HIDE DEF d
<1>2. Sorted(d)
  BY <1>1 DEF Sorted
<1>3. QED
  BY <1>2 DEF d

-----------------------------------------------------------------------------
(* The collections.                                                        *)

TrieInv == /\ hash \in [Keys -> TrieHashes] /\ TrieOK(root, hash)
           /\ count = Len(cell) /\ \A k \in Keys : Get(k) = Value(cell, k)
TableInv  == hash \in [Keys -> Hashes] /\ TableOK(hash, entries, index, live, cell)
SortedInv == sorted = cell /\ Sorted(cell)

\* The inductive invariant: the representation of the family is one that its
\* operations keep, and it holds what the vector of the interpreter holds.
IInv == /\ family \in Families
        /\ cell \in Seq(Entries) /\ Apart(cell)
        /\ IF InHashOrder THEN TrieInv ELSE IF IsLinked THEN TableInv ELSE SortedInv
        /\ InHashOrder \/ IsLinked => sorted = <<>>

\* The six families.
LEMMA FamilyIs ==
  /\ \A f \in Families : /\ CollFamily[f].cmp_only <=> f \notin {"map", "set", "linked_map", "linked_set"}
                         /\ CollFamily[f].kv <=> f \notin {"set", "linked_set", "sorted_set"}
  /\ Families = {"map", "set", "linked_map", "linked_set", "sorted_map", "sorted_set"}
BY DEF Families, CollFamily

\* Nothing is found in an empty sequence.
LEMMA NothingIs ==
  /\ <<>> \in Seq(Entries) /\ Apart(<<>>) /\ Sorted(<<>>) /\ Len(<<>>) = 0
  /\ \A k : Value(<<>>, k) = Null
<1>1. <<>> \in Seq(Entries) /\ Len(<<>>) = 0 /\ DOMAIN <<>> = {}
  OBVIOUS
<1>2. Apart(<<>>) /\ Sorted(<<>>)
  <2>1. 1 .. Len(<<>>) = {}
    BY <1>1
  <2>2. QED
    BY <1>1, <2>1 DEF Apart, Sorted
<1>3. ASSUME NEW k PROVE Value(<<>>, k) = Null
  <2> DEFINE c == << >>
  <2>1. c \in Seq(Entries) /\ 1 .. Len(c) = {}
    BY <1>1
  <2> HIDE DEF c
  <2>2. \A i \in 1 .. Len(c) : c[i].key # k
    BY <2>1
  <2>3. Value(c, k) = Null
    BY <2>1, <2>2, ValueNone
  <2>4. QED
    BY <2>3 DEF c
<1>4. QED
  BY <1>1, <1>2, <1>3

\* The empty trie holds nothing.
LEMMA EmptyTrieIs ==
  ASSUME NEW hf \in [Keys -> TrieHashes]
  PROVE  TrieOK(<<>>, hf) /\ \A k \in Keys : HamtLookup(<<>>, hf[k], k) = Null
<1>1. DOMAIN <<>> = {}
  OBVIOUS
<1>2. TrieOK(<<>>, hf)
  BY <1>1 DEF TrieOK
<1>3. ASSUME NEW k \in Keys PROVE HamtLookup(<<>>, hf[k], k) = Null
  BY <1>1, <1>2, LookupNone
<1>4. QED
  BY <1>2, <1>3

\* The table a new linked map starts with is the one built of nothing.
LEMMA EmptyTableIs ==
  ASSUME NEW hf \in [Keys -> Hashes]
  PROVE  TableOK(hf, <<>>, [s \in 0..MinCap - 1 |-> Empty], 0, <<>>)
<1> DEFINE idx == [s \in 0..MinCap - 1 |-> Empty]
<1>1. MinCap \in Nat \ {0} /\ MinCap - 1 + 1 = MinCap
  BY CapAssumption
<1>2. Empty \in Slots /\ Empty.occupied = 0 /\ Empty.entry = 0
  BY DEF Empty, Slots
<1>3. idx \in [0 .. MinCap - 1 -> Slots] /\ \A s \in 0 .. MinCap - 1 : idx[s] = Empty
  <2> HIDE DEF Slots, Empty
  <2>1. QED
    BY <1>2
<1>4. Cap(idx) = MinCap
  <2> HIDE DEF idx
  <2>1. QED
    BY <1>1, <1>3, CapIs
<1>5. Used(idx) = {}
  <2> HIDE DEF idx
  <2>1. QED
    BY <1>2, <1>3 DEF Used
<1>6. IndexOK(hf, <<>>, 0, idx, MinCap)
  <2> HIDE DEF idx
  <2>1. 1 .. 0 = {}
    OBVIOUS
  <2>2. QED
    BY <1>1, <1>2, <1>3, <2>1 DEF IndexOK
<1>7. <<>> \in Seq(Rows) /\ Len(<<>>) = 0 /\ LiveAt(<<>>) = {}
  BY DEF LiveAt
<1>8. Kept(<<>>, LiveAt(<<>>)) = <<>>
  <2>1. Kept(<<>>, {}) \in Seq(Rows) /\ Len(Kept(<<>>, {})) = Cardinality({})
    BY <1>7, KeptIs DEF KeptInOrder
  <2>2. Cardinality({}) = 0
    BY FS_EmptySet
  <2> DEFINE kept == Kept(<<>>, {})
  <2> HIDE DEF kept
  <2>3. kept \in Seq(Rows) /\ Len(kept) = 0
    BY <2>1, <2>2 DEF kept
  <2>4. kept = <<>>
    BY <2>3, EmptySeq
  <2>5. QED
    BY <1>7, <2>4 DEF kept
<1>9. LiveApart(<<>>)
  BY <1>7 DEF LiveApart
<1>10. IsFiniteSet(Used(idx)) /\ Cardinality(Used(idx)) = 0
  BY <1>5, FS_EmptySet
<1> HIDE DEF idx
<1>11. 2 * Cardinality(Used(idx)) <= Cap(idx)
  BY <1>1, <1>4, <1>10
<1>12. QED
  BY <1>4, <1>6, <1>7, <1>8, <1>9, <1>10, <1>11 DEF TableOK, idx

\* Every representation answers like the vector, is as long, and visits the
\* same entries, in the same order where the family promises one.
Mirrored == /\ \A k \in Keys : CallGet(k) = Value(cell, k)
            /\ CallLen = Len(cell)
            /\ CallForEach \in Seq(Entries) /\ Apart(CallForEach) /\ Len(CallForEach) = Len(cell)
            /\ \A k \in Keys : Value(CallForEach, k) = Value(cell, k)
            /\ ~InHashOrder => CallForEach = cell

LEMMA AnswersAre == IInv => Mirrored
<1> SUFFICES ASSUME IInv PROVE Mirrored
  OBVIOUS
<1>1. cell \in Seq(Entries) /\ Apart(cell)
  BY DEF IInv
<1>2. CASE InHashOrder
  <2> ~IsLinked
    BY <1>2 DEF InHashOrder, IsLinked
  <2>1. TrieInv
    BY <1>2 DEF IInv
  <2>2. \A k \in Keys : CallGet(k) = Value(cell, k)
    BY <1>2, <2>1 DEF CallGet, TrieInv
  <2>3. CallLen = Len(cell)
    BY <1>2, <2>1 DEF CallLen, TrieInv
  <2>4. CallForEach = HamtForEach(root)
    BY <1>2 DEF CallForEach
  <2>5. \A k \in Keys : HamtLookup(root, hash[k], k) = Value(cell, k)
    BY <2>1 DEF TrieInv, Get
  <2>6. QED
    BY <1>1, <1>2, <2>1, <2>2, <2>3, <2>4, <2>5, ForEachIs DEF TrieInv, Mirrored
<1>3. CASE ~InHashOrder /\ IsLinked
  <2>1. TableInv
    BY <1>3 DEF IInv
  <2>2. hash \in [Keys -> Hashes] /\ TableOK(hash, entries, index, live, cell)
    BY <2>1 DEF TableInv
  <2>3. ASSUME NEW k \in Keys PROVE CallGet(k) = Value(cell, k)
    <3> DEFINE found == IndexLookup(index, hash[k], k)
    <3>1. CallGet(k) = IF found = 0 THEN Null ELSE entries[found].val
      BY <1>3 DEF CallGet
    <3>2. /\ Find(cell, k) = 0 => found = 0
          /\ Find(cell, k) # 0 => found \in 1 .. Len(entries) /\ entries[found] = cell[Find(cell, k)]
      BY <1>1, <2>2, TableLookup
    <3>3. found \in 1 .. Len(entries) => found # 0
      BY <2>2 DEF TableOK
    <3> HIDE DEF found
    <3>4. QED
      BY <3>1, <3>2, <3>3 DEF Value
  <2>4. CallLen = Len(cell)
    BY <1>3, <2>2 DEF CallLen, TableOK
  <2>5. CallForEach = cell
    BY <1>3, <2>2 DEF CallForEach, TableOK, Compact
  <2>6. QED
    BY <1>1, <2>3, <2>4, <2>5 DEF Mirrored
<1>4. CASE ~InHashOrder /\ ~IsLinked
  <2>1. SortedInv
    BY <1>4 DEF IInv
  <2>2. sorted = cell /\ Sorted(cell)
    BY <2>1 DEF SortedInv
  <2>3. ASSUME NEW k \in Keys PROVE CallGet(k) = Value(cell, k)
    <3>1. CallGet(k) = IF BinarySearch(cell, k).found THEN cell[BinarySearch(cell, k).lo].val ELSE Null
      BY <1>4, <2>2 DEF CallGet, SortedMapGet
    <3>2. IF BinarySearch(cell, k).found THEN Find(cell, k) # 0 /\ BinarySearch(cell, k).lo = Find(cell, k)
          ELSE Find(cell, k) = 0
      BY <1>1, <2>2, BinarySearchIs
    <3>3. QED
      BY <3>1, <3>2 DEF Value
  <2>4. CallLen = Len(cell) /\ CallForEach = cell
    BY <1>4, <2>2 DEF CallLen, CallForEach
  <2>5. QED
    BY <1>1, <2>3, <2>4 DEF Mirrored
<1>5. QED
  BY <1>2, <1>3, <1>4

\* The invariant holds in every initial state.
LEMMA InitInv == Init => IInv
<1> SUFFICES ASSUME Init PROVE IInv
  OBVIOUS
<1>1. family \in Families /\ cell = <<>> /\ sorted = <<>> /\ root = <<>> /\ count = 0
      /\ entries = <<>> /\ index = [s \in 0..MinCap - 1 |-> Empty] /\ live = 0
  BY DEF Init, SetNew, MapNew, LinkedMapNew, SortedMapNew
<1>2. cell \in Seq(Entries) /\ Apart(cell) /\ Sorted(cell) /\ Len(cell) = 0 /\ \A k : Value(cell, k) = Null
  BY <1>1, NothingIs
<1>3. CASE InHashOrder
  <2>1. hash \in [Keys -> TrieHashes]
    BY <1>3, HashFnsAssumption DEF Init, TrieHashes
  <2>2. TrieOK(root, hash) /\ \A k \in Keys : Get(k) = Null
    BY <1>1, <2>1, EmptyTrieIs DEF Get
  <2>3. TrieInv
    BY <1>1, <1>2, <2>1, <2>2 DEF TrieInv
  <2>4. QED
    BY <1>1, <1>2, <1>3, <2>3 DEF IInv
<1>4. CASE ~InHashOrder /\ IsLinked
  <2>1. hash \in [Keys -> Hashes]
    BY <1>4, HashFnsAssumption DEF Init
  <2>2. TableInv
    BY <1>1, <2>1, EmptyTableIs DEF TableInv
  <2>3. QED
    BY <1>1, <1>2, <1>4, <2>2 DEF IInv
<1>5. CASE ~InHashOrder /\ ~IsLinked
  BY <1>1, <1>2, <1>5 DEF IInv, SortedInv
<1>6. QED
  BY <1>3, <1>4, <1>5

\* Whether the keys of the family's vector ascend.
InKeyOrder == family \notin {"map", "set", "linked_map", "linked_set"}

\* Where a sorted vector puts a key that it lacks, by halving and by counting.
LEMMA PlaceIs ==
  ASSUME NEW c \in Seq(Entries), Sorted(c), NEW k \in Keys, NEW v \in Vals \cup {Unit}, Find(c, k) = 0
  PROVE  LET p == BinarySearch(c, k).lo
             d == InsertAt(c, p, Entry(k, v))
         IN  /\ ~BinarySearch(c, k).found
             /\ Cardinality({i \in DOMAIN c : c[i].key < k}) + 1 = p
             /\ Changed(c, d, k, v) /\ Sorted(d) /\ Len(d) = Len(c) + 1
<1> DEFINE place == BinarySearch(c, k)
<1>1. /\ ~place.found /\ place.lo \in 1 .. Len(c) + 1
      /\ \A i \in 1 .. place.lo - 1 : c[i].key < k
      /\ \A i \in place.lo .. Len(c) : c[i].key > k
  BY BinarySearchIs
<1> HIDE DEF place
<1> DEFINE p == place.lo
<1>2. /\ p \in 1 .. Len(c) + 1
      /\ \A i \in 1 .. p - 1 : c[i].key < k
      /\ \A i \in p .. Len(c) : c[i].key > k
  BY <1>1
<1> HIDE DEF p
<1>3. SortedGrown(c, InsertAt(c, p, Entry(k, v)), p, k, v)
  BY <1>2, SortedInserted
<1>4. QED
  BY <1>1, <1>3 DEF place, p, SortedGrown

\* What the interpreter's insert makes of the vector c: d.
Grown(c, d, k, v) ==
  /\ Changed(c, d, k, v)
  /\ Len(d) = IF Value(c, k) = Null THEN Len(c) + 1 ELSE Len(c)
  /\ d = IF Find(c, k) # 0 THEN [c EXCEPT ![Find(c, k)].val = v]
         ELSE IF InKeyOrder THEN InsertAt(c, BinarySearch(c, k).lo, Entry(k, v)) ELSE Append(c, Entry(k, v))
  /\ InKeyOrder => Sorted(d)

\* An insert in the interpreter.
LEMMA CellInserted ==
  ASSUME IInv, NEW k \in Keys, NEW v \in Vals \cup {Unit}, CellInsert(k, v)
  PROVE  Grown(cell, cell', k, v)
<1>1. cell \in Seq(Entries) /\ Apart(cell) /\ family \in Families
  BY DEF IInv
<1>2. CollFamily[family].cmp_only <=> InKeyOrder
  BY <1>1, FamilyIs DEF InKeyOrder
<1>3. InKeyOrder => Sorted(cell)
  BY DEF IInv, InKeyOrder, InHashOrder, IsLinked, SortedInv
<1>4. cell' = IF Find(cell, k) # 0 THEN [cell EXCEPT ![Find(cell, k)].val = v]
              ELSE IF InKeyOrder THEN InsertAt(cell, PartitionPoint(k) + 1, Entry(k, v))
              ELSE Append(cell, Entry(k, v))
  BY <1>2 DEF CellInsert, Entry
<1>5. Find(cell, k) = 0 <=> Value(cell, k) = Null
  BY <1>1, ValueSome
<1>6. CASE Find(cell, k) # 0
  <2>1. Find(cell, k) \in 1 .. Len(cell) /\ cell[Find(cell, k)].key = k
    BY <1>1, <1>6, FindIs
  <2>2. cell' = [cell EXCEPT ![Find(cell, k)].val = v]
    BY <1>4, <1>6
  <2>3. Changed(cell, cell', k, v) /\ Len(cell') = Len(cell)
    BY <1>1, <2>1, <2>2, ValueSet
  <2>4. InKeyOrder => Sorted(cell')
    BY <1>1, <1>3, <2>1, <2>2, SortedSet
  <2>5. QED
    BY <1>5, <1>6, <2>2, <2>3, <2>4 DEF Grown
<1>7. CASE Find(cell, k) = 0 /\ InKeyOrder
  <2>1. /\ PartitionPoint(k) + 1 = BinarySearch(cell, k).lo
        /\ Changed(cell, InsertAt(cell, BinarySearch(cell, k).lo, Entry(k, v)), k, v)
        /\ Sorted(InsertAt(cell, BinarySearch(cell, k).lo, Entry(k, v)))
        /\ Len(InsertAt(cell, BinarySearch(cell, k).lo, Entry(k, v))) = Len(cell) + 1
    BY <1>1, <1>3, <1>7, PlaceIs DEF PartitionPoint
  <2>2. cell' = InsertAt(cell, BinarySearch(cell, k).lo, Entry(k, v))
    BY <1>4, <1>7, <2>1
  <2>3. QED
    BY <1>5, <1>7, <2>1, <2>2 DEF Grown
<1>8. CASE Find(cell, k) = 0 /\ ~InKeyOrder
  <2>1. cell' = Append(cell, Entry(k, v))
    BY <1>4, <1>8
  <2>2. \A i \in 1 .. Len(cell) : cell[i].key # k
    BY <1>1, <1>8, FindIs
  <2>3. Changed(cell, cell', k, v)
    BY <1>1, <2>1, <2>2, Appended
  <2>4. Len(cell') = Len(cell) + 1
    BY <1>1, <2>1
  <2>5. QED
    BY <1>5, <1>8, <2>1, <2>3, <2>4 DEF Grown
<1>9. QED
  BY <1>6, <1>7, <1>8

\* What the interpreter's remove makes of the vector c: d.
Shrunk(c, d, k) ==
  /\ Changed(c, d, k, Null)
  /\ d = IF Find(c, k) = 0 THEN c ELSE RemoveAt(c, Find(c, k))
  /\ Len(d) = IF Value(c, k) = Null THEN Len(c) ELSE Len(c) - 1
  /\ InKeyOrder => Sorted(d)

\* A remove in the interpreter.
LEMMA CellRemoved ==
  ASSUME IInv, NEW k \in Keys, CellRemove(k)
  PROVE  Shrunk(cell, cell', k)
<1>1. cell \in Seq(Entries) /\ Apart(cell)
  BY DEF IInv
<1>2. InKeyOrder => Sorted(cell)
  BY DEF IInv, InKeyOrder, InHashOrder, IsLinked, SortedInv
<1>3. cell' = IF Find(cell, k) = 0 THEN cell ELSE RemoveAt(cell, Find(cell, k))
  <2>1. cell' = Kept(cell, {i \in DOMAIN cell : cell[i].key # k})
    BY DEF CellRemove
  <2>2. QED
    BY <1>1, <2>1, KeptOthers
<1>4. Find(cell, k) = 0 <=> Value(cell, k) = Null
  BY <1>1, ValueSome
<1>5. CASE Find(cell, k) = 0
  <2>1. Changed(cell, cell', k, Null)
    BY <1>1, <1>3, <1>4, <1>5 DEF Changed
  <2>2. QED
    BY <1>2, <1>3, <1>4, <1>5, <2>1 DEF Shrunk
<1>6. CASE Find(cell, k) # 0
  <2>1. Find(cell, k) \in 1 .. Len(cell) /\ cell[Find(cell, k)].key = k
    BY <1>1, <1>6, FindIs
  <2>2. cell' = RemoveAt(cell, Find(cell, k))
    BY <1>3, <1>6
  <2>3. Changed(cell, cell', k, Null)
    BY <1>1, <2>1, <2>2, Removed
  <2>4. Len(cell') = Len(cell) - 1
    BY <1>1, <2>1, <2>2, RemoveAtIs
  <2>5. InKeyOrder => Sorted(cell')
    BY <1>1, <1>2, <2>1, <2>2, SortedRemoved
  <2>6. QED
    BY <1>3, <1>4, <1>6, <2>3, <2>4, <2>5 DEF Shrunk
<1>7. QED
  BY <1>5, <1>6

\* An insert of k, by family.
LEMMA InsertIs ==
  ASSUME family \in Families, NEW k \in Keys, NEW v, InsertKey(k, v)
  PROVE  /\ v \in Vals \cup {Unit} /\ family' = family /\ CellInsert(k, v)
         /\ InHashOrder => MapInsert(k, v) /\ sorted' = sorted
         /\ ~InHashOrder /\ IsLinked => LinkedInsert(k, v) /\ sorted' = sorted
         /\ InKeyOrder => SortedMapInsert(k, v)
         /\ InKeyOrder <=> ~InHashOrder /\ ~IsLinked
<1>1. v \in Vals \cup {Unit} /\ (family \in {"set", "linked_set", "sorted_set"} => v = Unit)
  BY FamilyIs DEF InsertKey
<1>2. family' = family /\ CellInsert(k, v) /\ CallInsert(k, v)
  BY DEF InsertKey
<1>3. InHashOrder => MapInsert(k, v) /\ sorted' = sorted
  BY <1>1, <1>2 DEF CallInsert, InHashOrder, SetInsert
<1>4. IsLinked => LinkedInsert(k, v) /\ sorted' = sorted
  BY <1>1, <1>2 DEF CallInsert, IsLinked, LinkedSetInsert, UnitVal
<1>5. InKeyOrder => SortedMapInsert(k, v)
  BY <1>1, <1>2, FamilyIs DEF CallInsert, InKeyOrder, SortedSetInsert, UnitVal
<1>6. InKeyOrder <=> ~InHashOrder /\ ~IsLinked
  BY DEF InKeyOrder, InHashOrder, IsLinked
<1>7. QED
  BY <1>1, <1>2, <1>3, <1>4, <1>5, <1>6

\* A remove of k, by family.
LEMMA RemoveIs ==
  ASSUME family \in Families, NEW k \in Keys, RemoveKey(k)
  PROVE  /\ family' = family /\ CellRemove(k)
         /\ InHashOrder => MapRemove(k) /\ sorted' = sorted
         /\ ~InHashOrder /\ IsLinked => LinkedRemove(k) /\ sorted' = sorted
         /\ InKeyOrder => SortedMapRemove(k)
         /\ InKeyOrder <=> ~InHashOrder /\ ~IsLinked
<1>1. family' = family /\ CellRemove(k) /\ CallRemove(k)
  BY DEF RemoveKey
<1>2. InHashOrder => MapRemove(k) /\ sorted' = sorted
  BY <1>1 DEF CallRemove, InHashOrder, SetRemove
<1>3. IsLinked => LinkedRemove(k) /\ sorted' = sorted
  BY <1>1 DEF CallRemove, IsLinked, LinkedSetRemove
<1>4. InKeyOrder => SortedMapRemove(k)
  BY <1>1, FamilyIs DEF CallRemove, InKeyOrder, SortedSetRemove
<1>5. InKeyOrder <=> ~InHashOrder /\ ~IsLinked
  BY DEF InKeyOrder, InHashOrder, IsLinked
<1>6. QED
  BY <1>1, <1>2, <1>3, <1>4, <1>5

\* The invariant after a step, of the families apart.
LEMMA InvAfter ==
  ASSUME IInv, family' = family, cell' \in Seq(Entries), Apart(cell'),
         InHashOrder => TrieInv' /\ sorted' = sorted,
         ~InHashOrder /\ IsLinked => TableInv' /\ sorted' = sorted,
         ~InHashOrder /\ ~IsLinked => SortedInv'
  PROVE  IInv'
<1>1. (InHashOrder' <=> InHashOrder) /\ (IsLinked' <=> IsLinked) /\ (family \in Families)'
  BY DEF IInv, InHashOrder, IsLinked
<1>2. (InHashOrder \/ IsLinked => sorted = <<>>)'
  BY <1>1 DEF IInv
<1>3. (IF InHashOrder THEN TrieInv ELSE IF IsLinked THEN TableInv ELSE SortedInv)'
  BY <1>1
<1>4. QED
  BY <1>1, <1>2, <1>3 DEF IInv

\* An insert into a trie.
LEMMA TrieInsertStep ==
  ASSUME IInv, InHashOrder, NEW k \in Keys, NEW v \in Vals \cup {Unit},
         MapInsert(k, v), Grown(cell, cell', k, v)
  PROVE  TrieInv'
<1>1. /\ hash \in [Keys -> TrieHashes] /\ TrieOK(root, hash) /\ count = Len(cell)
      /\ \A j \in Keys : HamtLookup(root, hash[j], j) = Value(cell, j)
      /\ cell \in Seq(Entries)
  BY DEF IInv, TrieInv, Get
<1>2. /\ root' = HamtInsert(root, hash[k], Entry(k, v)) /\ hash' = hash
      /\ count' = IF HamtLookup(root, hash[k], k) = Null THEN count + 1 ELSE count
  BY DEF MapInsert, Get
<1>3. TrieOK(root', hash) /\ Answers(root, root', hash, k, v)
  BY <1>1, <1>2, TrieInserted
<1>4. ASSUME NEW j \in Keys PROVE HamtLookup(root', hash[j], j) = Value(cell', j)
  BY <1>1, <1>3 DEF Answers, Grown, Changed
<1>5. count' = Len(cell')
  BY <1>1, <1>2 DEF Grown
<1>6. \A j \in Keys : Get(j)' = Value(cell', j)
  BY <1>2, <1>4 DEF Get
<1>7. QED
  BY <1>1, <1>2, <1>3, <1>5, <1>6 DEF TrieInv

\* A remove from a trie.
LEMMA TrieRemoveStep ==
  ASSUME IInv, InHashOrder, NEW k \in Keys, MapRemove(k), Shrunk(cell, cell', k)
  PROVE  TrieInv'
<1>1. /\ hash \in [Keys -> TrieHashes] /\ TrieOK(root, hash) /\ count = Len(cell)
      /\ \A j \in Keys : HamtLookup(root, hash[j], j) = Value(cell, j)
      /\ cell \in Seq(Entries)
  BY DEF IInv, TrieInv, Get
<1>2. hash' = hash
  BY DEF MapRemove
<1>3. CASE HamtLookup(root, hash[k], k) = Null
  <2>1. root' = root /\ count' = count
    BY <1>3 DEF MapRemove, Get
  <2>2. Len(cell') = Len(cell)
    BY <1>1, <1>3 DEF Shrunk
  <2>3. ASSUME NEW j \in Keys PROVE HamtLookup(root', hash[j], j) = Value(cell', j)
    BY <1>1, <1>3, <2>1 DEF Shrunk, Changed
  <2>4. \A j \in Keys : Get(j)' = Value(cell', j)
    BY <1>2, <2>3 DEF Get
  <2>5. QED
    BY <1>1, <1>2, <2>1, <2>2, <2>4 DEF TrieInv
<1>4. CASE HamtLookup(root, hash[k], k) # Null
  <2>1. root' = HamtRemove(root, hash[k], k) /\ count' = count - 1
    BY <1>4 DEF MapRemove, Get
  <2>2. TrieOK(root', hash) /\ Answers(root, root', hash, k, Null)
    BY <1>1, <1>4, <2>1, TrieRemoved
  <2>3. Len(cell') = Len(cell) - 1
    BY <1>1, <1>4 DEF Shrunk
  <2>4. ASSUME NEW j \in Keys PROVE HamtLookup(root', hash[j], j) = Value(cell', j)
    BY <1>1, <2>2 DEF Answers, Shrunk, Changed
  <2>5. \A j \in Keys : Get(j)' = Value(cell', j)
    BY <1>2, <2>4 DEF Get
  <2>6. QED
    BY <1>1, <1>2, <2>1, <2>2, <2>3, <2>5 DEF TrieInv
<1>5. QED
  BY <1>3, <1>4

\* An insert into a table.
LEMMA TableInsertStep ==
  ASSUME IInv, ~InHashOrder, IsLinked, NEW k \in Keys, NEW v \in Vals \cup {Unit},
         LinkedInsert(k, v), Grown(cell, cell', k, v)
  PROVE  TableInv'
<1>1. /\ hash \in [Keys -> Hashes] /\ TableOK(hash, entries, index, live, cell)
      /\ cell \in Seq(Entries) /\ Apart(cell)
  BY DEF IInv, TableInv
<1> DEFINE found == IndexLookup(index, hash[k], k)
           fs == IF found # 0 THEN [Compact EXCEPT ![NewIndex(found)].val = v]
                 ELSE Append(Compact, Entry(k, v))
           d  == IF Find(cell, k) # 0 THEN [cell EXCEPT ![Find(cell, k)].val = v] ELSE Append(cell, Entry(k, v))
           built == BuildIndex(d, NextPow2(IF d = <<>> THEN MinCap ELSE 2 * Len(d)), hash)
<1>2. fs = d /\ TableOK(hash, d, built, Len(d), d)
  <2>1. TableGrown(hash, entries, index, cell, k, v)
    BY <1>1, TableInserted
  <2>2. QED
    BY <2>1 DEF Compact, NewIndex, TableGrown
<1>3. cell' = d
  BY DEF Grown, InKeyOrder, IsLinked
<1>4. Make(fs)
  BY DEF LinkedInsert, Entry
<1> HIDE DEF fs, d
<1>5. entries' = d /\ live' = Len(d) /\ index' = built /\ hash' = hash
  BY <1>2, <1>4 DEF Make
<1>6. QED
  BY <1>1, <1>2, <1>3, <1>5 DEF TableInv

\* A remove from a table.
LEMMA TableRemoveStep ==
  ASSUME IInv, ~InHashOrder, IsLinked, NEW k \in Keys, LinkedRemove(k), Shrunk(cell, cell', k)
  PROVE  TableInv'
<1>1. /\ hash \in [Keys -> Hashes] /\ TableOK(hash, entries, index, live, cell)
      /\ cell \in Seq(Entries) /\ Apart(cell)
  BY DEF IInv, TableInv
<1> DEFINE found == IndexLookup(index, hash[k], k)
           slot  == At(Cap(index), hash[k], ToEntry(index, hash[k], found, Cap(index)))
<1>2. /\ Find(cell, k) = 0 => found = 0
      /\ Find(cell, k) # 0 => found \in 1 .. Len(entries)
  BY <1>1, TableLookup
<1>3. CASE Find(cell, k) = 0
  <2>1. UNCHANGED linkedVars /\ cell' = cell
    BY <1>2, <1>3 DEF LinkedRemove, Shrunk
  <2>2. QED
    BY <1>1, <2>1 DEF TableInv, linkedVars
<1>4. CASE Find(cell, k) # 0
  <2>1. found # 0
    BY <1>1, <1>2, <1>4 DEF TableOK
  <2>2. /\ entries' = [entries EXCEPT ![found].key = Tomb]
        /\ index' = [index EXCEPT ![slot].occupied = 2]
        /\ live' = live - 1 /\ hash' = hash
    BY <2>1 DEF LinkedRemove
  <2>3. TableOK(hash, [entries EXCEPT ![found].key = Tomb], [index EXCEPT ![slot].occupied = 2],
                live - 1, RemoveAt(cell, Find(cell, k)))
    BY <1>1, <1>4, TableRemoved
  <2>4. cell' = RemoveAt(cell, Find(cell, k))
    BY <1>4 DEF Shrunk
  <2> HIDE DEF found, slot
  <2>5. QED
    BY <1>1, <2>2, <2>3, <2>4 DEF TableInv
<1>5. QED
  BY <1>3, <1>4

\* An insert into a sorted array.
LEMMA SortedInsertStep ==
  ASSUME IInv, ~InHashOrder, ~IsLinked, NEW k \in Keys, NEW v \in Vals \cup {Unit},
         SortedMapInsert(k, v), Grown(cell, cell', k, v)
  PROVE  SortedInv'
<1>1. sorted = cell /\ Sorted(cell) /\ cell \in Seq(Entries) /\ InKeyOrder
  BY DEF IInv, SortedInv, InKeyOrder, InHashOrder, IsLinked
<1> DEFINE place == BinarySearch(cell, k)
<1>2. IF place.found THEN Find(cell, k) # 0 /\ place.lo = Find(cell, k) ELSE Find(cell, k) = 0
  BY <1>1, BinarySearchIs
<1>3. sorted' = IF place.found THEN [cell EXCEPT ![place.lo].val = v] ELSE InsertAt(cell, place.lo, Entry(k, v))
  BY <1>1 DEF SortedMapInsert, Entry
<1> HIDE DEF place
<1>4. /\ cell' = IF Find(cell, k) # 0 THEN [cell EXCEPT ![Find(cell, k)].val = v]
                 ELSE InsertAt(cell, place.lo, Entry(k, v))
      /\ Sorted(cell')
  BY <1>1 DEF Grown, place
<1>5. sorted' = cell'
  BY <1>2, <1>3, <1>4
<1>6. QED
  BY <1>4, <1>5 DEF SortedInv

\* A remove from a sorted array.
LEMMA SortedRemoveStep ==
  ASSUME IInv, ~InHashOrder, ~IsLinked, NEW k \in Keys, SortedMapRemove(k), Shrunk(cell, cell', k)
  PROVE  SortedInv'
<1>1. sorted = cell /\ Sorted(cell) /\ cell \in Seq(Entries) /\ InKeyOrder
  BY DEF IInv, SortedInv, InKeyOrder, InHashOrder, IsLinked
<1> DEFINE place == BinarySearch(cell, k)
<1>2. IF place.found THEN Find(cell, k) # 0 /\ place.lo = Find(cell, k) ELSE Find(cell, k) = 0
  BY <1>1, BinarySearchIs
<1>3. sorted' = IF place.found THEN RemoveAt(cell, place.lo) ELSE cell
  BY <1>1 DEF SortedMapRemove
<1> HIDE DEF place
<1>4. cell' = (IF Find(cell, k) = 0 THEN cell ELSE RemoveAt(cell, Find(cell, k))) /\ Sorted(cell')
  BY <1>1 DEF Shrunk
<1>5. sorted' = cell'
  BY <1>2, <1>3, <1>4
<1>6. QED
  BY <1>4, <1>5 DEF SortedInv

\* Every step keeps the invariant.
LEMMA NextInv == IInv /\ [Next]_vars => IInv'
<1> SUFFICES ASSUME IInv, [Next]_vars PROVE IInv'
  OBVIOUS
<1>1. family \in Families
  BY DEF IInv
<1>2. ASSUME NEW k \in Keys, NEW v \in Vals \cup {Unit}, InsertKey(k, v) PROVE IInv'
  <2>1. /\ family' = family /\ CellInsert(k, v)
        /\ InHashOrder => MapInsert(k, v) /\ sorted' = sorted
        /\ ~InHashOrder /\ IsLinked => LinkedInsert(k, v) /\ sorted' = sorted
        /\ ~InHashOrder /\ ~IsLinked => SortedMapInsert(k, v)
    BY <1>1, <1>2, InsertIs
  <2>2. Grown(cell, cell', k, v)
    BY <2>1, CellInserted
  <2>3. cell' \in Seq(Entries) /\ Apart(cell')
    BY <2>2 DEF Grown, Changed
  <2>4. InHashOrder => TrieInv' /\ sorted' = sorted
    BY <2>1, <2>2, TrieInsertStep
  <2>5. ~InHashOrder /\ IsLinked => TableInv' /\ sorted' = sorted
    BY <2>1, <2>2, TableInsertStep
  <2>6. ~InHashOrder /\ ~IsLinked => SortedInv'
    BY <2>1, <2>2, SortedInsertStep
  <2>7. QED
    BY <2>1, <2>3, <2>4, <2>5, <2>6, InvAfter
<1>3. ASSUME NEW k \in Keys, RemoveKey(k) PROVE IInv'
  <2>1. /\ family' = family /\ CellRemove(k)
        /\ InHashOrder => MapRemove(k) /\ sorted' = sorted
        /\ ~InHashOrder /\ IsLinked => LinkedRemove(k) /\ sorted' = sorted
        /\ ~InHashOrder /\ ~IsLinked => SortedMapRemove(k)
    BY <1>1, <1>3, RemoveIs
  <2>2. Shrunk(cell, cell', k)
    BY <2>1, CellRemoved
  <2>3. cell' \in Seq(Entries) /\ Apart(cell')
    BY <2>2 DEF Shrunk, Changed
  <2>4. InHashOrder => TrieInv' /\ sorted' = sorted
    BY <2>1, <2>2, TrieRemoveStep
  <2>5. ~InHashOrder /\ IsLinked => TableInv' /\ sorted' = sorted
    BY <2>1, <2>2, TableRemoveStep
  <2>6. ~InHashOrder /\ ~IsLinked => SortedInv'
    BY <2>1, <2>2, SortedRemoveStep
  <2>7. QED
    BY <2>1, <2>3, <2>4, <2>5, <2>6, InvAfter
<1>4. CASE UNCHANGED vars
  <2>1. /\ family' = family /\ root' = root /\ count' = count /\ hash' = hash /\ entries' = entries
        /\ index' = index /\ live' = live /\ sorted' = sorted /\ cell' = cell
    BY <1>4 DEF vars
  <2>2. cell' \in Seq(Entries) /\ Apart(cell')
    BY <2>1 DEF IInv
  <2>3. \A k \in Keys : Get(k)' = Get(k)
    BY <2>1 DEF Get
  <2>4. InHashOrder => TrieInv'
    BY <2>1, <2>3 DEF IInv, TrieInv
  <2>5. ~InHashOrder /\ IsLinked => TableInv'
    BY <2>1 DEF IInv, TableInv
  <2>6. ~InHashOrder /\ ~IsLinked => SortedInv'
    BY <2>1 DEF IInv, SortedInv
  <2>7. QED
    BY <2>1, <2>2, <2>4, <2>5, <2>6, InvAfter
<1>5. QED
  BY <1>2, <1>3, <1>4 DEF Next

\* The invariant holds throughout.
THEOREM Invariance == Spec => []IInv
BY InitInv, NextInv, PTL DEF Spec

-----------------------------------------------------------------------------
(* What the runs check.                                                    *)

\* What a lookup can find its way in, for a trie.
LEMMA TrieIsSound ==
  ASSUME IInv, InHashOrder
  PROVE  WellPlaced(root)
<1>1. hash \in [Keys -> TrieHashes] /\ TrieOK(root, hash)
  BY DEF IInv, TrieInv
<1>2. ASSUME NEW p \in DOMAIN root, IsBranch(root, p) PROVE Below(root, p) # {}
  BY <1>1, <1>2 DEF TrieOK, BranchOK
<1>3. ASSUME NEW p \in DOMAIN root, ~IsBranch(root, p)
      PROVE  /\ p = Path(root[p].hash, Len(p))
             /\ IF root[p].kind = "leaf" THEN Len(root[p].entries) = 1 ELSE Len(root[p].entries) > 1
             /\ \A i \in DOMAIN root[p].entries : hash[root[p].entries[i].key] = root[p].hash
  <2>1. TipOK(root, p, hash)
    BY <1>1, <1>3 DEF TrieOK
  <2>2. root[p].entries \in Seq(Entries)
    BY <2>1 DEF TipOK
  <2>3. DOMAIN root[p].entries = 1 .. Len(root[p].entries)
    BY <2>2
  <2>4. QED
    BY <2>1, <2>3 DEF TipOK
<1>4. \A p \in DOMAIN root : \A d \in 0 .. Len(p) - 1 : IsBranch(root, Path(p, d))
  BY <1>1 DEF TrieOK
<1>5. QED
  BY <1>2, <1>3, <1>4 DEF WellPlaced

\* And for a table.
LEMMA TableIsSound ==
  ASSUME IInv, IsLinked
  PROVE  LookupIsRight
<1>1. hash \in [Keys -> Hashes] /\ TableOK(hash, entries, index, live, cell)
  BY DEF IInv, TableInv, InHashOrder, IsLinked
<1>2. cell \in Seq(Entries) /\ Apart(cell) /\ entries \in Seq(Rows)
  BY <1>1 DEF IInv, TableOK
<1>3. DOMAIN entries = 1 .. Len(entries)
  BY <1>2
<1>4. ASSUME NEW k \in Keys
      PROVE  LET found == IndexLookup(index, hash[k], k) IN
             IF found = 0 THEN \A i \in DOMAIN entries : entries[i].key # k ELSE entries[found].key = k
  <2> DEFINE found == IndexLookup(index, hash[k], k)
  <2>1. /\ Find(cell, k) = 0 => found = 0 /\ \A i \in 1 .. Len(entries) : entries[i].key # k
        /\ Find(cell, k) # 0 => found \in 1 .. Len(entries) /\ entries[found] = cell[Find(cell, k)]
    BY <1>1, <1>2, TableLookup
  <2>2. Find(cell, k) # 0 => cell[Find(cell, k)].key = k
    BY <1>2, FindIs
  <2>3. found \in 1 .. Len(entries) => found # 0
    BY <1>2
  <2> HIDE DEF found
  <2>4. IF found = 0 THEN \A i \in DOMAIN entries : entries[i].key # k ELSE entries[found].key = k
    BY <1>3, <2>1, <2>2, <2>3
  <2>5. QED
    BY <2>4 DEF found
<1>5. 2 * Cardinality({s \in DOMAIN index : index[s].occupied # 0}) <= Cap(index)
  BY <1>1 DEF TableOK, Used
<1>6. QED
  BY <1>4, <1>5 DEF LookupIsRight

\* How often for_each calls back for a key, and with what.
LEMMA VisitedOnce ==
  ASSUME NEW w \in Seq(Entries), Apart(w)
  PROVE  /\ \A k : Cardinality({i \in DOMAIN w : w[i].key = k}) = IF Value(w, k) # Null THEN 1 ELSE 0
         /\ \A i \in DOMAIN w : w[i].key \in Keys /\ w[i].val = Value(w, w[i].key)
<1>1. DOMAIN w = 1 .. Len(w)
  OBVIOUS
<1>2. ASSUME NEW i \in DOMAIN w PROVE w[i].key \in Keys /\ w[i].val = Value(w, w[i].key)
  BY <1>1, FindAt
<1>3. ASSUME NEW k
      PROVE  Cardinality({i \in DOMAIN w : w[i].key = k}) = IF Value(w, k) # Null THEN 1 ELSE 0
  <2> DEFINE at == {i \in DOMAIN w : w[i].key = k}
  <2>1. Value(w, k) = Null <=> Find(w, k) = 0
    BY ValueSome
  <2>2. CASE Find(w, k) = 0
    <3>1. at = {}
      BY <1>1, <2>2, FindIs
    <3>2. QED
      BY <2>1, <2>2, <3>1, FS_EmptySet
  <2>3. CASE Find(w, k) # 0
    <3>1. Find(w, k) \in 1 .. Len(w) /\ w[Find(w, k)].key = k
      BY <2>3, FindIs
    <3>2. at = {Find(w, k)}
      <4>1. Find(w, k) \in at
        BY <1>1, <3>1
      <4>2. ASSUME NEW i \in at PROVE i = Find(w, k)
        BY <4>1 DEF Apart
      <4>3. QED
        BY <4>1, <4>2
    <3>3. Cardinality({Find(w, k)}) = 1
      BY FS_Singleton
    <3>4. QED
      BY <2>1, <2>3, <3>2, <3>3
  <2>4. QED
    BY <2>2, <2>3
<1>4. QED
  BY <1>2, <1>3

\* The representation is sound, and for_each visits what lookups find: every
\* family, after any operations, for any hash functions.
THEOREM StructureSound == Spec => []StructureIsSound
<1>1. IInv => StructureIsSound
  <2> SUFFICES ASSUME IInv PROVE StructureIsSound
    OBVIOUS
  <2>1. Mirrored /\ cell \in Seq(Entries)
    BY AnswersAre DEF IInv
  <2> DEFINE visited == CallForEach
  <2>2. visited \in Seq(Entries) /\ Apart(visited) /\ Len(visited) = CallLen
    BY <2>1 DEF Mirrored
  <2>3. \A k \in Keys : Value(visited, k) = CallGet(k)
    BY <2>1 DEF Mirrored
  <2>4. \A i \in 1 .. Len(sorted) - 1 : sorted[i].key < sorted[i + 1].key
    <3>1. CASE sorted = <<>>
      <4>1. 1 .. Len(sorted) - 1 = {}
        BY <3>1
      <4>2. QED
        BY <4>1
    <3>2. CASE SortedInv
      <4>1. sorted \in Seq(Entries) /\ \A i, j \in 1 .. Len(sorted) : i < j => sorted[i].key < sorted[j].key
        BY <2>1, <3>2 DEF SortedInv, Sorted
      <4>2. ASSUME NEW i \in 1 .. Len(sorted) - 1 PROVE sorted[i].key < sorted[i + 1].key
        <5>1. i \in 1 .. Len(sorted) /\ i + 1 \in 1 .. Len(sorted) /\ i < i + 1
          BY <4>1
        <5>2. QED
          BY <4>1, <5>1
      <4>3. QED
        BY <4>2
    <3>3. QED
      BY <3>1, <3>2 DEF IInv
  <2> HIDE DEF visited
  <2>5. \A k \in Keys : Cardinality({i \in DOMAIN visited : visited[i].key = k}) = IF CallContains(k) THEN 1 ELSE 0
    BY <2>2, <2>3, VisitedOnce DEF CallContains
  <2>6. \A i \in DOMAIN visited : visited[i].val = CallGet(visited[i].key)
    BY <2>2, <2>3, VisitedOnce
  <2>7. (InHashOrder => WellPlaced(root)) /\ (IsLinked => LookupIsRight)
    BY TrieIsSound, TableIsSound
  <2>8. QED
    BY <2>2, <2>4, <2>5, <2>6, <2>7 DEF StructureIsSound, visited
<1>2. QED
  BY <1>1, Invariance, PTL

\* What one sequence holds the other holds, when both answer alike.
LEMMA SameEntries ==
  ASSUME NEW c \in Seq(Entries), Apart(c), NEW d \in Seq(Entries), Apart(d),
         \A k \in Keys : Value(c, k) = Value(d, k)
  PROVE  ToSet(c) \subseteq ToSet(d)
<1>1. SUFFICES ASSUME NEW i \in DOMAIN c PROVE c[i] \in ToSet(d)
  BY DEF ToSet
<1>2. i \in 1 .. Len(c)
  OBVIOUS
<1>3. /\ Value(c, c[i].key) = c[i].val /\ c[i].key \in Keys /\ c[i].val # Null
      /\ c[i] = [key |-> c[i].key, val |-> c[i].val]
  BY <1>2, FindAt
<1> DEFINE k == c[i].key
           j == Find(d, k)
<1>4. Value(d, k) = c[i].val
  BY <1>3
<1>5. j # 0
  BY <1>3, <1>4, ValueSome
<1>6. j \in 1 .. Len(d) /\ d[j].key = k
  BY <1>5, FindIs
<1>7. d[j].val = c[i].val
  BY <1>4, <1>5 DEF Value
<1>8. d[j] = [key |-> d[j].key, val |-> d[j].val]
  BY <1>6, FindAt
<1>9. d[j] = c[i]
  BY <1>3, <1>6, <1>7, <1>8
<1>10. j \in DOMAIN d
  BY <1>6
<1>11. QED
  BY <1>9, <1>10 DEF ToSet

\* Interpreted and native, a program sees the same collection.
THEOREM InterpreterIsNative == Spec => []InterpreterAgrees
<1>1. IInv => InterpreterAgrees
  <2> SUFFICES ASSUME IInv PROVE InterpreterAgrees
    OBVIOUS
  <2>1. Mirrored /\ cell \in Seq(Entries) /\ Apart(cell)
    BY AnswersAre DEF IInv
  <2>2. ASSUME NEW k \in Keys PROVE CellContains(k) = CallContains(k) /\ CellGet(k) = MapGetOption(k)
    <3>1. CallGet(k) = Value(cell, k)
      BY <2>1 DEF Mirrored
    <3>2. Find(cell, k) = 0 <=> Value(cell, k) = Null
      BY <2>1, ValueSome
    <3>3. CellContains(k) <=> Find(cell, k) # 0
      <4>1. Find(cell, k) # 0 => Find(cell, k) \in DOMAIN cell /\ cell[Find(cell, k)].key = k
        BY <2>1, FindIs
      <4>2. Find(cell, k) = 0 => \A i \in DOMAIN cell : cell[i].key # k
        BY <2>1, FindIs
      <4>3. QED
        BY <4>1, <4>2 DEF CellContains
    <3>4. CellContains(k) = CallContains(k)
      BY <3>1, <3>2, <3>3 DEF CellContains, CallContains
    <3>5. CellGet(k) = MapGetOption(k)
      BY <3>1, <3>2 DEF CellGet, MapGetOption, Value
    <3>6. QED
      BY <3>4, <3>5
  <2>3. Len(cell) = CallLen
    BY <2>1 DEF Mirrored
  <2>4. InHashOrder => ToSet(CellForEach) = ToSet(CallForEach)
    BY <2>1, SameEntries DEF Mirrored, CellForEach
  <2>5. ~InHashOrder => CellForEach = CallForEach
    BY <2>1 DEF Mirrored, CellForEach
  <2>6. QED
    BY <2>2, <2>3, <2>4, <2>5 DEF InterpreterAgrees
<1>2. QED
  BY <1>1, Invariance, PTL

\* The finite map a sequence of entries stands for.
Present(c) == {j \in Keys : Value(c, j) # Null}
Content(c) == [j \in Present(c) |-> Value(c, j)]

\* It has as many keys as the sequence has entries.
LEMMA PresentCounted ==
  ASSUME NEW c \in Seq(Entries), Apart(c)
  PROVE  Cardinality(Present(c)) = Len(c)
<1> DEFINE f == [i \in 1 .. Len(c) |-> c[i].key]
<1>1. Len(c) \in Nat /\ DOMAIN c = 1 .. Len(c)
  OBVIOUS
<1>2. f \in [1 .. Len(c) -> Present(c)]
  <2>1. ASSUME NEW i \in 1 .. Len(c) PROVE c[i].key \in Present(c)
    BY FindAt DEF Present
  <2>2. QED
    BY <2>1
<1>3. ASSUME NEW i \in 1 .. Len(c), NEW j \in 1 .. Len(c), i # j PROVE f[i] # f[j]
  BY <1>1, <1>3 DEF Apart
<1>4. ASSUME NEW k \in Present(c) PROVE \E i \in 1 .. Len(c) : f[i] = k
  <2>1. Find(c, k) # 0
    BY ValueSome DEF Present
  <2>2. Find(c, k) \in 1 .. Len(c) /\ c[Find(c, k)].key = k
    BY <2>1, FindIs
  <2>3. f[Find(c, k)] = k
    BY <2>2
  <2>4. QED
    BY <2>2, <2>3
<1> HIDE DEF f
<1>5. f \in Bijection(1 .. Len(c), Present(c))
  <2>1. f \in Injection(1 .. Len(c), Present(c))
    BY <1>2, <1>3, InjectionIs
  <2>2. f \in Surjection(1 .. Len(c), Present(c))
    BY <1>2, <1>4 DEF Surjection
  <2>3. QED
    BY <2>1, <2>2 DEF Bijection
<1>6. IsFiniteSet(1 .. Len(c)) /\ Cardinality(1 .. Len(c)) = Len(c)
  <2>1. 1 \in Int /\ Len(c) \in Int
    BY <1>1
  <2>2. IsFiniteSet(1 .. Len(c)) /\ Cardinality(1 .. Len(c)) = IF 1 > Len(c) THEN 0 ELSE Len(c) - 1 + 1
    BY <2>1, FS_Interval
  <2>3. QED
    BY <1>1, <2>2
<1>7. ExistsBijection(1 .. Len(c), Present(c))
  BY <1>5 DEF ExistsBijection
<1>8. Cardinality(1 .. Len(c)) = Cardinality(Present(c))
  BY <1>6, <1>7, FS_Bijection
<1>9. QED
  BY <1>6, <1>8

\* The abstract map of a state is that of its vector.
ContentIs == /\ [k \in {j \in Keys : CallContains(j)} |-> CallGet(k)] = Content(cell)
             /\ DOMAIN Content(cell) = Present(cell)
             /\ CallLen = Cardinality(Present(cell))
             /\ IsLinked => Compact = cell

LEMMA ContentAlways == IInv => ContentIs
<1> SUFFICES ASSUME IInv PROVE ContentIs
  OBVIOUS
<1>1. Mirrored /\ cell \in Seq(Entries) /\ Apart(cell)
  BY AnswersAre DEF IInv
<1>2. \A k \in Keys : CallGet(k) = Value(cell, k)
  BY <1>1 DEF Mirrored
<1>3. {j \in Keys : CallContains(j)} = Present(cell)
  BY <1>2 DEF CallContains, Present
<1>4. [k \in Present(cell) |-> CallGet(k)] = [k \in Present(cell) |-> Value(cell, k)]
  BY <1>2 DEF Present
<1>5. IsLinked => Compact = cell
  BY DEF IInv, TableInv, TableOK, Compact, InHashOrder, IsLinked
<1>6. CallLen = Cardinality(Present(cell))
  BY <1>1, PresentCounted DEF Mirrored
<1>7. DOMAIN Content(cell) = Present(cell)
  BY DEF Content
<1>8. QED
  BY <1>3, <1>4, <1>5, <1>6, <1>7 DEF ContentIs, Content

\* The same after a step.
LEMMA ContentAfter ==
  IInv' => /\ [k \in {j \in Keys : CallContains(j)'} |-> CallGet(k)'] = Content(cell')
           /\ DOMAIN Content(cell') = Present(cell')
           /\ CallLen' = Cardinality(Present(cell'))
           /\ IsLinked' => Compact' = cell'
<1>1. IInv' => ContentIs'
  BY ContentAlways, PTL
<1>2. QED
  BY <1>1 DEF ContentIs

\* An insert into a finite map.
MapGrown(c, d, k, v) ==
  /\ Present(d) = Present(c) \cup {k}
  /\ Content(d) = [i \in Present(c) \cup {k} |-> IF i = k THEN v ELSE Content(c)[i]]

LEMMA ContentGrown ==
  ASSUME NEW c \in Seq(Entries), NEW d \in Seq(Entries), NEW k \in Keys, NEW v \in Vals \cup {Unit},
         Changed(c, d, k, v)
  PROVE  MapGrown(c, d, k, v)
<1>1. \A j \in Keys : Value(d, j) = IF j = k THEN v ELSE Value(c, j)
  BY DEF Changed
<1>2. v # Null
  BY ValsAssumption
<1>3. Present(d) = Present(c) \cup {k}
  BY <1>1, <1>2 DEF Present
<1>4. ASSUME NEW i \in Present(c) \cup {k} PROVE Value(d, i) = IF i = k THEN v ELSE Content(c)[i]
  BY <1>1 DEF Present, Content
<1>5. Content(d) = [i \in Present(c) \cup {k} |-> Value(d, i)]
  BY <1>3 DEF Content
<1>6. QED
  BY <1>3, <1>4, <1>5 DEF MapGrown

\* A remove from a finite map.
LEMMA ContentShrunk ==
  ASSUME NEW c \in Seq(Entries), NEW d \in Seq(Entries), NEW k \in Keys, Changed(c, d, k, Null)
  PROVE  Present(d) = Present(c) \ {k} /\ Content(d) = Restrict(Content(c), Present(c) \ {k})
<1>1. \A j \in Keys : Value(d, j) = IF j = k THEN Null ELSE Value(c, j)
  BY DEF Changed
<1>2. Present(d) = Present(c) \ {k}
  BY <1>1 DEF Present
<1>3. ASSUME NEW i \in Present(c) \ {k} PROVE Value(d, i) = Content(c)[i]
  BY <1>1 DEF Present, Content
<1>4. Content(d) = [i \in Present(c) \ {k} |-> Value(d, i)]
  BY <1>2 DEF Content
<1>5. QED
  BY <1>2, <1>3, <1>4 DEF Restrict

\* What an insert does to a linked family, as the ordered map has it.
LEMMA OrderGrown ==
  ASSUME NEW c \in Seq(Entries), Apart(c), NEW k \in Keys, NEW v \in Vals \cup {Unit}
  PROVE  (IF Find(c, k) # 0 THEN [c EXCEPT ![Find(c, k)].val = v] ELSE Append(c, Entry(k, v)))
           = IF \E i \in DOMAIN c : c[i].key = k
             THEN [i \in DOMAIN c |-> IF c[i].key = k THEN Entry(k, v) ELSE c[i]]
             ELSE Append(c, Entry(k, v))
<1>1. DOMAIN c = 1 .. Len(c)
  OBVIOUS
<1>2. CASE Find(c, k) = 0
  BY <1>1, <1>2, FindIs
<1>3. CASE Find(c, k) # 0
  <2> DEFINE at == Find(c, k)
  <2>1. at \in DOMAIN c /\ c[at].key = k
    BY <1>1, <1>3, FindIs
  <2>2. [c EXCEPT ![at].val = v] = [i \in DOMAIN c |-> IF i = at THEN [c[at] EXCEPT !.val = v] ELSE c[i]]
    OBVIOUS
  <2>3. c[at] = [key |-> c[at].key, val |-> c[at].val]
    BY <1>1, <2>1, FindAt
  <2>4. [c[at] EXCEPT !.val = v] = Entry(k, v)
    BY <2>1, <2>3 DEF Entry
  <2>5. ASSUME NEW i \in DOMAIN c PROVE c[i].key = k <=> i = at
    BY <2>1 DEF Apart
  <2> HIDE DEF at
  <2>6. [i \in DOMAIN c |-> IF i = at THEN [c[at] EXCEPT !.val = v] ELSE c[i]]
           = [i \in DOMAIN c |-> IF c[i].key = k THEN Entry(k, v) ELSE c[i]]
    BY <2>4, <2>5
  <2>7. QED
    BY <1>3, <2>1, <2>2, <2>6 DEF at
<1>4. QED
  BY <1>2, <1>3

\* The abstract map counts and restricts as the modules it extends do.
LEMMA AbstractUses ==
  /\ \A S : Abstract!Cardinality(S) = Cardinality(S)
  /\ \A f, S : Abstract!Restrict(f, S) = [x \in S |-> f[x]]
BY DEF Abstract!Cardinality, Cardinality, Abstract!Restrict

\* An insert in the interpreter is one of the abstract collection.
LEMMA InsertIsRight ==
  ASSUME IInv, IInv', family' = family, NEW k \in Keys, NEW v \in Vals \cup {Unit}, CellInsert(k, v)
  PROVE  IF IsLinked THEN Ordered!Insert(k, v) ELSE Abstract!Insert(k, v)
<1>1. Grown(cell, cell', k, v) /\ cell \in Seq(Entries) /\ Apart(cell)
  BY CellInserted DEF IInv
<1>2. Changed(cell, cell', k, v) /\ cell' \in Seq(Entries)
  BY <1>1 DEF Grown, Changed
<1>3. ContentIs
  BY ContentAlways
<1>4. CASE IsLinked
  <2>1. Compact = cell /\ Compact' = cell'
    BY <1>3, <1>4, ContentAfter DEF ContentIs, IsLinked
  <2>2. cell' = IF Find(cell, k) # 0 THEN [cell EXCEPT ![Find(cell, k)].val = v] ELSE Append(cell, Entry(k, v))
    BY <1>1, <1>4 DEF Grown, InKeyOrder, IsLinked
  <2>3. cell' = IF \E i \in DOMAIN cell : cell[i].key = k
                THEN [i \in DOMAIN cell |-> IF cell[i].key = k THEN Entry(k, v) ELSE cell[i]]
                ELSE Append(cell, Entry(k, v))
    BY <1>1, <2>2, OrderGrown
  <2>4. Ordered!Insert(k, v)
    BY <2>1, <2>3 DEF Ordered!Insert, Entry
  <2>5. QED
    BY <1>4, <2>4
<1>5. CASE ~IsLinked
  <2>1. MapGrown(cell, cell', k, v)
    BY <1>1, <1>2, ContentGrown
  <2>2. /\ [i \in {j \in Keys : CallContains(j)'} |-> CallGet(i)'] = Content(cell')
        /\ CallLen' = Cardinality(Present(cell'))
    BY ContentAfter
  <2>3. /\ [i \in {j \in Keys : CallContains(j)} |-> CallGet(i)] = Content(cell)
        /\ DOMAIN Content(cell) = Present(cell)
    BY <1>3 DEF ContentIs
  <2>4. Abstract!Insert(k, v)
    BY <2>1, <2>2, <2>3, AbstractUses DEF Abstract!Insert, MapGrown
  <2>5. QED
    BY <1>5, <2>4
<1>6. QED
  BY <1>4, <1>5

\* And a remove.
LEMMA RemoveIsRight ==
  ASSUME IInv, IInv', family' = family, NEW k \in Keys, CellRemove(k)
  PROVE  IF IsLinked THEN Ordered!Remove(k) ELSE Abstract!Remove(k)
<1>1. Shrunk(cell, cell', k) /\ cell \in Seq(Entries) /\ Apart(cell)
  BY CellRemoved DEF IInv
<1>2. Changed(cell, cell', k, Null) /\ cell' \in Seq(Entries)
  BY <1>1 DEF Shrunk, Changed
<1>3. ContentIs
  BY ContentAlways
<1>4. CASE IsLinked
  <2>1. Compact = cell /\ Compact' = cell'
    BY <1>3, <1>4, ContentAfter DEF ContentIs, IsLinked
  <2>2. cell' = IF Find(cell, k) = 0 THEN cell ELSE RemoveAt(cell, Find(cell, k))
    BY <1>1 DEF Shrunk
  <2>3. DOMAIN cell = 1 .. Len(cell)
    BY <1>1
  <2>4. CASE Find(cell, k) = 0
    <3>1. \A i \in DOMAIN cell : cell[i].key # k
      BY <1>1, <2>3, <2>4, FindIs
    <3>2. QED
      BY <1>4, <2>1, <2>2, <2>4, <3>1 DEF Ordered!Remove
  <2>5. CASE Find(cell, k) # 0
    <3> DEFINE at == Find(cell, k)
    <3>1. at \in DOMAIN cell /\ cell[at].key = k
      BY <1>1, <2>3, <2>5, FindIs
    <3>2. cell' = SubSeq(cell, 1, at - 1) \o SubSeq(cell, at + 1, Len(cell))
      BY <2>2, <2>5 DEF RemoveAt
    <3> HIDE DEF at
    <3>3. QED
      BY <1>4, <2>1, <3>1, <3>2 DEF Ordered!Remove
  <2>6. QED
    BY <2>4, <2>5
<1>5. CASE ~IsLinked
  <2>1. Present(cell') = Present(cell) \ {k} /\ Content(cell') = Restrict(Content(cell), Present(cell) \ {k})
    BY <1>1, <1>2, ContentShrunk
  <2>2. /\ [i \in {j \in Keys : CallContains(j)'} |-> CallGet(i)'] = Content(cell')
        /\ CallLen' = Cardinality(Present(cell'))
    BY ContentAfter
  <2>3. /\ [i \in {j \in Keys : CallContains(j)} |-> CallGet(i)] = Content(cell)
        /\ DOMAIN Content(cell) = Present(cell)
    BY <1>3 DEF ContentIs
  <2>4. Abstract!Remove(k)
    BY <2>1, <2>2, <2>3, AbstractUses DEF Abstract!Remove, Restrict
  <2>5. QED
    BY <1>5, <2>4
<1>6. QED
  BY <1>4, <1>5

\* Every operation is the abstract one, from an empty collection on.
THEOREM OperationsRight == Spec => OperationsAreRight
<1> DEFINE Right ==
      \A k \in Keys :
         /\ CellRemove(k) => IF IsLinked THEN Ordered!Remove(k) ELSE Abstract!Remove(k)
         /\ \A v \in Vals \cup {Unit} :
              CellInsert(k, v) => IF IsLinked THEN Ordered!Insert(k, v) ELSE Abstract!Insert(k, v)
<1>1. Init => Abstract!Init
  <2> SUFFICES ASSUME Init PROVE Abstract!Init
    OBVIOUS
  <2>1. ContentIs /\ cell = <<>>
    BY InitInv, ContentAlways DEF Init
  <2>2. Present(cell) = {}
    BY <2>1, NothingIs DEF Present
  <2>3. [i \in {j \in Keys : CallContains(j)} |-> CallGet(i)] = [i \in {} |-> {}]
    BY <2>1, <2>2 DEF ContentIs, Content
  <2>4. CallLen = 0
    BY <2>1, <2>2, FS_EmptySet DEF ContentIs
  <2>5. QED
    BY <2>3, <2>4 DEF Abstract!Init
<1>2. IInv /\ IInv' /\ [Next]_vars => [Right]_vars
  <2> SUFFICES ASSUME IInv, IInv', Next PROVE Right
    OBVIOUS
  <2>1. family' = family
    BY DEF Next, InsertKey, RemoveKey
  <2>2. ASSUME NEW k \in Keys, CellRemove(k)
        PROVE  IF IsLinked THEN Ordered!Remove(k) ELSE Abstract!Remove(k)
    BY <2>1, <2>2, RemoveIsRight
  <2>3. ASSUME NEW k \in Keys, NEW v \in Vals \cup {Unit}, CellInsert(k, v)
        PROVE  IF IsLinked THEN Ordered!Insert(k, v) ELSE Abstract!Insert(k, v)
    BY <2>1, <2>3, InsertIsRight
  <2>4. QED
    BY <2>2, <2>3
<1>3. QED
  BY <1>1, <1>2, Invariance, PTL DEF Spec, OperationsAreRight
=============================================================================
