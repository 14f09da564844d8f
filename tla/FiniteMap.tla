------------------------------ MODULE FiniteMap ------------------------------
(***************************************************************************)
(* What a Map promises (ADR-0015, runtime/src/stdlib_map.rs): at most one  *)
(* value for a key, and a length that counts the keys.                     *)
(***************************************************************************)
EXTENDS Naturals, FiniteSets, Functions

CONSTANTS Keys, Vals

VARIABLES
  content,  \* a function from the keys that are present to their values
  size      \* what len returns

Init == content = [k \in {} |-> {}] /\ size = 0

Insert(k, v) == /\ content' = [i \in DOMAIN content \cup {k} |-> IF i = k THEN v ELSE content[i]]
                /\ size' = Cardinality(DOMAIN content \cup {k})

Remove(k) == /\ content' = Restrict(content, DOMAIN content \ {k})
             /\ size' = Cardinality(DOMAIN content \ {k})

Next == \E k \in Keys : Remove(k) \/ \E v \in Vals : Insert(k, v)

Spec == Init /\ [][Next]_<<content, size>>
==============================================================================
