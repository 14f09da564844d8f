----------------------------- MODULE OrderedMap -----------------------------
(***************************************************************************)
(* What a LinkedMap promises (runtime/src/stdlib_linked_map.rs, ADR-0019): *)
(* the pairs in the order their keys were first inserted.                  *)
(***************************************************************************)
EXTENDS Naturals, Sequences

CONSTANTS Keys, Vals

VARIABLE items    \* the pairs, in the order for_each visits them

Pairs == [key : Keys, val : Vals]

Init == items = <<>>

Insert(k, v) ==
  items' = IF \E i \in DOMAIN items : items[i].key = k
             THEN [i \in DOMAIN items |-> IF items[i].key = k THEN [key |-> k, val |-> v] ELSE items[i]]
             ELSE Append(items, [key |-> k, val |-> v])

Remove(k) ==
  \/ \E i \in DOMAIN items : items[i].key = k /\ items' = SubSeq(items, 1, i - 1) \o SubSeq(items, i + 1, Len(items))
  \/ (\A i \in DOMAIN items : items[i].key # k) /\ UNCHANGED items

Next == \E k \in Keys : Remove(k) \/ \E v \in Vals : Insert(k, v)

Spec == Init /\ [][Next]_items
=============================================================================
