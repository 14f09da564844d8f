--------------------------- MODULE MCCollections ----------------------------
(* Four keys, one of them negative, and every way, up to the names of the  *)
(* keys, to hash them.  For the tries, to three slices: the same, parting  *)
(* at the last, at the second, or at the first.  For the tables, which     *)
(* grow from four slots to eight, to two hashes that share the last slot   *)
(* of the small table, where probes wrap around, and part in the large.    *)
EXTENDS Collections

CONSTANTS x, y

MCKeys == {-1, 0, 1, 2}
MCVals == {x, y}

Slices == << <<0, 0, 0>>, <<0, 0, 1>>, <<0, 1, 1>>, <<1, 0, 0>> >>
Hash   == <<3, 7>>

Ascending(n) == {r \in [MCKeys -> 1 .. n] : \A i, j \in MCKeys : i < j => r[i] <= r[j]}
MCHashFns == [trie  |-> {[k \in MCKeys |-> Slices[r[k]]] : r \in Ascending(4)},
              table |-> {[k \in MCKeys |-> Hash[r[k]]] : r \in Ascending(2)}]
MCHashes  == {3, 7}
=============================================================================
