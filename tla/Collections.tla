---------------------------- MODULE Collections -----------------------------
(***************************************************************************)
(* The six collections of the language as a program uses them: one         *)
(* variable, assigned the result of each operation on itself.  A native    *)
(* program calls the runtime                                               *)
(* (runtime/src/stdlib_{map,set,linked_map,linked_set,sorted_map,sorted_set}.rs) *)
(* through the builtins of codegen-llvm/src/inkwell_map_builtins.rs; the   *)
(* playground and --interpret run the same instructions on vectors         *)
(* (interpreter/src/builtins.rs, exec.rs). Both run here side by side.     *)
(*                                                                         *)
(* A set is a map to Unit, as LinkedSet and SortedSet are in the code.     *)
(***************************************************************************)
EXTENDS LinkedMap, Integers, SequencesExt, Functions

CONSTANTS HashFns,   \* what tyra_hash_K may compute for every key: for a trie the slices of a
                     \* hash, for a table the hash
          Unit,      \* the sentinel a set stores
          Null,      \* the null pointer: no value
          Levels     \* the slices of a hash for a trie

ASSUME KeysAssumption   == Keys \subseteq Int
ASSUME ValsAssumption   == Null \notin Vals \cup {Unit}
ASSUME LevelsAssumption == Levels \in Nat
ASSUME HashFnsAssumption == /\ HashFns.trie \subseteq [Keys -> [1 .. Levels -> Nat]]
                            /\ HashFns.table \subseteq [Keys -> Hashes]

VARIABLES
  family,    \* the family of the collection
  root, count,   \* Map and Set: the trie
  sorted,        \* SortedMap and SortedSet: the entries, the smallest key first
  cell           \* the vector of the interpreter's Rc<RefCell<..>>

trie == <<root, count>>
vars == <<family, root, count, hash, entries, index, live, sorted, cell>>

\* CollFamily: whether a family carries values, and whether its order is the keys'.
CollFamily ==
  [map        |-> [kv |-> TRUE,  cmp_only |-> FALSE], set        |-> [kv |-> FALSE, cmp_only |-> FALSE],
   linked_map |-> [kv |-> TRUE,  cmp_only |-> FALSE], linked_set |-> [kv |-> FALSE, cmp_only |-> FALSE],
   sorted_map |-> [kv |-> TRUE,  cmp_only |-> TRUE],  sorted_set |-> [kv |-> FALSE, cmp_only |-> TRUE]]
Families == DOMAIN CollFamily
InHashOrder == family \in {"map", "set"}
IsLinked    == family \in {"linked_map", "linked_set"}

INSTANCE Hamt
Ordered == INSTANCE OrderedMap WITH items <- Compact

-----------------------------------------------------------------------------
(* The map in key order (ADR-0024): an array of entries searched by        *)
(* halving and copied by every operation.  Keys compare by the function    *)
(* codegen makes for their type: numbers here, as Int keys.                *)

\* Signed: i64 for Int, zero-extended bytes for Bool, tyra_cstr_cmp for String.
Cmp_Unsigned(a, b) ==
  LET u(n) == n % 256 IN
  IF u(a) < u(b) THEN -1 ELSE IF u(a) > u(b) THEN 1 ELSE 0
Cmp(a, b) == IF a < b THEN -1 ELSE IF a > b THEN 1 ELSE 0

\* The rounds of the loop: Ok(lo) when the key is found, else Err(lo), the place
\* to insert at, counted from 1.
BinarySearch_SkipsLow(es, k) ==
  LET Round[n \in 0 .. Len(es)] ==
        IF n = 0 THEN [lo |-> 1, hi |-> Len(es) + 1, found |-> FALSE]
        ELSE LET at  == Round[n - 1]
                 mid == at.lo + (at.hi - at.lo) \div 2
             IN  IF at.found \/ at.lo >= at.hi THEN at
                 ELSE LET c == Cmp(es[mid].key, k)
                      IN  IF c < 0 THEN [at EXCEPT !.lo = mid + 1]
                          ELSE IF c > 0 THEN [at EXCEPT !.hi = IF mid > at.lo THEN mid - 1 ELSE at.lo]
                          ELSE [at EXCEPT !.lo = mid, !.found = TRUE]
  IN  Round[Len(es)]
BinarySearch(es, k) ==
  LET Round[n \in 0 .. Len(es)] ==
        IF n = 0 THEN [lo |-> 1, hi |-> Len(es) + 1, found |-> FALSE]
        ELSE LET at  == Round[n - 1]
                 mid == at.lo + (at.hi - at.lo) \div 2
             IN  IF at.found \/ at.lo >= at.hi THEN at
                 ELSE LET c == Cmp(es[mid].key, k)
                      IN  IF c < 0 THEN [at EXCEPT !.lo = mid + 1]
                          ELSE IF c > 0 THEN [at EXCEPT !.hi = mid]
                          ELSE [at EXCEPT !.lo = mid, !.found = TRUE]
  IN  Round[Len(es)]

SortedMapNew == sorted = <<>>

SortedMapInsert(k, v) ==
  LET place == BinarySearch(sorted, k)
      entry == [key |-> k, val |-> v]
  IN  sorted' = IF place.found THEN [sorted EXCEPT ![place.lo].val = v]
                ELSE InsertAt(sorted, place.lo, entry)

SortedMapRemove(k) ==
  LET place == BinarySearch(sorted, k)
  IN  sorted' = IF place.found THEN RemoveAt(sorted, place.lo) ELSE sorted

SortedMapGet(k, absent) ==
  LET place == BinarySearch(sorted, k)
  IN  IF place.found THEN sorted[place.lo].val ELSE absent

-----------------------------------------------------------------------------
(* The runtime.                                                            *)

SetNew       == MapNew
SetInsert(k) == MapInsert(k, Unit)
SetRemove(k) == MapRemove(k)

UnitVal_Null == Null
UnitVal == Unit
LinkedSetInsert(k) == LinkedInsert(k, UnitVal)
LinkedSetRemove(k) == LinkedRemove(k)
SortedSetInsert(k) == SortedMapInsert(k, UnitVal)
SortedSetRemove(k) == SortedMapRemove(k)

CallInsert(k, v) ==
  \/ family = "map"        /\ MapInsert(k, v)         /\ UNCHANGED <<entries, index, live, sorted>>
  \/ family = "set"        /\ SetInsert(k)                 /\ UNCHANGED <<entries, index, live, sorted>>
  \/ family = "linked_map" /\ LinkedInsert(k, v)           /\ UNCHANGED <<trie, sorted>>
  \/ family = "linked_set" /\ LinkedSetInsert(k)           /\ UNCHANGED <<trie, sorted>>
  \/ family = "sorted_map" /\ SortedMapInsert(k, v) /\ UNCHANGED <<trie, linkedVars>>
  \/ family = "sorted_set" /\ SortedSetInsert(k)           /\ UNCHANGED <<trie, linkedVars>>

CallRemove(k) ==
  \/ family = "map"        /\ MapRemove(k)            /\ UNCHANGED <<entries, index, live, sorted>>
  \/ family = "set"        /\ SetRemove(k)                 /\ UNCHANGED <<entries, index, live, sorted>>
  \/ family = "linked_map" /\ LinkedRemove(k)              /\ UNCHANGED <<trie, sorted>>
  \/ family = "linked_set" /\ LinkedSetRemove(k)           /\ UNCHANGED <<trie, sorted>>
  \/ family = "sorted_map" /\ SortedMapRemove(k)    /\ UNCHANGED <<trie, linkedVars>>
  \/ family = "sorted_set" /\ SortedSetRemove(k)           /\ UNCHANGED <<trie, linkedVars>>

\* *_get of a family; contains asks it for a value that is not null.
CallGet(k) ==
  CASE InHashOrder -> Get(k)
    [] IsLinked    -> LET i == IndexLookup(index, hash[k], k) IN IF i = 0 THEN Null ELSE entries[i].val
    [] OTHER       -> SortedMapGet(k, Null)
CallContains(k) == CallGet(k) # Null
CallLen == CASE InHashOrder -> count [] IsLinked -> live [] OTHER -> Len(sorted)

\* The Option<V> built from the box: its tag, and zero when there is none.
MapGetOption(k) == IF CallGet(k) # Null THEN <<"Some", CallGet(k)>> ELSE <<"None">>

CallForEach == CASE InHashOrder -> HamtForEach(root) [] IsLinked -> Compact [] OTHER -> sorted

-----------------------------------------------------------------------------
(* The interpreter.                                                        *)

\* partition_point: how many of the vector's keys come before k.
PartitionPoint(k) == Cardinality({i \in DOMAIN cell : cell[i].key < k})

CellInsert_Appends(k, v) ==
  cell' = IF Find(cell, k) # 0 THEN [cell EXCEPT ![Find(cell, k)].val = v]
          ELSE Append(cell, [key |-> k, val |-> v])
CellInsert(k, v) ==
  LET i == Find(cell, k)
      entry == [key |-> k, val |-> v]
  IN  cell' = IF i # 0 THEN [cell EXCEPT ![i].val = v]
              ELSE IF CollFamily[family].cmp_only THEN InsertAt(cell, PartitionPoint(k) + 1, entry)
              ELSE Append(cell, entry)
CellRemove(k)   == cell' = Kept(cell, {i \in DOMAIN cell : cell[i].key # k})
CellContains(k) == \E i \in DOMAIN cell : cell[i].key = k
CellGet(k)      == IF Find(cell, k) # 0 THEN <<"Some", cell[Find(cell, k)].val>> ELSE <<"None">>
CellForEach     == cell

-----------------------------------------------------------------------------
Init == /\ family \in Families
        /\ hash \in IF InHashOrder THEN HashFns.trie ELSE IF IsLinked THEN HashFns.table ELSE {<<>>}
        /\ SetNew
        /\ LinkedMapNew
        /\ SortedMapNew
        /\ cell = <<>>

InsertKey(k, v) == /\ v \in IF CollFamily[family].kv THEN Vals ELSE {Unit}
                /\ CallInsert(k, v)
                /\ CellInsert(k, v)
                /\ UNCHANGED family

RemoveKey(k) == CallRemove(k) /\ CellRemove(k) /\ UNCHANGED family

Next == \E k \in Keys : RemoveKey(k) \/ \E v \in Vals \cup {Unit} : InsertKey(k, v)

Spec == Init /\ [][Next]_vars

-----------------------------------------------------------------------------
(* Properties.                                                             *)

\* Whatever was inserted and removed, the representation is one that lookups
\* can find their way in: no branch of a trie is empty and every entry stands
\* under its key's hash, a probe of a table ends at the entry it looks for
\* (LookupIsRight), a sorted array ascends and has a key once.  And
\* for_each calls back once for every key a lookup finds, with its value, and
\* for no other key, as often as len says, whichever collision nodes and
\* branches came and went.
StructureIsSound ==
  LET visited == CallForEach
  IN  /\ InHashOrder => WellPlaced(root)
      /\ IsLinked => LookupIsRight
      /\ \A i \in 1 .. Len(sorted) - 1 : sorted[i].key < sorted[i + 1].key
      /\ \A k \in Keys : Cardinality({i \in DOMAIN visited : visited[i].key = k})
                           = IF CallContains(k) THEN 1 ELSE 0
      /\ \A i \in DOMAIN visited : visited[i].val = CallGet(visited[i].key)
      /\ Len(visited) = CallLen

\* A step that inserts into the vector of the interpreter, or removes from it,
\* does to the collection what the abstract operation on the same key does, and
\* neither loses, keeps nor changes another key.  A linked family is the ordered
\* map: insert keeps the place of a key it finds and appends a new one, remove
\* takes one key out.  The others are the finite map, seen through get and len.
Abstract == INSTANCE FiniteMap WITH
              content <- [k \in {j \in Keys : CallContains(j)} |-> CallGet(k)], size <- CallLen
OperationsAreRight ==
  /\ Abstract!Init
  /\ [][\A k \in Keys :
         /\ CellRemove(k) => IF IsLinked THEN Ordered!Remove(k) ELSE Abstract!Remove(k)
         /\ \A v \in Vals \cup {Unit} :
              CellInsert(k, v) => IF IsLinked THEN Ordered!Insert(k, v) ELSE Abstract!Insert(k, v)]_vars

\* Interpreted and native, a program sees the same collection: the same
\* answers to get, contains and len, and the same order for for_each in every
\* family that promises one (Map and Set promise none).
InterpreterAgrees ==
  /\ \A k \in Keys : CellContains(k) = CallContains(k) /\ CellGet(k) = MapGetOption(k)
  /\ Len(cell) = CallLen
  /\ IF InHashOrder THEN ToSet(CellForEach) = ToSet(CallForEach) ELSE CellForEach = CallForEach
=============================================================================
