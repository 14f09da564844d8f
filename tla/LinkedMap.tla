------------------------------ MODULE LinkedMap ------------------------------
(***************************************************************************)
(* The persistent, insertion-ordered map of the runtime                    *)
(* (runtime/src/stdlib_linked_map.rs).  A map is an array of entries, where *)
(* a removed one leaves a tombstone, and an open-addressing index from     *)
(* keys to entries, probed linearly, where a removed slot leaves one too.  *)
(* Every operation makes a new map and none changes an old one, so a state *)
(* is one map and a step is one operation on it.                           *)
(***************************************************************************)
EXTENDS Naturals, Sequences, FiniteSets, FiniteSetsExt

CONSTANTS Keys, Vals,
          MinCap,     \* MIN_IDX_CAP (8)
          Hashes,     \* the hashes a key may have
          Tomb        \* the null key

ASSUME CapAssumption  == MinCap \in Nat \ {0, 1}
ASSUME TombAssumption == Tomb \notin Keys
ASSUME HashAssumption == Hashes \subseteq Nat

VARIABLES
  hash,      \* hash_fn, the same for every map
  entries,   \* live entries and tombstones, in insertion order
  index,     \* slot -> its state, its key, and the entry it points at
  live       \* count of live entries

linkedVars == <<hash, entries, index, live>>

Empty   == [occupied |-> 0, key |-> Tomb, entry |-> 0]
Slot(k, i) == [occupied |-> 1, key |-> k, entry |-> i]

Cap(idx) == Cardinality(DOMAIN idx)

\* next_pow2 doubles p until it is no less than n.
NextPow2(n) ==
  LET p[i \in 0..n] == IF i = 0 THEN MinCap ELSE IF p[i - 1] < n THEN 2 * p[i - 1] ELSE p[i - 1]
  IN  p[n]

\* The slots in the order a probe for hash h visits them; how many it passes
\* before it stops, the capacity if nothing stops it.
At(cap, h, i) == LET s == (h % cap) + i IN IF s < cap THEN s ELSE s - cap
First(cap, stops) == IF stops = {} THEN cap ELSE Min(stops)

ToEmpty(idx, h, cap) == First(cap, {i \in 0..cap - 1 : idx[At(cap, h, i)].occupied = 0})
ToKey(idx, h, k, cap) ==
  First(cap, {i \in 0..cap - 1 : LET s == idx[At(cap, h, i)] IN s.occupied = 0 \/ (s.occupied = 1 /\ s.key = k)})
ToEntry(idx, h, e, cap) ==
  First(cap, {i \in 0..cap - 1 : LET s == idx[At(cap, h, i)] IN s.occupied = 1 /\ s.entry = e})

\* Counted from 1, and 0 for None.
IndexLookup(idx, h, k) ==
  LET cap == Cap(idx)
      i   == ToKey(idx, h, k, cap)
  IN  IF i = cap THEN 0 ELSE idx[At(cap, h, i)].entry

\* build_index puts one entry after the other in the first empty slot.
BuildIndex(es, cap, hf) ==
  LET Filled[n \in 0..Len(es)] ==
        IF n = 0 THEN [s \in 0..cap - 1 |-> Empty]
        ELSE LET idx == Filled[n - 1] h == hf[es[n].key]
             IN  [idx EXCEPT ![At(cap, h, ToEmpty(idx, h, cap))] = Slot(es[n].key, n)]
  IN  Filled[Len(es)]

\* make_map, of entries without tombstones.
Make(es) == /\ entries' = es
            /\ live'    = Len(es)
            /\ index'   = BuildIndex(es, NextPow2(IF es = <<>> THEN MinCap ELSE 2 * Len(es)), hash)
            /\ UNCHANGED hash

\* The entries of s at the given places, in order, and where the i-th goes.
Rank(places, i) == Cardinality({j \in places : j < i}) + 1
Kept(s, places) == [n \in 1..Cardinality(places) |-> s[CHOOSE i \in places : Rank(places, i) = n]]

LiveAt(es)  == {i \in DOMAIN es : es[i].key # Tomb}
Compact     == Kept(entries, LiveAt(entries))
NewIndex(i) == Rank(LiveAt(entries), i)

-----------------------------------------------------------------------------
LinkedMapNew == /\ entries = <<>>
                /\ index   = [s \in 0..MinCap - 1 |-> Empty]
                /\ live    = 0

LinkedInit == hash \in [Keys -> Hashes] /\ LinkedMapNew

\* Variants named X_... stand for a bug in X that a property has to notice.
LinkedInsert_OldIndex(k, v) ==
  LET found == IndexLookup(index, hash[k], k) IN
  Make(IF found # 0 /\ found <= Len(Compact) THEN [Compact EXCEPT ![found].val = v]
       ELSE IF found # 0 THEN Compact
       ELSE Append(Compact, [key |-> k, val |-> v]))

LinkedInsert_KeepsTable(k, v) ==
  LET found == IndexLookup(index, hash[k], k)
      es    == Append(Compact, [key |-> k, val |-> v]) IN
  IF found # 0 THEN Make([Compact EXCEPT ![NewIndex(found)].val = v])
  ELSE /\ entries' = es /\ live' = Len(es)
       /\ index' = BuildIndex(es, Min({c \in {Cap(index), 2 * Cap(index)} : Len(es) <= c}), hash)
       /\ UNCHANGED hash

LinkedInsert(k, v) ==
  LET found == IndexLookup(index, hash[k], k) IN
  Make(IF found # 0 THEN [Compact EXCEPT ![NewIndex(found)].val = v]
                    ELSE Append(Compact, [key |-> k, val |-> v]))

LinkedRemove_EmptiesSlot(k) ==
  LET found == IndexLookup(index, hash[k], k)
      slot  == At(Cap(index), hash[k], ToEntry(index, hash[k], found, Cap(index))) IN
  IF found = 0 THEN UNCHANGED linkedVars
  ELSE /\ entries' = [entries EXCEPT ![found].key = Tomb]
       /\ index'   = [index EXCEPT ![slot] = Empty]
       /\ live'    = live - 1
       /\ UNCHANGED hash

\* Both tombstones; a key that is absent leaves everything as it is.
LinkedRemove(k) ==
  LET found == IndexLookup(index, hash[k], k)
      slot  == At(Cap(index), hash[k], ToEntry(index, hash[k], found, Cap(index))) IN
  IF found = 0 THEN UNCHANGED linkedVars
  ELSE /\ entries' = [entries EXCEPT ![found].key = Tomb]
       /\ index'   = [index EXCEPT ![slot].occupied = 2]
       /\ live'    = live - 1
       /\ UNCHANGED hash

LinkedNext == \E k \in Keys : LinkedRemove(k) \/ \E v \in Vals : LinkedInsert(k, v)

LinkedSpec == LinkedInit /\ [][LinkedNext]_linkedVars

-----------------------------------------------------------------------------

\* get and contains_key find exactly the keys that for_each visits, each at its
\* entry, whatever was removed and however the hashes collide or wrap around;
\* and a probe never goes round the whole table: tombstones included, half of
\* it is empty, however many removals follow each other.
LookupIsRight ==
  /\ \A k \in Keys :
       LET found == IndexLookup(index, hash[k], k) IN
       IF found = 0 THEN \A i \in DOMAIN entries : entries[i].key # k
                    ELSE entries[found].key = k
  /\ 2 * Cardinality({s \in DOMAIN index : index[s].occupied # 0}) <= Cap(index)
=============================================================================
