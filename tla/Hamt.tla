-------------------------------- MODULE Hamt --------------------------------
(***************************************************************************)
(* The hash array mapped trie behind Map and Set (runtime/src/             *)
(* stdlib_map.rs; stdlib_set.rs is the same without values).  A trie is    *)
(* the function from the places of its nodes to the nodes: a place is the  *)
(* path of slots that leads to it from the root, which is at <<>>, and the *)
(* bitmap of a branch says which places one slot further have a node.  A   *)
(* hash is the sequence of its 5-bit slices, first level first, so the     *)
(* descent by a hash goes along its own prefixes.                          *)
(*                                                                         *)
(* No operation writes to a node that is there: what the code copies is    *)
(* what stays in place here.  A state is one map and a step is one         *)
(* operation on it.                                                        *)
(***************************************************************************)
EXTENDS Naturals, Sequences, FiniteSets, Functions, SequencesExt

CONSTANTS Null,      \* the null pointer
          Levels     \* the slices of a hash (13)

VARIABLES
  hash,    \* hash_fn
  root,    \* the trie below the root pointer
  count    \* the number of entries kept in the handle

Entry(k, v) == [key |-> k, val |-> v]

Leaf(h, e)       == [kind |-> "leaf", hash |-> h, entries |-> <<e>>]
Collision(h, es) == [kind |-> "collision", hash |-> h, entries |-> es]
Branch           == [kind |-> "branch", hash |-> <<>>, entries |-> <<>>]

\* The first slices of a hash, or the first slots of a place.
Path(h, depth) == [i \in 1 .. depth |-> h[i]]

IsBranch(t, p) == p \in DOMAIN t /\ t[p].kind = "branch"
With(t, p, node) == [q \in DOMAIN t \cup {p} |-> IF q = p THEN node ELSE t[q]]

\* The place of key k among entries, or 0.
Find(es, k) == LET at == {i \in DOMAIN es : es[i].key = k} IN IF at = {} THEN 0 ELSE CHOOSE i \in at : TRUE

-----------------------------------------------------------------------------
\* Where the descent through the branches ends: at a leaf, at a collision node,
\* or where there is no node.
Depth(t, h) == CHOOSE d \in 0 .. Levels : /\ \A j \in 0 .. d - 1 : IsBranch(t, Path(h, j))
                                          /\ ~IsBranch(t, Path(h, d))
Bottom(t, h) == Path(h, Depth(t, h))

\* The entries a key is compared with: those of the node there, if it has the
\* whole hash.
Compared(t, h) == UNION {ToSet(t[p].entries) : p \in {q \in DOMAIN t : t[q].hash = h /\ q = Bottom(t, h)}}

HamtLookup(t, h, k) ==
  LET hits == {e \in Compared(t, h) : e.key = k}
  IN  IF hits = {} THEN Null ELSE (CHOOSE e \in hits : TRUE).val

\* merge_leaves, merge_collision_and_leaf: branches down to where the hashes part.
Merge(t, p, h, e) ==
  LET node  == t[p]
      part  == CHOOSE d \in Len(p) .. Levels - 1 :
                 Path(node.hash, d) = Path(h, d) /\ node.hash[d + 1] # h[d + 1]
      old   == Path(node.hash, part + 1)
      new   == Path(h, part + 1)
      chain == {Path(h, d) : d \in Len(p) .. part}
  IN  [q \in DOMAIN t \cup chain \cup {old, new} |->
         IF q = new THEN Leaf(h, e) ELSE IF q = old THEN node ELSE IF q \in chain THEN Branch ELSE t[q]]

\* A leaf or a collision node of the hash of the new entry.
Joined_UpdatesFirst(node, e) ==
  IF Find(node.entries, e.key) = 0 THEN Collision(node.hash, Append(node.entries, e))
  ELSE [node EXCEPT !.entries[1].val = e.val]
Joined(node, e) ==
  LET i == Find(node.entries, e.key)
  IN  IF i = 0 THEN Collision(node.hash, Append(node.entries, e))
      ELSE [node EXCEPT !.entries[i] = e]

HamtInsert(t, h, e) ==
  LET p == Bottom(t, h)
  IN  IF p \notin DOMAIN t     THEN With(t, p, Leaf(h, e))
      ELSE IF t[p].hash = h    THEN With(t, p, Joined(t[p], e))
      ELSE Merge(t, p, h, e)

\* What is left of a collision node without its i-th entry: one entry is a leaf.
Left_KeepsCollision(node, i) == Collision(node.hash, RemoveAt(node.entries, i))
Left(node, i) ==
  LET es == RemoveAt(node.entries, i)
  IN  IF Len(es) = 1 THEN Leaf(node.hash, es[1]) ELSE Collision(node.hash, es)

\* The nodes a branch points at.
Below(t, p) == {q \in DOMAIN t : Len(q) = Len(p) + 1 /\ Path(q, Len(p)) = p}

\* The leaf at p goes, and with it every branch above that would be empty.
Alone(t, p, d) == Below(t, Path(p, d)) = {Path(p, d + 1)}
Top(t, p) == CHOOSE c \in 0 .. Len(p) : /\ \A d \in c .. Len(p) - 1 : Alone(t, p, d)
                                        /\ c > 0 => ~Alone(t, p, c - 1)
Pruned(t, p) == Restrict(t, DOMAIN t \ {Path(p, d) : d \in Top(t, p) .. Len(p)})

\* The key is there: the code returns the node itself when it is not.
HamtRemove(t, h, k) ==
  LET p == Bottom(t, h)
  IN  IF Len(t[p].entries) = 1 THEN Pruned(t, p)
      ELSE With(t, p, Left(t[p], Find(t[p].entries, k)))

\* The entries by node and number, in the order they are called back: the
\* children of a branch by their slots, the entries of a node by their numbers.
Visits(t) == UNION {{<<p, i>> : i \in DOMAIN t[p].entries} : p \in DOMAIN t}
Before(a, b) ==
  \/ a[1] = b[1] /\ a[2] < b[2]
  \/ \E d \in DOMAIN a[1] \cap DOMAIN b[1] : Path(a[1], d - 1) = Path(b[1], d - 1) /\ a[1][d] < b[1][d]
HamtForEach(t) ==
  [n \in 1 .. Cardinality(Visits(t)) |->
     LET a == CHOOSE a \in Visits(t) : Cardinality({b \in Visits(t) : Before(b, a)}) + 1 = n
     IN  t[a[1]].entries[a[2]]]

-----------------------------------------------------------------------------
Get(k) == HamtLookup(root, hash[k], k)

MapNew == /\ root = <<>>
          /\ count = 0

MapInsert(k, v) ==
  /\ root' = HamtInsert(root, hash[k], Entry(k, v))
  /\ count' = IF Get(k) = Null THEN count + 1 ELSE count
  /\ UNCHANGED hash

MapRemove(k) ==
  /\ IF Get(k) = Null THEN UNCHANGED <<root, count>>
     ELSE root' = HamtRemove(root, hash[k], k) /\ count' = count - 1
  /\ UNCHANGED hash

-----------------------------------------------------------------------------
\* Every node hangs from branches up to the root, no branch is empty, an entry
\* stands under the slices of its key's hash, only entries of one full hash
\* share a node, and a collision node holds two or more (the code keeps a case
\* for fewer).
WellPlaced(t) ==
  \A p \in DOMAIN t :
    /\ \A d \in 0 .. Len(p) - 1 : IsBranch(t, Path(p, d))
    /\ IF IsBranch(t, p) THEN Below(t, p) # {}
       ELSE /\ p = Path(t[p].hash, Len(p))
            /\ IF t[p].kind = "leaf" THEN Len(t[p].entries) = 1 ELSE Len(t[p].entries) > 1
            /\ \A i \in DOMAIN t[p].entries : hash[t[p].entries[i].key] = t[p].hash
==============================================================================
