----------------------------- MODULE KNodeTable -----------------------------
(***************************************************************************)
(* The routing table of mydht-btkad: a binary tree of buckets over the     *)
(* distance to this node (knodetable.rs), and the route that keeps the     *)
(* peers that are online in it (btkad.rs).                                 *)
(*                                                                         *)
(* The tree is two arrays: buckets, with no bucket at an inner node, and   *)
(* bintree, with the children of node i at 2i and 2i + 1.  rem_ix holds    *)
(* the indices to use again.  Keys are sequences of KBits bits.            *)
(***************************************************************************)
EXTENDS Naturals, Sequences, FiniteSets, SequencesExt

CONSTANTS
  KBits,   \* length of keys
  KNone,   \* no bucket
  KConfs   \* configurations considered, see kconf

VARIABLES
  kconf,   \* us: key of this node; bucket_size; keys: peers considered;
           \* offline: peers leave
  kad,     \* the KNodeTable
  kpeers,  \* the cache of BTKadBase: "unknown", "offline" or "online"
  kin      \* history: peers that their last update_priority put in the table

kvars == <<kconf, kad, kpeers, kin>>

-----------------------------------------------------------------------------
(* KNodeTable *)
bitxor(us, k) == [i \in 1..KBits |-> us[i] /= k[i]]

Dist(k) == bitxor(kconf.us, k)

new == [buckets |-> [i \in {0} |-> <<>>], bintree |-> [i \in 0..1 |-> 0], rem_ix |-> <<>>,
        dead |-> FALSE,   \* the code has panicked
        skew |-> FALSE]   \* history: a removal took a node under an inner brother for the brother

Child(t, i, right) == t.bintree[2 * i + IF right THEN 1 ELSE 0]

(* The walk of resolve_bucket, resolve_bucket_mut and resolve_bucket_parent: *)
(* depth, parent and index of the bucket, dead when it leaves the key.       *)
resolve_bucket(t, k) ==
  LET d == Dist(k)
      Walk[l \in 0..KBits, par \in DOMAIN t.buckets, i \in DOMAIN t.buckets] ==
        IF t.buckets[i] /= KNone THEN [distix |-> l, par |-> par, ix |-> i, dead |-> FALSE]
        ELSE IF l = KBits THEN [distix |-> l, par |-> par, ix |-> i, dead |-> TRUE]
        ELSE Walk[l + 1, i, Child(t, i, d[l + 1])]
  IN Walk[0, 0, 0]

(* KBucket: an element that is there already goes to the end. *)
BucketAdd(b, e) == Append(SelectSeq(b, LAMBDA x : x /= e), e)
BucketRemove(b, e) == SelectSeq(b, LAMBDA x : x /= e)
BucketClosest(b, nb) == SubSeq(b, IF nb > Len(b) THEN 1 ELSE Len(b) - nb + 1, Len(b))

(* The first bit in which two elements of the bucket differ, 0 if none. *)
split_ix(b) ==
  LET ds == {i \in 1..KBits : \E x, y \in DOMAIN b : b[x][i] /= b[y][i]}
  IN IF ds = {} THEN KBits ELSE (CHOOSE i \in ds : \A j \in ds : i <= j) - 1

(* Mutant: split by the keys, where the walk goes by their distance to us. *)
split_by_key(b) ==
  LET six == split_ix(b)
  IN [left |-> SelectSeq(b, LAMBDA x : ~x[six + 1]),
      right |-> SelectSeq(b, LAMBDA x : x[six + 1]), six |-> six]

split(b) ==
  LET six == split_ix(b)
  IN [left |-> SelectSeq(b, LAMBDA x : ~Dist(x)[six + 1]),
      right |-> SelectSeq(b, LAMBDA x : Dist(x)[six + 1]), six |-> six]

(* A place for a new node: a removed one, or two more array cells. *)
NewNode(t, b) ==
  IF t.rem_ix /= <<>>
  THEN LET n == Last(t.rem_ix)
       IN [t |-> [t EXCEPT !.rem_ix = Front(@), !.buckets[n] = b], ix |-> n]
  ELSE LET n == Cardinality(DOMAIN t.buckets)
       IN [t |-> [t EXCEPT !.buckets = [i \in 0..n |-> IF i = n THEN b ELSE @[i]],
                           !.bintree = [i \in 0..(2 * n + 1) |-> IF i >= 2 * n THEN 0 ELSE @[i]]],
           ix |-> n]

(* Children of node i: towards the split one is an empty bucket, and at the  *)
(* split itself both get their halves.                                       *)
AddChildren(t, i, l, r) ==
  LET nl == NewNode(t, l)
      nr == NewNode([nl.t EXCEPT !.bintree[2 * i] = nl.ix], r)
  IN [nr.t EXCEPT !.bintree[2 * i + 1] = nr.ix]

add(t, e) ==
  LET at == resolve_bucket(t, e)
      b == BucketAdd(t.buckets[at.ix], e)
      s == split(b)
      d == Dist(s.left[1])
      Split[l \in Nat] ==
        IF l = at.distix THEN [t |-> [t EXCEPT !.buckets[at.ix] = KNone], ix |-> at.ix]
        ELSE LET p == Split[l - 1]
                 q == AddChildren(p.t, p.ix, IF d[l] THEN <<>> ELSE KNone,
                                             IF d[l] THEN KNone ELSE <<>>)
             IN [t |-> q, ix |-> Child(q, p.ix, d[l])]
  IN IF at.dead \/ (Len(b) > kconf.bucket_size /\ s.six = KBits) THEN [t EXCEPT !.dead = TRUE]
     ELSE IF Len(b) <= kconf.bucket_size THEN [t EXCEPT !.buckets[at.ix] = b]
     ELSE AddChildren(Split[s.six].t, Split[s.six].ix, s.left, s.right)

has_content(t, i) ==
  IF t.buckets[i] /= KNone THEN t.buckets[i] /= <<>>
  ELSE t.bintree[2 * i] /= 0 \/ t.bintree[2 * i + 1] /= 0

Cleared(t, i) ==
  [t EXCEPT !.buckets[i] = KNone, !.bintree[2 * i] = 0, !.bintree[2 * i + 1] = 0]

(* The bucket of node i goes to its parent. *)
Moved(t, i, par) == [Cleared(Cleared(t, i), par) EXCEPT !.buckets[par] = t.buckets[i]]

(* After the last element of a bucket is gone the walk goes up: the brother  *)
(* is looked for at the key with the bit of this level inverted.  Where the  *)
(* brother is an inner node this finds a bucket below it, and the merge      *)
(* breaks the tree.                                                          *)
remove(t, e) ==
  LET at == resolve_bucket(t, e)
      b == BucketRemove(t.buckets[at.ix], e)
      t0 == [t EXCEPT !.buckets[at.ix] = b]
      Up[l \in Nat] == \* l levels done
        IF l = 0 THEN [t |-> t0, ix |-> at.ix, stop |-> at.distix = 0]
        ELSE LET u == Up[l - 1]
                 bit == at.distix - l + 1
                 bro == resolve_bucket(u.t, [e EXCEPT ![bit] = ~@])
                 full == has_content(u.t, bro.ix)
                 m == IF full THEN Cleared(Moved(u.t, bro.ix, bro.par), u.ix)
                      ELSE Moved(Cleared(u.t, bro.ix), u.ix, bro.par)
             IN IF u.stop \/ u.t.dead THEN u
                ELSE IF bro.dead THEN [u EXCEPT !.t.dead = TRUE]
                ELSE IF full /\ l > 1 THEN [u EXCEPT !.stop = TRUE]
                ELSE [t |-> [m EXCEPT !.rem_ix = @ \o <<bro.ix, u.ix>>,
                                      !.skew = @ \/ bro.distix /= bit],
                      ix |-> bro.par, stop |-> FALSE]
  IN IF at.dead THEN [t EXCEPT !.dead = TRUE]
     ELSE IF b /= <<>> \/ at.ix = 0 THEN t0 ELSE Up[at.distix].t

(* The bucket of the key, then the buckets after it and those before it. *)
get_closest(t, k, nb) ==
  LET ix == resolve_bucket(t, k).ix
      n == Cardinality(DOMAIN t.buckets)
      Fill[i \in 0..n] == \* buckets visited: ix, ix + 1, .., n - 1, 0, .., ix - 1
        IF i = 0 THEN <<>>
        ELSE LET j == (ix + i - 1) % n
             IN IF t.buckets[j] = KNone THEN Fill[i - 1]
                ELSE Fill[i - 1] \o BucketClosest(t.buckets[j], nb - Len(Fill[i - 1]))
  IN Fill[n]

-----------------------------------------------------------------------------
(* BTKadBase *)
KInit ==
  /\ kconf \in KConfs
  /\ kad = new
  /\ kpeers = [p \in kconf.keys |-> "unknown"] /\ kin = {}

(* A peer, known or not, enters the cache in any state; the table is left    *)
(* as it is.                                                                 *)
add_node(p, state) ==
  /\ kpeers' = [kpeers EXCEPT ![p] = state]
  /\ UNCHANGED <<kconf, kad, kin>>

(* The state of a known peer, and its place in the table: an update to the   *)
(* same state refreshes it.  No state and no change ("none") keeps the state *)
(* but takes the peer off the table.                                         *)
update_priority(p, state) ==
  /\ kpeers[p] /= "unknown"
  /\ kpeers' = [kpeers EXCEPT ![p] = IF state = "none" THEN @ ELSE state]
  /\ kad' = IF state = "online" THEN add(kad, p) ELSE remove(kad, p)
  /\ kin' = IF state = "online" THEN kin \cup {p} ELSE kin \ {p}
  /\ UNCHANGED kconf

(* get_closest_for_node and get_closest_for_query: the peers to filter out   *)
(* are not replaced.                                                         *)
get_closest_for_query(k, nb, filter) ==
  SelectSeq(get_closest(kad, k, nb), LAMBDA e : e \notin filter)

(* A table with a broken tree is not followed further. *)
KNext ==
  /\ ~kad.dead /\ ~kad.skew
  /\ \E p \in kconf.keys :
       \/ \E state \in {"offline", "online"} : add_node(p, state)
       \/ update_priority(p, "online")
       \/ kconf.offline /\ \E state \in {"offline", "none"} : update_priority(p, state)

KSpec == KInit /\ [][KNext]_kvars

-----------------------------------------------------------------------------
Nodes == DOMAIN kad.buckets
Leaves == {i \in Nodes : kad.buckets[i] /= KNone}
Elems == UNION {ToSet(kad.buckets[i]) : i \in Leaves}

KTypeOK ==
  /\ kad.bintree \in [0..(2 * Cardinality(Nodes) - 1) -> Nodes]
  /\ kad.rem_ix \in Seq(Nodes)

(* Every peer whose last update_priority put it in the table, and no other,  *)
(* is in the bucket that the walk over its key ends at, once; buckets keep   *)
(* their size and free nodes are not used; get_closest_for_query gives as    *)
(* many different peers as it is asked for, less the ones the query went     *)
(* through, as long as there are that many.  This is so until a removal      *)
(* empties a bucket and merges it with one that is not its brother, because  *)
(* the brother is an inner node.  The state of a peer in the cache is not    *)
(* always that of the table: see add_node and update_priority.               *)
KadComplete ==
  \/ kad.skew
  \/ /\ ~kad.dead
     /\ Elems = kin
     /\ \A i \in Leaves :
          /\ Len(kad.buckets[i]) <= kconf.bucket_size /\ IsInjective(kad.buckets[i])
          /\ \A e \in ToSet(kad.buckets[i]) : resolve_bucket(kad, e).ix = i
     /\ ToSet(kad.rem_ix) \cap Leaves = {} /\ IsInjective(kad.rem_ix)
     /\ \A k \in kconf.keys, nb \in 1..4 :
          \A filter \in {{}} \cup {{e} : e \in kin} :
            LET c == get_closest_for_query(k, nb, filter)
            IN /\ IsInjective(c) /\ ToSet(c) \subseteq kin \ filter /\ Len(c) <= nb
               /\ Len(c) + Cardinality(filter) < nb => ToSet(c) = kin \ filter
=============================================================================
