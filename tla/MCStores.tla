------------------------------ MODULE MCStores ------------------------------
(***************************************************************************)
(* The stores a service of mydht may be built on, each on its own: the     *)
(* Kademlia table, the file store, the selections of a KVCache, the web of *)
(* trust.  part says which one a behaviour is of, and the variables of the *)
(* others are <<>>.                                                        *)
(***************************************************************************)
EXTENDS Naturals, SequencesExt

CONSTANTS
  KNone,   \* no bucket
  FTorn    \* a file that was emptied

VARIABLES
  part,
  kconf, kad, kpeers, kin,
  fconf, ffile, fdata, fpaths, fdiskd, fdiskp, fpc, fcur, fops, fhalf, fleft,
  ccache, casked, cres,
  wconf, wpeers, wprom, wsigns, wtrust, wstack, worder, wops, wgot

kvars == <<kconf, kad, kpeers, kin>>
fvars == <<fconf, ffile, fdata, fpaths, fdiskd, fdiskp, fpc, fcur, fops, fhalf, fleft>>
cvars == <<ccache, casked, cres>>
wvars == <<wconf, wpeers, wprom, wsigns, wtrust, wstack, worder, wops, wgot>>
vars == <<part, kvars, fvars, cvars, wvars>>

(* Keys of three bits in buckets of two: additions on both sides of our key, *)
(* and removals that merge buckets, some beside an inner node.               *)
KBits == 3
O == FALSE
I == TRUE
KC(keys, off) == [us |-> <<I, O, I>>, bucket_size |-> 2, keys |-> keys, offline |-> off]
KConfs == { KC({<<O, O, O>>, <<O, O, I>>, <<O, I, I>>, <<I, O, O>>, <<I, I, O>>}, FALSE),
            KC({<<O, O, O>>, <<O, I, I>>, <<I, O, O>>, <<I, O, I>>}, TRUE),
            KC({<<O, O, I>>, <<I, O, O>>, <<I, O, I>>, <<I, I, I>>}, TRUE) }

(* Three files: one of a wrong key; one of another directory; two of one     *)
(* name, or of one content; and a reference with a wrong key.                *)
FPath == {"p", "q", "r"}
FContent == {1, 2, 3}
V(content, key, name) == [content |-> content, key |-> key, name |-> name, tmp |-> TRUE]
At(content, key, name) == [content |-> content, key |-> key, name |-> name, tmp |-> FALSE]
FC(values, p, r, n) == [values |-> values, persi |-> p, fillref |-> r, ops |-> n]
FConfs ==
  {FC({V(1, 1, "p"), V(2, 2, "q"), V(3, 2, "r")}, TRUE, r, 5) : r \in BOOLEAN}
  \cup {FC({V(1, 1, "p"), At(1, 1, "p"), At(2, 2, "q")}, TRUE, TRUE, 5)}
  \cup {FC({V(1, 1, "p"), V(1, 1, "q"), V(2, 2, "r")}, TRUE, TRUE, 4)}
  \cup {FC({V(1, 1, "p"), V(2, 2, "p"), V(2, 1, "q")}, p, TRUE, 3) : p \in BOOLEAN}
  \cup {FC({V(1, 1, "p"), At(1, 2, "q")}, TRUE, TRUE, 3)}

(* Up to four values of which three pass the filter, one to four asked for. *)
CVal == 1..4
CFiltered == 1..3
CNb == 4

(* Three peers that sign each other, with both ways to work out a trust; in  *)
(* the last configurations lists are received: of a signature that may not   *)
(* be in the store, of another peer's, listed twice, and longer than its     *)
(* bound.                                                                    *)
WPeer == {"me", "a", "b"}
WMe == "me"
WMax == 255
WKey == WPeer \X WPeer
By(p) == <<<<p, "me">>, <<p, "a">>, <<p, "b">>>>
WOrder == By("me") \o By("a") \o By("b")
WC(levels, tags, lists, promsize, ops) ==
  [kind : {"Classic", "Exp"}, rules : {<<1, 1>>}, promsize : {promsize}, known : {WPeer},
   peers : {WPeer}, signs : {[key : WKey, trust : levels, tag : tags]}, removed : {WKey},
   lists : {lists}, orders : {{WOrder, Reverse(WOrder)}}, ops : {ops}]
WLists ==
  {[signby |-> <<<<"a", "b">>>>, maxsig |-> 2],
   [signby |-> <<<<"a", "b">>, <<"me", "b">>, <<"a", "b">>>>, maxsig |-> 1]}
WConfs ==
  WC({0, 1}, {0}, {}, 1, 3) \cup WC({0}, {0}, {}, 2, 3)
  \cup WC({0, WMax}, 0..1, {}, 1, 2) \cup WC({0}, {0}, WLists, 1, 3)

K == INSTANCE KNodeTable
F == INSTANCE FileStore
C == INSTANCE KVCache
W == INSTANCE WotStore

-----------------------------------------------------------------------------
NoK == kconf = <<>> /\ kad = <<>> /\ kpeers = <<>> /\ kin = <<>>
NoF == /\ fconf = <<>> /\ ffile = <<>> /\ fdata = <<>> /\ fpaths = <<>> /\ fdiskd = <<>>
       /\ fdiskp = <<>> /\ fpc = <<>> /\ fcur = <<>> /\ fops = <<>> /\ fhalf = <<>> /\ fleft = <<>>
NoC == ccache = <<>> /\ casked = <<>> /\ cres = <<>>
NoW == /\ wconf = <<>> /\ wpeers = <<>> /\ wprom = <<>> /\ wsigns = <<>> /\ wtrust = <<>>
       /\ wstack = <<>> /\ worder = <<>> /\ wops = <<>> /\ wgot = <<>>

Init ==
  \/ part = "kad" /\ K!KInit /\ NoF /\ NoC /\ NoW
  \/ part = "file" /\ F!FInit /\ NoK /\ NoC /\ NoW
  \/ part = "kvcache" /\ C!CInit /\ NoK /\ NoF /\ NoW
  \/ part = "wot" /\ W!WInit /\ NoK /\ NoF /\ NoC

KadNext == part = "kad" /\ K!KNext /\ UNCHANGED <<part, fvars, cvars, wvars>>
FileNext == part = "file" /\ F!FNext /\ UNCHANGED <<part, kvars, cvars, wvars>>
CacheNext == part = "kvcache" /\ C!CNext /\ UNCHANGED <<part, kvars, fvars, wvars>>
WotNext == part = "wot" /\ W!WNext /\ UNCHANGED <<part, kvars, fvars, cvars>>

Next == KadNext \/ FileNext \/ CacheNext \/ WotNext

Spec == Init /\ [][Next]_vars

-----------------------------------------------------------------------------
(* The state of each part is well formed. *)
TypeOK ==
  CASE part = "kad" -> K!KTypeOK
    [] part = "file" -> F!FTypeOK
    [] part = "kvcache" -> C!CTypeOK
    [] part = "wot" -> W!WTypeOK

(* BTKad: every peer its last update put in the table, and no other, is in  *)
(* the bucket its key leads to, and get_closest_for_query gives as many     *)
(* different peers as there are, less those it filters out, while buckets   *)
(* are split for additions and merged for removals; until a removal empties *)
(* a bucket whose brother is an inner node, after which nothing is said of  *)
(* the table.                                                               *)
KadComplete == part = "kad" => K!KadComplete

(* A FileStore that is stopped at any step starts again, and with fillref   *)
(* knows every file of its directory; no key is at a path whose content has *)
(* another hash.  Until a commit_store saves one of its files and not the   *)
(* other, and for names and keys as FileStore!Recovers says.                *)
Recovers == part = "file" => F!Recovers

(* Selections of a KVCache: different values that pass the filter, as many  *)
(* as asked for where there are enough; the loop of next_random_values can  *)
(* end from every roll.                                                     *)
Chosen == part = "kvcache" => C!Chosen

(* WotStore: what is promoted about a peer is in the store and about it,    *)
(* once, and at most promsize, whatever was replaced or removed since,      *)
(* except for what came with a list received for the peer.                  *)
Promoted == part = "wot" => W!Promoted
=============================================================================
