------------------------------ MODULE WotStore ------------------------------
(***************************************************************************)
(* The web of trust of mydht-wot: the store of peers, signatures and       *)
(* promoted signatures (truststore.rs), with the trust of each peer worked *)
(* out from the signatures about it by one of two rules (classictrust.rs,  *)
(* exptrust.rs).                                                           *)
(*                                                                         *)
(* Trust is a level, 0 the best and WMax (255) for none.  Whether a peer's *)
(* or a signature's own signature checks is an input.  The cascade of      *)
(* update_trust is one step per signature, and no call of the store starts *)
(* before it is over: wstack holds the calls still to be made.             *)
(***************************************************************************)
EXTENDS Integers, Sequences, FiniteSets, FiniteSetsExt

CONSTANTS
  WPeer,    \* peers, this one included
  WMe,      \* this peer
  WMax,     \* no trust, u8::max_value
  WConfs    \* configurations considered, see wconf

VARIABLES
  wconf,    \* kind: "Classic" or "Exp"; rules: TrustRules; promsize;
            \* known: peers in the store from the start;
            \* what the calls may be of: peers; signs: key, trust and tag of
            \* signatures; removed: keys of signatures; lists: promoted signatures;
            \* orders: orders of the map of signstore; ops: bound on the calls
  wpeers,   \* peerstore: the peers it holds
  wprom,    \* promstore: for each peer signby, the keys of the promoted signatures
            \* about it, and maxsig
  wsigns,   \* signstore: trust and tag, by (from, about)
  wtrust,   \* wotstore: trust and calcmap, by peer
  wstack,   \* signatures update_trust is still to be called for
  worder,   \* all keys, in the order in which the map of signstore gives them
  wops,     \* number of calls of the store
  wgot      \* history: the list received for a peer that its entry of wprom is from

wvars == <<wconf, wpeers, wprom, wsigns, wtrust, wstack, worder, wops, wgot>>

Put(f, k, v) == [x \in DOMAIN f \cup {k} |-> IF x = k THEN v ELSE f[x]]
Del(f, k) == [x \in DOMAIN f \ {k} |-> f[x]]

-----------------------------------------------------------------------------
(* Trust.  calcmap counts the signatures by the level of the signer and the  *)
(* level signed, capped by that of the signer.                               *)
Levels == 0..(Len(wconf.rules) - 1)
rule(l) == wconf.rules[l + 1]
Pairs == {x \in Levels \X Levels : x[1] <= x[2]}

WotTrust_new == [trust |-> WMax, calcmap |-> [x \in Pairs |-> 0]]

Counted(c, f, s) == MapThenSumSet(LAMBDA x : c[x], {x \in Pairs : x[1] <= f /\ x[2] <= s})

(* The signer's level comes first: the first level at which the signatures   *)
(* of that level and better ones agree on a level, in number enough for it.  *)
ClassicLevel(c, old) ==
  LET At(l) == {s \in Levels : s >= l /\ Counted(c, l, s) >= rule(l)}
      ls == {l \in Levels : At(l) /= {}}
  IN IF ls = {} THEN old ELSE Min(At(Min(ls)))

(* The level signed comes first. *)
ExpLevel(c) ==
  LET ls == {s \in Levels : \E f \in 0..s : Counted(c, f, s) >= rule(f)}
  IN IF ls = {} THEN WMax ELSE Min(ls)

Cap(f, s) == IF f > s THEN f ELSE s

(* Mutant: a signature that was not counted is taken off the count. *)
Recounted_below(c, old, new) ==
  LET c1 == IF old \in Pairs THEN [c EXCEPT ![old] = @ - 1] ELSE c
  IN IF new \in Pairs THEN [c1 EXCEPT ![new] = @ + 1] ELSE c1

(* The old signature no longer counts, the new one does. *)
Recounted(c, old, new) ==
  LET c1 == IF old \in Pairs /\ c[old] > 0 THEN [c EXCEPT ![old] = @ - 1] ELSE c
  IN IF new \in Pairs THEN [c1 EXCEPT ![new] = @ + 1] ELSE c1

(* WotTrust::update: the new value, whether it is to be stored (upd), and    *)
(* whether the trust changed (pro).                                          *)
ClassicUpdate(w, fo, so, fn, sn) ==
  LET old == <<fo, Cap(fo, so)>>  new == <<fn, Cap(fn, sn)>>
      upd == (old \in Pairs /\ w.calcmap[old] > 0) \/ new \in Pairs
      c == Recounted(w.calcmap, old, new)
      t == IF upd THEN ClassicLevel(c, w.trust) ELSE w.trust
  IN IF old = new THEN [w |-> w, upd |-> FALSE, pro |-> FALSE]
     ELSE [w |-> [trust |-> t, calcmap |-> c], upd |-> upd, pro |-> t /= w.trust]

ExpUpdate(w, fo, so, fn, sn) ==
  LET old == <<fo, Cap(fo, so)>>  new == <<fn, Cap(fn, sn)>>
      upd == (old \in Pairs /\ w.calcmap[old] > 0) \/ new \in Pairs
      c == Recounted(w.calcmap, old, new)
  IN IF old[2] = new[2] THEN [w |-> w, upd |-> FALSE, pro |-> FALSE]
     ELSE [w |-> [trust |-> ExpLevel(c), calcmap |-> c], upd |-> upd, pro |-> ExpLevel(c) /= w.trust]

update(w, fo, so, fn, sn) ==
  IF wconf.kind = "Classic" THEN ClassicUpdate(w, fo, so, fn, sn) ELSE ExpUpdate(w, fo, so, fn, sn)

-----------------------------------------------------------------------------
(* Promoted signatures, the last ones first.  The list has a bound of its    *)
(* own, past which one is popped.                                            *)
add_sign(r, k) ==
  LET s == <<k>> \o r.signby
  IN IF k \in Range(r.signby) THEN r
     ELSE [r EXCEPT !.signby = IF Len(s) > r.maxsig THEN SubSeq(s, 1, Len(s) - 1) ELSE s]

(* Mutant: the first one is removed. *)
remove_sign_first(r, k) ==
  IF k \in Range(r.signby) THEN [r EXCEPT !.signby = Tail(@)] ELSE r

remove_sign(r, k) ==
  LET s == r.signby
      i == Min({j \in DOMAIN s : s[j] = k})
  IN IF k \notin Range(s) THEN r
     ELSE [r EXCEPT !.signby = SubSeq(s, 1, i - 1) \o SubSeq(s, i + 1, Len(s))]

-----------------------------------------------------------------------------
(* The store.  A new one knows itself, with the best trust, and the peers of *)
(* the peer store it is given.                                               *)
WInit ==
  /\ wconf \in WConfs
  /\ wpeers = {WMe} \cup wconf.known /\ wprom = <<>>
  /\ wsigns = [k \in {<<WMe, WMe>>} |-> [trust |-> 0, tag |-> 0]]
  /\ wtrust = [p \in {WMe} |-> update(WotTrust_new, 0, 1, 0, 0).w]
  /\ wstack = <<>> /\ worder \in wconf.orders /\ wops = 0 /\ wgot = <<>>

get_peer_trust(p) == IF p \in DOMAIN wtrust THEN wtrust[p].trust ELSE WMax

Sign(k) == [key |-> k, trust |-> wsigns[k].trust]

(* get_vals_from_left of signstore. *)
SignsBy(p) ==
  LET ks == SelectSeq(worder, LAMBDA k : k \in DOMAIN wsigns /\ k[1] = p)
  IN [i \in DOMAIN ks |-> Sign(ks[i])]

(* One call of update_trust, and the calls it makes for the signatures of a  *)
(* peer whose trust changed.                                                 *)
update_trust ==
  /\ wstack /= <<>>
  /\ LET s == Head(wstack)  about == s.key[2]
     IN IF about \notin DOMAIN wtrust /\ about \notin wpeers
        THEN wstack' = Tail(wstack) /\ UNCHANGED wtrust
        ELSE \E w \in {IF about \in DOMAIN wtrust THEN wtrust[about] ELSE WotTrust_new} :
             \E ft \in {get_peer_trust(s.key[1])} :
             \E u \in {update(w, ft, w.trust, ft, s.trust)} :
                /\ wtrust' = Put(wtrust, about, IF u.upd THEN u.w ELSE w)
                /\ wstack' = (IF u.pro THEN SignsBy(about) ELSE <<>>) \o Tail(wstack)
  /\ UNCHANGED <<wconf, wpeers, wprom, wsigns, worder, wops, wgot>>

Call == wstack = <<>> /\ wops < wconf.ops /\ wops' = wops + 1 /\ UNCHANGED wconf

(* add_val of a peer, of a signature and of a list of promoted signatures. *)
AddPeer(p, valid) ==
  /\ Call
  /\ wpeers' = IF valid THEN wpeers \cup {p} ELSE wpeers
  /\ UNCHANGED <<wprom, wsigns, wtrust, wstack, worder, wgot>>

(* The order of the map may change with a signature that is added. *)
AddSign(k, trust, tag, valid) ==
  /\ Call
  /\ IF k[1] \in wpeers /\ valid /\ ~(k \in DOMAIN wsigns /\ wsigns[k].tag > tag)
     THEN /\ wsigns' = Put(wsigns, k, [trust |-> trust, tag |-> tag])
          /\ wprom' = Put(wprom, k[2], IF k[2] \in DOMAIN wprom THEN add_sign(wprom[k[2]], k)
                                       ELSE [signby |-> <<k>>, maxsig |-> wconf.promsize])
          /\ wstack' = <<[key |-> k, trust |-> trust]>> /\ worder' \in wconf.orders
     ELSE UNCHANGED <<wsigns, wprom, wstack, worder>>
  /\ UNCHANGED <<wpeers, wtrust, wgot>>

(* merge gives nothing for two lists about one peer: the new list replaces   *)
(* the one there was, as it came.                                            *)
AddP2S(p, r) ==
  /\ Call
  /\ wprom' = Put(wprom, p, r) /\ wgot' = Put(wgot, p, r)
  /\ UNCHANGED <<wpeers, wsigns, wtrust, wstack, worder>>

RemovePeer(p) ==
  /\ Call
  /\ wpeers' = wpeers \ {p} /\ wprom' = Del(wprom, p) /\ wgot' = Del(wgot, p)
  /\ UNCHANGED <<wsigns, wtrust, wstack, worder>>

(* The trust is worked out again, with no cascade. *)
RemoveSign(k) ==
  /\ Call
  /\ wprom' = IF k \in DOMAIN wsigns /\ k[2] \in DOMAIN wprom
              THEN [wprom EXCEPT ![k[2]] = remove_sign(@, k)] ELSE wprom
  /\ wsigns' = Del(wsigns, k)
  /\ IF k[2] \in DOMAIN wtrust
     THEN LET w == wtrust[k[2]]  ft == get_peer_trust(k[1])
              u == update(w, ft, w.trust, ft, WMax)
          IN wtrust' = IF u.upd THEN [wtrust EXCEPT ![k[2]] = u.w] ELSE wtrust
     ELSE UNCHANGED wtrust
  /\ UNCHANGED <<wpeers, wstack, worder, wgot>>

WNext ==
  \/ update_trust
  \/ \E p \in wconf.peers : RemovePeer(p) \/ \E valid \in BOOLEAN : AddPeer(p, valid)
  \/ \E p \in WPeer, r \in wconf.lists : AddP2S(p, r)
  \/ \E k \in wconf.removed : RemoveSign(k)
  \/ \E s \in wconf.signs, valid \in BOOLEAN : AddSign(s.key, s.trust, s.tag, valid)

WSpec == WInit /\ [][WNext]_wvars /\ WF_wvars(update_trust)

-----------------------------------------------------------------------------
WTypeOK ==
  /\ wpeers \subseteq WPeer
  /\ \A p \in DOMAIN wprom : p \in WPeer /\ Range(wprom[p].signby) \subseteq WPeer \X WPeer
  /\ \A k \in DOMAIN wsigns : wsigns[k].trust \in 0..WMax /\ wsigns[k].tag \in Nat
  /\ \A p \in DOMAIN wtrust :
       wtrust[p].trust \in Levels \cup {WMax} /\ wtrust[p].calcmap \in [Pairs -> Nat]

(* The list received for a peer, or the empty one of this store. *)
Received(p) == IF p \in DOMAIN wgot THEN wgot[p] ELSE [signby |-> <<>>, maxsig |-> wconf.promsize]

(* What is promoted about a peer can be asked for: it is a signature about  *)
(* that peer, still in the store and listed once, or else it came with the  *)
(* list received for the peer, which add_val stores without a look at what  *)
(* is in it.  There are no more of them than promsize or, with a list       *)
(* received, than its own bound or length.                                  *)
Promoted ==
  \A p \in DOMAIN wprom :
    LET s == wprom[p].signby
    IN /\ Len(s) <= Received(p).maxsig \/ Len(s) <= Len(Received(p).signby)
       /\ \A k \in Range(s) \ Range(Received(p).signby) :
            /\ k \in DOMAIN wsigns /\ k[2] = p
            /\ \A i, j \in DOMAIN s : s[i] = k /\ s[j] = k => i = j

(* The cascade of update_trust converges. *)
Converges == []<>(wstack = <<>>)
=============================================================================
