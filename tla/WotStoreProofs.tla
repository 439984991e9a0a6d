--------------------------- MODULE WotStoreProofs ---------------------------
(***************************************************************************)
(* Proofs about WotStore, for any peers, trust rules and configurations.   *)
(***************************************************************************)
EXTENDS WotStore, WellFoundedInduction, TLAPS

Key == WPeer \X WPeer
List == [signby : Seq(Key), maxsig : Nat]

(* At least one signature is promoted, and there is a list of rules; the     *)
(* signatures and the lists received are any.                                *)
WotStoreConstants ==
  /\ WMe \in WPeer /\ WMax \in Nat
  /\ \A c \in WConfs : /\ c.promsize \in Nat \ {0} /\ c.known \subseteq WPeer
                       /\ c.rules \in Seq(Nat) /\ c.peers \subseteq WPeer
                       /\ c.signs \subseteq [key : Key, trust : 0..WMax, tag : Nat]
                       /\ c.removed \subseteq Key /\ c.lists \subseteq List

-----------------------------------------------------------------------------
(* The least of a set of numbers is one of them. *)
LEMMA MinOf ==
  ASSUME NEW T, T \subseteq Nat, T # {}
  PROVE  Min(T) \in T /\ \A y \in T : Min(T) <= y
  <1>1. PICK R : R = OpToRel(<, Nat)
    BY Zenon
  <1>2. IsWellFoundedOn(R, Nat)
    BY <1>1, NatLessThanWellFounded, Zenon
  <1>3. PICK x \in T : \A y \in T : ~(<<y, x>> \in R)
    BY <1>2, WFMin, Zenon
  <1>4. \A u, v \in Nat : v < u => <<v, u>> \in R
    BY <1>1 DEF OpToRel
  <1>5. \A y \in T : ~(y < x)
    BY <1>3, <1>4, Zenon
  <1>6. \A y \in T : x <= y
    BY <1>3, <1>5
  <1> QED
    BY <1>3, <1>6, Zenon DEF Min

(* A sequence has an element once at most. *)
Once(s, k) == \A i, j \in DOMAIN s : s[i] = k /\ s[j] = k => i = j

(* A list that gets one more signature at its front stays a list, and grows  *)
(* up to its bound only.                                                     *)
LEMMA AddSignFacts ==
  ASSUME NEW r \in List, NEW k \in Key
  PROVE  /\ add_sign(r, k) \in List /\ add_sign(r, k).maxsig = r.maxsig
         /\ Range(add_sign(r, k).signby) \subseteq Range(r.signby) \cup {k}
         /\ \/ Len(add_sign(r, k).signby) <= r.maxsig
            \/ Len(add_sign(r, k).signby) <= Len(r.signby)
         /\ \A l : Once(r.signby, l) => Once(add_sign(r, k).signby, l)
  <1> DEFINE o == r.signby
  <1>0. o \in Seq(Key) /\ r.maxsig \in Nat /\ r = [signby |-> o, maxsig |-> r.maxsig]
    BY DEF List
  <1>1. CASE k \in Range(o)
    BY <1>0, <1>1 DEF add_sign
  <1>2. CASE k \notin Range(o)
    <2>1. PICK s : s = <<k>> \o o
      BY Zenon
    <2>2. PICK t : t = IF Len(s) > r.maxsig THEN SubSeq(s, 1, Len(s) - 1) ELSE s
      BY Zenon
    <2>3. add_sign(r, k) = [r EXCEPT !.signby = t]
      BY <1>2, <2>1, <2>2, Zenon DEF add_sign
    <2> HIDE DEF o
    <2>4. /\ s \in Seq(Key) /\ Len(s) = Len(o) + 1 /\ s[1] = k
          /\ \A i \in 2..Len(s) : s[i] = o[i - 1] /\ i - 1 \in DOMAIN o
      BY <1>0, <2>1
    <2>5. PICK m : m = IF Len(s) > r.maxsig THEN Len(s) - 1 ELSE Len(s)
      OBVIOUS
    <2>6. m \in Nat /\ m <= Len(s) /\ (m <= r.maxsig \/ m <= Len(o))
      BY <1>0, <2>4, <2>5
    <2>7. /\ t \in Seq(Key) /\ Len(t) = m /\ DOMAIN t = 1..m
          /\ \A i \in 1..m : t[i] = s[i]
      BY <1>0, <2>2, <2>4, <2>5, <2>6
    <2>8. ASSUME NEW l, Once(o, l), NEW i \in 1..m, NEW j \in 1..m, t[i] = l, t[j] = l PROVE i = j
      <3>1. \A h \in 2..m : s[h] # k
        BY <1>2, <2>4, <2>6 DEF Range
      <3>2. CASE i = 1 \/ j = 1
        BY <2>4, <2>6, <2>7, <2>8, <3>1, <3>2
      <3>3. CASE i \in 2..m /\ j \in 2..m
        BY <2>4, <2>6, <2>7, <2>8, <3>3 DEF Once
      <3> QED
        BY <2>6, <3>2, <3>3
    <2>9. \A l : Once(o, l) => Once(t, l)
      BY <2>7, <2>8 DEF Once
    <2>10. Range(t) \subseteq Range(o) \cup {k}
      <3> SUFFICES ASSUME NEW i \in 1..m PROVE t[i] \in Range(o) \cup {k}
        BY <2>7 DEF Range
      <3>1. CASE i = 1
        BY <2>4, <2>7, <3>1
      <3>2. CASE i \in 2..m
        BY <2>4, <2>6, <2>7, <3>2 DEF Range
      <3> QED
        BY <2>6, <3>1, <3>2
    <2>11. add_sign(r, k) = [signby |-> t, maxsig |-> r.maxsig]
      BY <1>0, <2>3
    <2> QED
      BY <1>0, <2>6, <2>7, <2>9, <2>10, <2>11 DEF List, o
  <1> QED
    BY <1>1, <1>2

(* A sequence without one of its places. *)
LEMMA CutFacts ==
  ASSUME NEW o \in Seq(Key), NEW x \in 1..Len(o)
  PROVE  LET t == SubSeq(o, 1, x - 1) \o SubSeq(o, x + 1, Len(o))
         IN /\ t \in Seq(Key) /\ Len(t) <= Len(o) /\ Range(t) \subseteq Range(o)
            /\ \A l : Once(o, l) => Once(t, l)
            /\ Once(o, o[x]) => o[x] \notin Range(t)
  <1>1. PICK a, b : a = SubSeq(o, 1, x - 1) /\ b = SubSeq(o, x + 1, Len(o))
    BY Zenon
  <1>2. /\ a \in Seq(Key) /\ Len(a) = x - 1 /\ \A i \in 1..(x - 1) : a[i] = o[i]
        /\ b \in Seq(Key) /\ Len(b) = Len(o) - x
        /\ \A i \in 1..(Len(o) - x) : b[i] = o[x + i]
    BY <1>1
  <1>3. PICK t : t = a \o b
    BY Zenon
  <1>4. t \in Seq(Key) /\ Len(t) = Len(o) - 1 /\ DOMAIN t = 1..(Len(o) - 1)
    <2>1. t \in Seq(Key) /\ Len(t) = Len(a) + Len(b)
      <3>1. a \in Seq(Key) /\ b \in Seq(Key)
        BY <1>2
      <3> QED
        BY <1>3, <3>1
    <2>2. Len(a) + Len(b) = Len(o) - 1 /\ Len(o) \in Nat
      BY <1>2
    <2> QED
      BY <2>1, <2>2
  <1>5. \A i \in 1..(x - 1) : t[i] = o[i]
    BY <1>2, <1>3
  <1>6. \A i \in x..(Len(o) - 1) : t[i] = o[i + 1]
    <2> SUFFICES ASSUME NEW i \in x..(Len(o) - 1) PROVE t[i] = o[i + 1]
      OBVIOUS
    <2>1. i - (x - 1) \in 1..(Len(o) - x) /\ x + (i - (x - 1)) = i + 1
      OBVIOUS
    <2>2. t[i] = b[i - (x - 1)]
      BY <1>2, <1>3, <2>1
    <2> QED
      BY <1>2, <2>1, <2>2
  <1>7. DOMAIN o = 1..Len(o) /\ Len(o) \in Nat
    OBVIOUS
  <1>8. PICK h : h = [i \in 1..(Len(o) - 1) |-> IF i < x THEN i ELSE i + 1]
    BY Zenon
  <1>9. /\ \A i \in 1..(Len(o) - 1) : h[i] \in 1..Len(o) /\ h[i] # x /\ t[i] = o[h[i]]
        /\ \A i, j \in 1..(Len(o) - 1) : h[i] = h[j] => i = j
    BY <1>5, <1>6, <1>7, <1>8
  <1>10. ASSUME NEW l, Once(o, l) PROVE Once(t, l)
    <2> SUFFICES ASSUME NEW i \in 1..(Len(o) - 1), NEW j \in 1..(Len(o) - 1), t[i] = l, t[j] = l PROVE i = j
      BY <1>4 DEF Once
    <2>1. h[i] \in DOMAIN o /\ h[j] \in DOMAIN o /\ o[h[i]] = l /\ o[h[j]] = l
      BY <1>7, <1>9
    <2>2. h[i] = h[j]
      BY <1>10, <2>1, Zenon DEF Once
    <2> QED
      BY <1>9, <2>2
  <1>11. Range(t) \subseteq Range(o)
    <2> SUFFICES ASSUME NEW i \in 1..(Len(o) - 1) PROVE t[i] \in Range(o)
      BY <1>4 DEF Range
    <2> QED
      BY <1>7, <1>9 DEF Range
  <1>12. ASSUME Once(o, o[x]), NEW i \in 1..(Len(o) - 1) PROVE t[i] # o[x]
    <2>1. h[i] \in DOMAIN o /\ x \in DOMAIN o /\ h[i] # x /\ t[i] = o[h[i]]
      BY <1>7, <1>9
    <2> QED
      BY <1>12, <2>1, Zenon DEF Once
  <1>13. Len(t) <= Len(o) /\ (Once(o, o[x]) => o[x] \notin Range(t))
    BY <1>4, <1>7, <1>12 DEF Range
  <1> QED
    BY <1>1, <1>3, <1>4, <1>10, <1>11, <1>13, Zenon

(* A list that a signature is removed from stays a list, and no longer has *)
(* the signature if it had it once.                                        *)
LEMMA RemoveSignFacts ==
  ASSUME NEW r \in List, NEW k
  PROVE  /\ remove_sign(r, k) \in List /\ remove_sign(r, k).maxsig = r.maxsig
         /\ Range(remove_sign(r, k).signby) \subseteq Range(r.signby)
         /\ Len(remove_sign(r, k).signby) <= Len(r.signby)
         /\ \A l : Once(r.signby, l) => Once(remove_sign(r, k).signby, l)
         /\ Once(r.signby, k) => k \notin Range(remove_sign(r, k).signby)
  <1> DEFINE o == r.signby
  <1>0. o \in Seq(Key) /\ Len(o) \in Nat /\ r.maxsig \in Nat /\ r = [signby |-> o, maxsig |-> r.maxsig]
    BY DEF List
  <1>1. CASE k \notin Range(o)
    BY <1>0, <1>1 DEF remove_sign
  <1>2. CASE k \in Range(o)
    <2>1. PICK I : I = {i \in DOMAIN o : o[i] = k}
      BY Zenon
    <2>2. PICK x : x = Min(I)
      OBVIOUS
    <2>3. PICK t : t = SubSeq(o, 1, x - 1) \o SubSeq(o, x + 1, Len(o))
      BY Zenon
    <2>4. remove_sign(r, k) = [r EXCEPT !.signby = t]
      BY <1>2, <2>1, <2>2, <2>3, Zenon DEF remove_sign
    <2> HIDE DEF o
    <2>5. remove_sign(r, k) = [signby |-> t, maxsig |-> r.maxsig]
      BY <1>0, <2>4
    <2>6. I \subseteq Nat /\ I # {}
      BY <1>0, <1>2, <2>1 DEF Range
    <2>7. x \in 1..Len(o) /\ o[x] = k
      <3>1. x \in DOMAIN o /\ o[x] = k
        BY <2>1, <2>2, <2>6, MinOf, Zenon
      <3> QED
        BY <1>0, <3>1
    <2>8. /\ t \in Seq(Key) /\ Len(t) <= Len(o) /\ Range(t) \subseteq Range(o)
          /\ \A l : Once(o, l) => Once(t, l)
          /\ Once(o, k) => k \notin Range(t)
      BY <1>0, <2>3, <2>7, CutFacts, Zenon
    <2> QED
      BY <1>0, <2>5, <2>8 DEF List, o
  <1> QED
    BY <1>1, <1>2

-----------------------------------------------------------------------------
(* The trust of a peer: a level of the rules or none, and counts that are  *)
(* never below zero.                                                       *)
Trust(w) == w.trust \in Levels \cup {WMax} /\ w.calcmap \in [Pairs -> Nat]

LEMMA RecountedType ==
  ASSUME NEW c \in [Pairs -> Nat], NEW old, NEW new
  PROVE  Recounted(c, old, new) \in [Pairs -> Nat]
  <1>1. PICK c1 : c1 = IF old \in Pairs /\ c[old] > 0 THEN [c EXCEPT ![old] = @ - 1] ELSE c
    BY Zenon
  <1>2. c1 \in [Pairs -> Nat]
    BY <1>1
  <1>3. Recounted(c, old, new) = IF new \in Pairs THEN [c1 EXCEPT ![new] = @ + 1] ELSE c1
    BY <1>1 DEF Recounted
  <1> QED
    BY <1>2, <1>3

LEMMA LevelType ==
  ASSUME wconf.rules \in Seq(Nat), NEW c, NEW old
  PROVE  ClassicLevel(c, old) \in Levels \cup {old} /\ ExpLevel(c) \in Levels \cup {WMax}
  <1>1. Levels \subseteq Nat
    BY DEF Levels
  <1>2. ClassicLevel(c, old) \in Levels \cup {old}
    <2> DEFINE At(l) == {s \in Levels : s >= l /\ Counted(c, l, s) >= rule(l)}
               ls == {l \in Levels : At(l) /= {}}
    <2>1. ls # {} => Min(ls) \in ls
      BY <1>1, MinOf, Zenon
    <2>2. ASSUME NEW l \in ls PROVE Min(At(l)) \in Levels
      <3>1. At(l) # {} /\ At(l) \subseteq Levels
        OBVIOUS
      <3> HIDE DEF At
      <3> QED
        BY <1>1, <3>1, MinOf, Zenon
    <2>3. ClassicLevel(c, old) = IF ls = {} THEN old ELSE Min(At(Min(ls)))
      BY DEF ClassicLevel
    <2> HIDE DEF ls, At
    <2> QED
      BY <2>1, <2>2, <2>3
  <1>3. ExpLevel(c) \in Levels \cup {WMax}
    <2> DEFINE ls == {s \in Levels : \E f \in 0..s : Counted(c, f, s) >= rule(f)}
    <2>1. ls \subseteq Levels
      OBVIOUS
    <2>2. ExpLevel(c) = IF ls = {} THEN WMax ELSE Min(ls)
      BY DEF ExpLevel
    <2> HIDE DEF ls
    <2> QED
      BY <1>1, <2>1, <2>2, MinOf, Zenon
  <1> QED
    BY <1>2, <1>3

(* WotTrust::update gives a trust. *)
LEMMA UpdateType ==
  ASSUME wconf.rules \in Seq(Nat), NEW w, Trust(w), NEW fo, NEW so, NEW fn, NEW sn
  PROVE  Trust(update(w, fo, so, fn, sn).w)
  <1>1. PICK old, new : old = <<fo, Cap(fo, so)>> /\ new = <<fn, Cap(fn, sn)>>
    BY Zenon
  <1>2. PICK c : c = Recounted(w.calcmap, old, new)
    OBVIOUS
  <1>3. c \in [Pairs -> Nat]
    BY <1>2, RecountedType DEF Trust
  <1>4. PICK t : t = ClassicLevel(c, w.trust)
    OBVIOUS
  <1>5. t \in Levels \cup {WMax} /\ ExpLevel(c) \in Levels \cup {WMax}
    BY <1>4, LevelType DEF Trust
  <1>6. ClassicUpdate(w, fo, so, fn, sn).w \in
          {w, [trust |-> t, calcmap |-> c], [trust |-> w.trust, calcmap |-> c]}
    BY <1>1, <1>2, <1>4 DEF ClassicUpdate
  <1>7. ExpUpdate(w, fo, so, fn, sn).w \in {w, [trust |-> ExpLevel(c), calcmap |-> c]}
    BY <1>1, <1>2 DEF ExpUpdate
  <1>8. /\ Trust([trust |-> t, calcmap |-> c]) /\ Trust([trust |-> w.trust, calcmap |-> c])
        /\ Trust([trust |-> ExpLevel(c), calcmap |-> c])
    BY <1>3, <1>5 DEF Trust
  <1> QED
    BY <1>6, <1>7, <1>8 DEF update

-----------------------------------------------------------------------------
(* The inductive invariant: what is promoted about a peer, with the types it *)
(* is about, and the bound of its list, which is that of the list received.  *)
Rec(p, got) == IF p \in DOMAIN got THEN got[p] ELSE [signby |-> <<>>, maxsig |-> wconf.promsize]

Good(s, g, signs, p) ==
  /\ Len(s) <= g.maxsig \/ Len(s) <= Len(g.signby)
  /\ \A k \in Range(s) \ Range(g.signby) : k \in DOMAIN signs /\ k[2] = p /\ Once(s, k)

Entry(r, g, signs, p) == r \in List /\ g \in List /\ r.maxsig = g.maxsig /\ Good(r.signby, g, signs, p)

Lists(prom, got, signs) ==
  /\ DOMAIN got \subseteq DOMAIN prom
  /\ \A p \in DOMAIN prom : p \in WPeer /\ Entry(prom[p], Rec(p, got), signs, p)

Signs(signs) ==
  \A k \in DOMAIN signs : signs[k].trust \in 0..WMax /\ signs[k].tag \in Nat

WInv ==
  /\ wconf \in WConfs
  /\ wpeers \subseteq WPeer
  /\ Lists(wprom, wgot, wsigns) /\ Signs(wsigns)
  /\ \A p \in DOMAIN wtrust : Trust(wtrust[p])

LEMMA ConfOf ==
  ASSUME WotStoreConstants, wconf \in WConfs
  PROVE  /\ wconf.promsize \in Nat \ {0} /\ wconf.known \subseteq WPeer
         /\ wconf.rules \in Seq(Nat) /\ wconf.peers \subseteq WPeer
         /\ wconf.signs \subseteq [key : Key, trust : 0..WMax, tag : Nat]
         /\ wconf.removed \subseteq Key /\ wconf.lists \subseteq List
BY DEF WotStoreConstants

LEMMA WInitial == ASSUME WotStoreConstants, WInit PROVE WInv
  <1>1. wconf \in WConfs /\ wconf.rules \in Seq(Nat) /\ wpeers \subseteq WPeer
    BY ConfOf DEF WInit, WotStoreConstants
  <1>2. Trust(WotTrust_new)
    BY DEF Trust, WotTrust_new
  <1>3. Trust(update(WotTrust_new, 0, 1, 0, 0).w)
    BY <1>1, <1>2, UpdateType
  <1>4. \A p \in DOMAIN wtrust : Trust(wtrust[p])
    BY <1>3 DEF WInit
  <1>5. DOMAIN wprom = {} /\ DOMAIN wgot = {}
    BY DEF WInit
  <1>6. Signs(wsigns)
    BY DEF WInit, Signs, WotStoreConstants
  <1> QED
    BY <1>1, <1>4, <1>5, <1>6 DEF WInv, Lists

(* What does not change with the configuration. *)
LEMMA Kept ==
  ASSUME wconf' = wconf
  PROVE  /\ \A w : Trust(w)' <=> Trust(w)
         /\ \A p, got : Rec(p, got)' = Rec(p, got)
  <1>1. Levels' = Levels
    BY DEF Levels
  <1>2. Pairs' = Pairs
    BY <1>1 DEF Pairs
  <1> QED
    BY <1>1, <1>2 DEF Trust, Rec

(* The state after a step, from that of each store. *)
LEMMA After ==
  ASSUME WInv, wconf' = wconf, wpeers' \subseteq WPeer, Lists(wprom', wgot', wsigns'), Signs(wsigns'),
         \A p \in DOMAIN wtrust' : Trust(wtrust'[p])
  PROVE  WInv'
  <1>1. (\A p \in DOMAIN wtrust : Trust(wtrust[p]))'
    BY Kept
  <1>2. Lists(wprom, wgot, wsigns)'
    BY DEF Lists, Rec
  <1>3. Signs(wsigns)'
    BY DEF Signs
  <1> QED
    BY <1>1, <1>2, <1>3 DEF WInv

(* A step that leaves the signatures and the promoted ones alone. *)
LEMMA SameSigns ==
  ASSUME WInv, wconf' = wconf, UNCHANGED <<wprom, wsigns, wgot>>, wpeers' \subseteq WPeer,
         \A p \in DOMAIN wtrust' : Trust(wtrust'[p])
  PROVE  WInv'
  <1>1. Lists(wprom', wgot', wsigns') /\ Signs(wsigns')
    BY DEF WInv
  <1> QED
    BY <1>1, After

LEMMA StepUpdateTrust ==
  ASSUME WotStoreConstants, WInv, update_trust PROVE WInv'
  <1>1. wconf' = wconf /\ UNCHANGED <<wprom, wsigns, wgot>> /\ wpeers' \subseteq WPeer
    BY DEF update_trust, WInv
  <1>2. PICK s : s = Head(wstack)
    OBVIOUS
  <1>3. wconf.rules \in Seq(Nat) /\ \A p \in DOMAIN wtrust : Trust(wtrust[p])
    BY ConfOf DEF WInv
  <1>4. CASE UNCHANGED wtrust
    BY <1>1, <1>3, <1>4, SameSigns
  <1>5. CASE wtrust' # wtrust
    <2>1. \E w \in {IF s.key[2] \in DOMAIN wtrust THEN wtrust[s.key[2]] ELSE WotTrust_new} :
          \E ft \in {get_peer_trust(s.key[1])} :
          \E u \in {update(w, ft, w.trust, ft, s.trust)} :
             wtrust' = Put(wtrust, s.key[2], IF u.upd THEN u.w ELSE w)
      <3>1. ~(s.key[2] \notin DOMAIN wtrust /\ s.key[2] \notin wpeers)
        BY <1>2, <1>5 DEF update_trust
      <3> QED
        BY <1>2, <3>1, Zenon DEF update_trust
    <2>2. PICK w, ft, u :
            /\ w = IF s.key[2] \in DOMAIN wtrust THEN wtrust[s.key[2]] ELSE WotTrust_new
            /\ u = update(w, ft, w.trust, ft, s.trust)
            /\ wtrust' = Put(wtrust, s.key[2], IF u.upd THEN u.w ELSE w)
      BY <2>1
    <2>3. Trust(w)
      <3>1. Trust(WotTrust_new)
        BY DEF Trust, WotTrust_new
      <3> QED
        BY <1>3, <2>2, <3>1
    <2>4. Trust(u.w)
      BY <1>3, <2>2, <2>3, UpdateType
    <2>5. \A p \in DOMAIN wtrust' : Trust(wtrust'[p])
      <3>1. PICK v : v = IF u.upd THEN u.w ELSE w
        OBVIOUS
      <3>2. /\ DOMAIN wtrust' = DOMAIN wtrust \cup {s.key[2]} /\ wtrust'[s.key[2]] = v
            /\ \A p \in DOMAIN wtrust : p # s.key[2] => wtrust'[p] = wtrust[p]
        BY <2>2, <3>1 DEF Put
      <3>3. Trust(v)
        BY <2>3, <2>4, <3>1
      <3> QED
        BY <1>3, <3>2, <3>3
    <2> QED
      BY <1>1, <2>5, SameSigns
  <1> QED
    BY <1>4, <1>5

LEMMA StepAddPeer ==
  ASSUME WInv, NEW p \in WPeer, NEW valid, AddPeer(p, valid) PROVE WInv'
  <1>1. /\ wconf' = wconf /\ UNCHANGED <<wprom, wsigns, wtrust, wgot>>
        /\ wpeers' = IF valid THEN wpeers \cup {p} ELSE wpeers
    BY DEF AddPeer, Call
  <1>2. wpeers' \subseteq WPeer
    BY <1>1 DEF WInv
  <1>3. \A q \in DOMAIN wtrust' : Trust(wtrust'[q])
    BY <1>1 DEF WInv
  <1> QED
    BY <1>1, <1>2, <1>3, SameSigns

(* More signatures leave what was good good. *)
LEMMA GoodMore ==
  ASSUME NEW s, NEW g, NEW signs, NEW more, NEW p, Good(s, g, signs, p), DOMAIN signs \subseteq DOMAIN more
  PROVE  Good(s, g, more, p)
  BY DEF Good

LEMMA StepAddSign ==
  ASSUME WotStoreConstants, WInv, NEW k \in Key, NEW t \in 0..WMax, NEW tag \in Nat,
         NEW valid, AddSign(k, t, tag, valid)
  PROVE  WInv'
  <1>1. wconf' = wconf /\ UNCHANGED <<wpeers, wtrust, wgot>>
    BY DEF AddSign, Call
  <1>2. /\ wpeers' \subseteq WPeer /\ \A p \in DOMAIN wtrust' : Trust(wtrust'[p])
        /\ Lists(wprom, wgot, wsigns) /\ Signs(wsigns)
    BY <1>1 DEF WInv
  <1>3. wconf.promsize \in Nat \ {0} /\ k[2] \in WPeer
    BY ConfOf DEF WInv, Key
  <1>4. CASE UNCHANGED <<wsigns, wprom>>
    BY <1>1, <1>2, <1>4, SameSigns
  <1>5. CASE /\ wsigns' = Put(wsigns, k, [trust |-> t, tag |-> tag])
             /\ wprom' = Put(wprom, k[2], IF k[2] \in DOMAIN wprom THEN add_sign(wprom[k[2]], k)
                                          ELSE [signby |-> <<k>>, maxsig |-> wconf.promsize])
    <2>1. PICK r : r = IF k[2] \in DOMAIN wprom THEN add_sign(wprom[k[2]], k)
                       ELSE [signby |-> <<k>>, maxsig |-> wconf.promsize]
      BY Zenon
    <2>2. /\ DOMAIN wprom' = DOMAIN wprom \cup {k[2]} /\ wprom'[k[2]] = r
          /\ \A p \in DOMAIN wprom : p # k[2] => wprom'[p] = wprom[p]
      BY <1>5, <2>1 DEF Put
    <2>3. /\ DOMAIN wsigns' = DOMAIN wsigns \cup {k} /\ wsigns'[k] = [trust |-> t, tag |-> tag]
          /\ \A l \in DOMAIN wsigns : l # k => wsigns'[l] = wsigns[l]
      BY <1>5 DEF Put
    <2>4. Signs(wsigns')
      BY <1>2, <2>3 DEF Signs
    <2>5. PICK g : g = Rec(k[2], wgot)
      OBVIOUS
    <2>6. Entry(r, g, wsigns', k[2])
      <3>1. CASE k[2] \in DOMAIN wprom
        <4>1. PICK w : w = wprom[k[2]]
          OBVIOUS
        <4>2. /\ w \in List /\ g \in List /\ w.maxsig = g.maxsig
              /\ Good(w.signby, g, wsigns, k[2])
          BY <1>2, <2>5, <3>1, <4>1 DEF Lists, Entry
        <4>3. r = add_sign(w, k)
          BY <2>1, <3>1, <4>1
        <4>4. /\ r \in List /\ r.maxsig = w.maxsig /\ Range(r.signby) \subseteq Range(w.signby) \cup {k}
              /\ Len(r.signby) <= w.maxsig \/ Len(r.signby) <= Len(w.signby)
              /\ \A l : Once(w.signby, l) => Once(r.signby, l)
          BY <4>2, <4>3, AddSignFacts, Zenon
        <4>5. Len(r.signby) <= g.maxsig \/ Len(r.signby) <= Len(g.signby)
          <5>1. /\ Len(r.signby) \in Nat /\ Len(w.signby) \in Nat /\ Len(g.signby) \in Nat
                /\ g.maxsig \in Nat
            BY <4>2, <4>4 DEF List
          <5> QED
            BY <4>2, <4>4, <5>1 DEF Good
        <4>6. ASSUME NEW l \in Range(r.signby) \ Range(g.signby)
              PROVE  l \in DOMAIN wsigns' /\ l[2] = k[2] /\ Once(r.signby, l)
          <5>1. CASE l \in Range(w.signby)
            BY <2>3, <4>2, <4>4, <4>6, <5>1 DEF Good
          <5>2. CASE l \notin Range(w.signby)
            <6>1. Once(w.signby, l)
              BY <5>2 DEF Once, Range
            <6> QED
              BY <2>3, <4>4, <4>6, <5>2, <6>1
          <5> QED
            BY <5>1, <5>2
        <4> QED
          BY <4>2, <4>4, <4>5, <4>6 DEF Entry, Good
      <3>2. CASE k[2] \notin DOMAIN wprom
        <4>1. /\ r = [signby |-> <<k>>, maxsig |-> wconf.promsize]
              /\ g = [signby |-> <<>>, maxsig |-> wconf.promsize]
          BY <1>2, <2>1, <2>5, <3>2 DEF Lists, Rec
        <4>2. r \in List /\ g \in List /\ r.maxsig = g.maxsig /\ Len(r.signby) <= g.maxsig
          BY <1>3, <4>1 DEF List
        <4>3. Range(r.signby) = {k} /\ Once(r.signby, k)
          BY <4>1 DEF Range, Once
        <4> QED
          BY <2>3, <4>2, <4>3 DEF Entry, Good
      <3> QED
        BY <3>1, <3>2
    <2>7. ASSUME NEW p \in DOMAIN wprom' PROVE p \in WPeer /\ Entry(wprom'[p], Rec(p, wgot), wsigns', p)
      <3>1. CASE p = k[2]
        BY <1>3, <2>2, <2>5, <2>6, <3>1
      <3>2. CASE p # k[2]
        <4>1. p \in DOMAIN wprom /\ wprom'[p] = wprom[p]
          BY <2>2, <2>7, <3>2
        <4>2. p \in WPeer /\ Entry(wprom[p], Rec(p, wgot), wsigns, p)
          BY <1>2, <4>1 DEF Lists
        <4> QED
          BY <2>3, <4>1, <4>2, GoodMore DEF Entry
      <3> QED
        BY <3>1, <3>2
    <2>8. Lists(wprom', wgot', wsigns')
      BY <1>1, <1>2, <2>2, <2>7 DEF Lists
    <2> QED
      BY <1>1, <1>2, <2>4, <2>8, After
  <1> QED
    BY <1>4, <1>5, Zenon DEF AddSign

LEMMA StepAddP2S ==
  ASSUME WInv, NEW p \in WPeer, NEW r \in List, AddP2S(p, r) PROVE WInv'
  <1>1. /\ wconf' = wconf /\ UNCHANGED <<wpeers, wtrust, wsigns>>
        /\ wprom' = Put(wprom, p, r) /\ wgot' = Put(wgot, p, r)
    BY DEF AddP2S, Call
  <1>2. /\ wpeers' \subseteq WPeer /\ \A q \in DOMAIN wtrust' : Trust(wtrust'[q])
        /\ Lists(wprom, wgot, wsigns) /\ Signs(wsigns')
    BY <1>1 DEF WInv
  <1>3. /\ DOMAIN wprom' = DOMAIN wprom \cup {p} /\ wprom'[p] = r
        /\ \A q \in DOMAIN wprom : q # p => wprom'[q] = wprom[q]
        /\ DOMAIN wgot' = DOMAIN wgot \cup {p} /\ wgot'[p] = r
        /\ \A q \in DOMAIN wgot : q # p => wgot'[q] = wgot[q]
    BY <1>1 DEF Put
  <1>4. Rec(p, wgot') = r /\ \A q : q # p => Rec(q, wgot') = Rec(q, wgot)
    BY <1>3 DEF Rec
  <1>5. Entry(r, r, wsigns, p)
    BY DEF Entry, Good, List
  <1>6. Lists(wprom', wgot', wsigns')
    BY <1>1, <1>2, <1>3, <1>4, <1>5 DEF Lists
  <1> QED
    BY <1>1, <1>2, <1>6, After

LEMMA StepRemovePeer ==
  ASSUME WInv, NEW p \in WPeer, RemovePeer(p) PROVE WInv'
  <1>1. /\ wconf' = wconf /\ UNCHANGED <<wsigns, wtrust>>
        /\ wpeers' = wpeers \ {p} /\ wprom' = Del(wprom, p) /\ wgot' = Del(wgot, p)
    BY DEF RemovePeer, Call
  <1>2. /\ wpeers' \subseteq WPeer /\ \A q \in DOMAIN wtrust' : Trust(wtrust'[q])
        /\ Lists(wprom, wgot, wsigns) /\ Signs(wsigns')
    BY <1>1 DEF WInv
  <1>3. /\ DOMAIN wprom' = DOMAIN wprom \ {p} /\ \A q \in DOMAIN wprom' : wprom'[q] = wprom[q]
        /\ DOMAIN wgot' = DOMAIN wgot \ {p} /\ \A q \in DOMAIN wgot' : wgot'[q] = wgot[q]
    BY <1>1 DEF Del
  <1>4. \A q : q # p => Rec(q, wgot') = Rec(q, wgot)
    BY <1>3 DEF Rec
  <1>5. Lists(wprom', wgot', wsigns')
    BY <1>1, <1>2, <1>3, <1>4 DEF Lists
  <1> QED
    BY <1>1, <1>2, <1>5, After

LEMMA StepRemoveSign ==
  ASSUME WotStoreConstants, WInv, NEW k \in Key, RemoveSign(k) PROVE WInv'
  <1>1. /\ wconf' = wconf /\ wpeers' = wpeers /\ wgot' = wgot /\ wsigns' = Del(wsigns, k)
        /\ wprom' = IF k \in DOMAIN wsigns /\ k[2] \in DOMAIN wprom
                    THEN [wprom EXCEPT ![k[2]] = remove_sign(@, k)] ELSE wprom
    BY DEF RemoveSign, Call
  <1>2. /\ wpeers' \subseteq WPeer /\ Lists(wprom, wgot, wsigns) /\ Signs(wsigns)
        /\ wconf.rules \in Seq(Nat) /\ \A p \in DOMAIN wtrust : Trust(wtrust[p])
    BY <1>1, ConfOf DEF WInv
  <1>3. \A p \in DOMAIN wtrust' : Trust(wtrust'[p])
    <2>1. CASE wtrust' = wtrust
      BY <1>2, <2>1
    <2>2. CASE k[2] \in DOMAIN wtrust /\ wtrust' # wtrust
      <3>1. PICK w, ft, u :
              /\ w = wtrust[k[2]] /\ u = update(w, ft, w.trust, ft, WMax)
              /\ wtrust' = [wtrust EXCEPT ![k[2]] = u.w]
        BY <2>2 DEF RemoveSign
      <3>2. Trust(u.w)
        BY <1>2, <2>2, <3>1, UpdateType
      <3> QED
        BY <1>2, <3>1, <3>2
    <2> QED
      BY <2>1, <2>2 DEF RemoveSign
  <1>4. /\ DOMAIN wsigns' = DOMAIN wsigns \ {k}
        /\ \A l \in DOMAIN wsigns' : wsigns'[l] = wsigns[l]
    BY <1>1 DEF Del
  <1>5. Signs(wsigns')
    BY <1>2, <1>4 DEF Signs
  <1>6. /\ DOMAIN wprom' = DOMAIN wprom
        /\ \A p \in DOMAIN wprom : wprom'[p] = IF k \in DOMAIN wsigns /\ p = k[2]
                                               THEN remove_sign(wprom[p], k) ELSE wprom[p]
    BY <1>1
  <1>7. ASSUME NEW p \in DOMAIN wprom PROVE p \in WPeer /\ Entry(wprom'[p], Rec(p, wgot), wsigns', p)
    <2>1. PICK w, g : w = wprom[p] /\ g = Rec(p, wgot)
      OBVIOUS
    <2>2. /\ p \in WPeer /\ w \in List /\ g \in List /\ w.maxsig = g.maxsig
          /\ Len(w.signby) <= g.maxsig \/ Len(w.signby) <= Len(g.signby)
          /\ \A l \in Range(w.signby) \ Range(g.signby) :
               l \in DOMAIN wsigns /\ l[2] = p /\ Once(w.signby, l)
      BY <1>2, <1>7, <2>1 DEF Lists, Entry, Good
    <2>3. CASE k \in DOMAIN wsigns /\ p = k[2]
      <3>1. PICK r : r = remove_sign(w, k)
        OBVIOUS
      <3>2. /\ r \in List /\ r.maxsig = w.maxsig /\ Range(r.signby) \subseteq Range(w.signby)
            /\ Len(r.signby) <= Len(w.signby)
            /\ \A l : Once(w.signby, l) => Once(r.signby, l)
            /\ Once(w.signby, k) => k \notin Range(r.signby)
        BY <2>2, <3>1, RemoveSignFacts, Zenon
      <3>3. Len(r.signby) <= g.maxsig \/ Len(r.signby) <= Len(g.signby)
        <4>1. /\ Len(r.signby) \in Nat /\ Len(w.signby) \in Nat /\ Len(g.signby) \in Nat
              /\ g.maxsig \in Nat
          BY <2>2, <3>2 DEF List
        <4> QED
          BY <2>2, <3>2, <4>1
      <3>4. \A l \in Range(r.signby) \ Range(g.signby) :
              l \in DOMAIN wsigns' /\ l[2] = p /\ Once(r.signby, l)
        BY <1>4, <2>2, <3>2
      <3>5. wprom'[p] = r
        BY <1>6, <1>7, <2>1, <2>3, <3>1
      <3> QED
        BY <2>1, <2>2, <3>2, <3>3, <3>4, <3>5 DEF Entry, Good
    <2>4. CASE ~(k \in DOMAIN wsigns /\ p = k[2])
      <3>1. wprom'[p] = w
        BY <1>6, <1>7, <2>1, <2>4
      <3>2. \A l \in Range(w.signby) \ Range(g.signby) :
              l \in DOMAIN wsigns' /\ l[2] = p /\ Once(w.signby, l)
        BY <1>4, <2>2, <2>4
      <3> QED
        BY <2>1, <2>2, <3>1, <3>2 DEF Entry, Good
    <2> QED
      BY <2>3, <2>4
  <1>8. Lists(wprom', wgot', wsigns')
    BY <1>1, <1>2, <1>6, <1>7 DEF Lists
  <1> QED
    BY <1>1, <1>2, <1>3, <1>5, <1>8, After

LEMMA WStep == ASSUME WotStoreConstants, WInv, [WNext]_wvars PROVE WInv'
  <1>0. /\ wconf.peers \subseteq WPeer /\ wconf.removed \subseteq Key /\ wconf.lists \subseteq List
        /\ wconf.signs \subseteq [key : Key, trust : 0..WMax, tag : Nat]
    BY ConfOf DEF WInv
  <1>1. CASE update_trust
    BY <1>1, StepUpdateTrust
  <1>2. ASSUME NEW p \in wconf.peers, RemovePeer(p) PROVE WInv'
    BY <1>0, <1>2, StepRemovePeer
  <1>3. ASSUME NEW p \in wconf.peers, NEW valid \in BOOLEAN, AddPeer(p, valid) PROVE WInv'
    BY <1>0, <1>3, StepAddPeer
  <1>4. ASSUME NEW k \in wconf.removed, RemoveSign(k) PROVE WInv'
    BY <1>0, <1>4, StepRemoveSign
  <1>5. ASSUME NEW p \in WPeer, NEW r \in wconf.lists, AddP2S(p, r) PROVE WInv'
    BY <1>0, <1>5, StepAddP2S
  <1>6. ASSUME NEW s \in wconf.signs, NEW valid \in BOOLEAN, AddSign(s.key, s.trust, s.tag, valid)
        PROVE  WInv'
    <2>1. s.key \in Key /\ s.trust \in 0..WMax /\ s.tag \in Nat
      BY <1>0
    <2> QED
      BY <1>6, <2>1, StepAddSign
  <1>7. CASE UNCHANGED wvars
    <2>1. /\ wconf' = wconf /\ UNCHANGED <<wprom, wsigns, wgot>> /\ wpeers' \subseteq WPeer
          /\ \A p \in DOMAIN wtrust' : Trust(wtrust'[p])
      BY <1>7 DEF wvars, WInv
    <2> QED
      BY <2>1, SameSigns
  <1> QED
    BY <1>1, <1>2, <1>3, <1>4, <1>5, <1>6, <1>7, Zenon DEF WNext

(* The state of the web of trust is well formed: whatever signatures come, *)
(* are replaced or removed, update gives every peer a level of the rules   *)
(* or no trust, and no count of signatures goes below zero.                *)
THEOREM WotStoreTypes == ASSUME WotStoreConstants PROVE WSpec => []WTypeOK
  <1>1. WInv => WTypeOK
    <2>1. ASSUME NEW r \in List PROVE Range(r.signby) \subseteq Key
      BY DEF Range, List
    <2> QED
      BY <2>1 DEF WInv, WTypeOK, Lists, Entry, Signs, Trust, Key
  <1> QED
    BY <1>1, WInitial, WStep, PTL DEF WSpec

(* What is promoted about a peer is a signature about that peer, still in  *)
(* the store and listed once, or came with the last list received for the  *)
(* peer, through any additions, replacements and removals of WotStore; and *)
(* there are no more of them than promsize or, with a list received, than  *)
(* its bound or its length.                                                *)
THEOREM WotStorePromotes == ASSUME WotStoreConstants PROVE WSpec => []Promoted
  <1>1. WInv => Promoted
    <2>1. \A p : Received(p) = Rec(p, wgot)
      BY DEF Received, Rec
    <2> QED
      BY <2>1 DEF WInv, Lists, Entry, Good, Once, Promoted
  <1> QED
    BY <1>1, WInitial, WStep, PTL DEF WSpec
=============================================================================
