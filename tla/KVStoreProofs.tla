---------------------------- MODULE KVStoreProofs ----------------------------
(***************************************************************************)
(* Proofs about KVStore for any nodes, keys and configurations: a reply    *)
(* meets the query it is about, whose id is never given twice.             *)
(***************************************************************************)
EXTENDS KVStore, TLAPS

-----------------------------------------------------------------------------
(* Bags. *)

LEMMA BagUnionDomain == \A a, b : BagToSet(a (+) b) = BagToSet(a) \cup BagToSet(b)
  BY DEF BagToSet, (+)

LEMMA TakenDomain == \A m : BagToSet(Taken(m)) \subseteq BagToSet(net)
  BY DEF BagToSet, (-), Taken

LEMMA SetToBagDomain == \A S : BagToSet(SetToBag(S)) = S
  BY DEF BagToSet, SetToBag

LEMMA EmptyBagDomain == BagToSet(EmptyBag) = {}
  BY DEF BagToSet, SetToBag, EmptyBag

LEMMA GivenDomain == \A x : BagToSet(Given(x)) = BagToSet(net) \cup {x}
  BY DEF BagToSet, SetToBag, (+), Given

-----------------------------------------------------------------------------
(* The shape of messages and queries, as far as the arguments below need it. *)

QmFields == {"key", "org", "mode_info", "hop_hist", "rem_hop", "nb_forw", "nb_res"}
QueryFields == {"api", "mode_info", "with", "org", "nb_res", "vres", "nb_not_found"}

FindShape(m) ==
  /\ m.type = "Find" /\ m.to \in Node /\ m.with \in Node \cup {None} /\ m.api \in BOOLEAN
  /\ DOMAIN m.qm = QmFields /\ m.qm.org \in Node /\ m.qm.mode_info \in QueryModeMsg

ReplyShape(m) ==
  m.type \in {"Store", "NotFound"} /\ m.to \in Node /\ m.org \in Node

QueryShape(r) ==
  /\ DOMAIN r = QueryFields /\ r.org \in Node /\ r.with \in Node \cup {None} /\ r.api \in BOOLEAN
  /\ r.mode_info \in QueryModeMsg

Shape ==
  /\ conf \in Confs
  /\ DOMAIN cache = Node /\ lastid \in [Node -> Nat]
  /\ \A n \in Node : \A q \in DOMAIN cache[n] : q \in 1..lastid[n] /\ QueryShape(cache[n][q])
  /\ \A m \in BagToSet(net) : FindShape(m) \/ ReplyShape(m)

(* The id q was given by node d, to a query of o if d still has it. *)
Owned(d, q, o) ==
  /\ d \in Node /\ q \in Nat /\ q <= lastid[d]
  /\ q \in DOMAIN cache[d] => cache[d][q].org = o

(* Wherever the reply to a query goes, its id is known there. *)
Home(mi, with, o) == \A d \in fwd_dests(mi, with) : Owned(d, mi.qid, o)

MessageOwned(m) ==
  IF m.type = "Find"
  THEN /\ Home(m.qm.mode_info, m.with, m.qm.org)
       /\ m.api /\ m.qm.mode_info.mode = "Asynch" => m.qm.mode_info.to = m.to
  ELSE Owned(m.to, m.qid, m.org)

(* Every message, and every query that will be replied to, is owned. *)
OwnInv ==
  /\ Shape
  /\ \A n \in Node : \A q \in DOMAIN cache[n] :
       Home(cache[n][q].mode_info, cache[n][q].with, cache[n][q].org)
  /\ \A m \in BagToSet(net) : MessageOwned(m)

(* What every step does to the caches: ids are never given twice, and an    *)
(* entry keeps what its reply needs.                                        *)
Same(r, s) == r.org = s.org /\ r.mode_info = s.mode_info /\ r.with = s.with

Grows ==
  /\ DOMAIN cache' = Node /\ lastid' \in [Node -> Nat]
  /\ \A d \in Node : lastid[d] <= lastid'[d]
  /\ \A d \in Node : \A q \in DOMAIN cache'[d] :
       /\ q \in 1..lastid'[d] /\ QueryShape(cache'[d][q])
       /\ \/ q \in DOMAIN cache[d] /\ Same(cache'[d][q], cache[d][q])
          \/ q > lastid[d] /\ Home(cache'[d][q].mode_info, cache'[d][q].with, cache'[d][q].org)

LEMMA OwnedStays ==
  ASSUME NEW d, NEW q, NEW o, Shape, Grows, Owned(d, q, o)
  PROVE  Owned(d, q, o)'
  <1>1. q <= lastid[d] /\ lastid[d] <= lastid'[d] /\ lastid[d] \in Nat /\ lastid'[d] \in Nat
    BY DEF Shape, Grows, Owned
  <1>2. ASSUME q \in DOMAIN cache'[d] PROVE cache'[d][q].org = o
    BY <1>1, <1>2 DEF Grows, Owned, Same
  <1> QED BY <1>1, <1>2 DEF Owned

LEMMA HomeStays ==
  ASSUME NEW mi, NEW with, NEW o, Shape, Grows, Home(mi, with, o)
  PROVE  \A d \in fwd_dests(mi, with) : Owned(d, mi.qid, o)'
  BY OwnedStays DEF Home

(* A step that adds only owned messages keeps the invariant. *)
FreshOwned(m) == (FindShape(m) \/ ReplyShape(m)) /\ MessageOwned(m)'

LEMMA OwnStep ==
  ASSUME OwnInv, Grows, conf' = conf,
         \A m \in BagToSet(net') : m \in BagToSet(net) \/ FreshOwned(m)
  PROVE  OwnInv'
  <1>1. Shape'
    BY DEF OwnInv, Shape, Grows, FreshOwned
  <1>2. ASSUME NEW n \in Node, NEW q \in DOMAIN cache'[n]
        PROVE  Home(cache[n][q].mode_info, cache[n][q].with, cache[n][q].org)'
    <2>1. Home(cache'[n][q].mode_info, cache'[n][q].with, cache'[n][q].org)
      BY DEF OwnInv, Grows, Same
    <2> QED BY <2>1, HomeStays, Zenon DEF OwnInv, Home
  <1>3. ASSUME NEW m \in BagToSet(net) PROVE MessageOwned(m)'
    <2>1. CASE m.type = "Find"
      BY <2>1, HomeStays, Zenon DEF OwnInv, MessageOwned, Home
    <2>2. CASE m.type # "Find"
      BY <2>2, OwnedStays DEF OwnInv, MessageOwned
    <2> QED BY <2>1, <2>2
  <1>4. \A m \in BagToSet(net') : MessageOwned(m)'
    BY <1>3 DEF FreshOwned
  <1> QED BY <1>1, <1>2, <1>4 DEF OwnInv

(* Replies of ForwardReply go where the query has its home. *)
LEMMA ForwardReplyOwned ==
  ASSUME OwnInv, Grows, NEW n, NEW mi, NEW with, NEW o \in Node, NEW vs,
         Home(mi, with, o), NEW mess \in {Store(vs, o), NotFound(o)}
  PROVE  \A m \in BagToSet(ForwardReply(n, mi, with, mess)) : FreshOwned(m)
  <1>0. BagToSet(ForwardReply(n, mi, with, mess)) =
          {[mess EXCEPT !.to = d, !.with = n, !.qid = mi.qid] : d \in fwd_dests(mi, with)}
    BY SetToBagDomain, Zenon DEF ForwardReply
  <1> SUFFICES ASSUME NEW m \in BagToSet(ForwardReply(n, mi, with, mess)) PROVE FreshOwned(m)
    OBVIOUS
  <1> PICK d \in fwd_dests(mi, with) : m = [mess EXCEPT !.to = d, !.with = n, !.qid = mi.qid]
    BY <1>0, Zenon
  <1>1. m.type \in {"Store", "NotFound"} /\ m.to = d /\ m.qid = mi.qid /\ m.org = o
    BY DEF Store, NotFound
  <1>2. Owned(d, mi.qid, o)
    BY DEF Home
  <1>3. Owned(d, mi.qid, o)'
    BY <1>2, OwnedStays DEF OwnInv
  <1>4. d \in Node
    BY <1>2 DEF Owned
  <1>5. ReplyShape(m)
    BY <1>1, <1>4 DEF ReplyShape
  <1>6. MessageOwned(m)'
    BY <1>1, <1>3 DEF MessageOwned
  <1> QED BY <1>5, <1>6 DEF FreshOwned

(* Steps that leave the caches alone. *)
LEMMA CachesStay ==
  ASSUME OwnInv, UNCHANGED <<cache, lastid>>
  PROVE  Grows
  BY DEF OwnInv, Grows, Shape, Same

-----------------------------------------------------------------------------
(* The actions. *)

LEMMA OwnAsk ==
  ASSUME OwnInv, NEW n \in Node, Ask(n)
  PROVE  OwnInv'
  <1> PICK k \in Key : net' = Given([type |-> "Find", to |-> n, with |-> None, api |-> TRUE,
                                     qm |-> query_message(n, k)])
    BY Zenon DEF Ask
  <1> PICK m : m = [type |-> "Find", to |-> n, with |-> None, api |-> TRUE,
                    qm |-> query_message(n, k)]
    OBVIOUS
  <1>0. UNCHANGED <<conf, cache, lastid>>
    BY DEF Ask
  <1>1. Grows
    BY <1>0, CachesStay
  <1>2. conf.mode \in {"AProxy", "Asynch", "AMix"} /\ conf.mix \in Nat
    BY KVStoreAssumption DEF OwnInv, Shape
  <1>3. FindShape(m)
    BY <1>2 DEF FindShape, query_message, QmFields, QueryModeMsg
  <1>4. m.qm.mode_info.qid = 0 /\ m.qm.org = n /\ m.type = "Find" /\ m.to = n /\ m.with = None
        /\ (m.qm.mode_info.mode = "Asynch" => m.qm.mode_info.to = n)
    BY <1>2 DEF query_message
  <1>5. fwd_dests(m.qm.mode_info, m.with) \subseteq {n}
    BY <1>4 DEF fwd_dests
  <1>6. Owned(n, 0, n)
    BY DEF Owned, OwnInv, Shape
  <1>7. Owned(n, 0, n)'
    BY <1>6, <1>1, OwnedStays DEF OwnInv
  <1>8. MessageOwned(m)'
    BY <1>4, <1>5, <1>7 DEF MessageOwned, Home
  <1>9. BagToSet(net') = BagToSet(net) \cup {m}
    BY GivenDomain, Zenon
  <1> QED BY <1>0, <1>1, <1>3, <1>8, <1>9, OwnStep, Zenon DEF FreshOwned

LEMMA OwnLess ==
  ASSUME OwnInv, UNCHANGED <<conf, cache, lastid>>, BagToSet(net') \subseteq BagToSet(net)
  PROVE  OwnInv'
  BY CachesStay, OwnStep

LEMMA OwnFindEnd ==
  ASSUME OwnInv, NEW n \in Node, NEW m \in BagToSet(net), FindEnd(n, m)
  PROVE  OwnInv'
  <1> DEFINE vs == IF Has(n, m) THEN <<m.qm.key>> ELSE <<>>
             mess == reply_message(vs, m.qm.org)
  <1>0. UNCHANGED <<conf, cache, lastid>> /\ m.type = "Find"
    BY DEF FindEnd
  <1>1. \/ net' = Taken(m)
        \/ net' = Taken(m) (+) ForwardReply(n, m.qm.mode_info, m.with, mess)
    BY DEF FindEnd
  <1>2. CASE net' = Taken(m)
    BY <1>0, <1>2, TakenDomain, OwnLess
  <1>3. CASE net' = Taken(m) (+) ForwardReply(n, m.qm.mode_info, m.with, mess)
    <2>1. Grows
      BY <1>0, CachesStay
    <2>2. m.qm.org \in Node /\ Home(m.qm.mode_info, m.with, m.qm.org)
      BY <1>0 DEF OwnInv, Shape, FindShape, ReplyShape, MessageOwned
    <2>3. mess \in {Store(vs, m.qm.org), NotFound(m.qm.org)}
      BY DEF reply_message
    <2> HIDE DEF vs, mess
    <2>4. \A x \in BagToSet(ForwardReply(n, m.qm.mode_info, m.with, mess)) : FreshOwned(x)
      BY <2>1, <2>2, <2>3, ForwardReplyOwned, Zenon
    <2>5. BagToSet(net') = BagToSet(Taken(m)) \cup BagToSet(ForwardReply(n, m.qm.mode_info, m.with, mess))
      BY <1>3, BagUnionDomain
    <2> QED BY <1>0, <2>1, <2>4, <2>5, TakenDomain, OwnStep
  <1> QED BY <1>1, <1>2, <1>3

(* The mode a query is forwarded with has its home where the query is kept, *)
(* or, for an Asynch query under way, where it already was.                *)
LEMMA NextHop ==
  ASSUME NEW mi \in QueryModeMsg, NEW p \in Node, NEW q \in Nat
  PROVE  /\ new_hop(mi, p, q) \in QueryModeMsg
         /\ new_hop(mi, p, q).qid = q
         /\ mi.mode # "Asynch" => fwd_dests(new_hop(mi, p, q), p) = {p}
         /\ mi.mode = "Asynch" => fwd_dests(new_hop(mi, p, q), p) = {mi.to}
                                  /\ new_hop(mi, p, q).mode = "Asynch"
                                  /\ new_hop(mi, p, q).to = mi.to
  <1>1. CASE mi.mode # "AMix"
    <2>1. new_hop(mi, p, q) = [mi EXCEPT !.qid = q]
      BY <1>1 DEF new_hop
    <2> QED BY <2>1, <1>1, KVStoreAssumption DEF QueryModeMsg, fwd_dests
  <1>2. CASE mi.mode = "AMix" /\ mi.mix > 0
    <2>1. new_hop(mi, p, q) = [mi EXCEPT !.mix = @ - 1, !.qid = q]
      BY <1>2 DEF new_hop
    <2>2. new_hop(mi, p, q) = [mode |-> mi.mode, mix |-> mi.mix - 1, to |-> mi.to, qid |-> q]
      BY <2>1, Zenon DEF QueryModeMsg
    <2> QED BY <2>2, <1>2, KVStoreAssumption DEF QueryModeMsg, fwd_dests
  <1>3. CASE mi.mode = "AMix" /\ ~(mi.mix > 0)
    <2>1. new_hop(mi, p, q) = [mode |-> "Asynch", mix |-> 0, to |-> p, qid |-> q]
      BY <1>3 DEF new_hop
    <2> QED BY <2>1, <1>3 DEF QueryModeMsg, fwd_dests
  <1> QED BY <1>1, <1>2, <1>3

LEMMA CountedShape ==
  ASSUME NEW n, NEW m, FindShape(m)
  PROVE  /\ DOMAIN counted(n, m) = QmFields /\ counted(n, m).org = m.qm.org
         /\ counted(n, m).key = m.qm.key /\ counted(n, m).mode_info = m.qm.mode_info
  BY DEF counted, FindShape, QmFields

LEMMA NextShape ==
  ASSUME NEW qm, NEW p, NEW q, DOMAIN qm = QmFields
  PROVE  /\ DOMAIN to_next_hop(qm, p, q) = QmFields /\ to_next_hop(qm, p, q).org = qm.org
         /\ to_next_hop(qm, p, q).key = qm.key
         /\ to_next_hop(qm, p, q).mode_info = new_hop(qm.mode_info, p, q)
  BY DEF to_next_hop, QmFields

(* The Finds of ForwardFind: to connected peers, with the query as it is. *)
SentFind(x, n, qm) ==
  /\ x.type = "Find" /\ x.to \in Node /\ x.with = n /\ x.api = FALSE
  /\ DOMAIN x.qm = QmFields /\ x.qm.org = qm.org /\ x.qm.key = qm.key
  /\ x.qm.mode_info = qm.mode_info

LEMMA ForwardFindShape ==
  ASSUME NEW n, NEW qm, DOMAIN qm = QmFields, NEW dests, dests \in get_closest(n, qm)
  PROVE  \A x \in BagToSet(ForwardFind(n, qm, dests)) : SentFind(x, n, qm)
  <1> DEFINE hist == adjust_lastsent_next_hop(
                       [qm.hop_hist EXCEPT !.peers = IF conf.hop_hist = "none" THEN @ ELSE @ \o dests],
                       Len(dests))
             sent == IF qm.nb_forw > 0 THEN [qm EXCEPT !.hop_hist = hist] ELSE qm
  <1>1. BagToSet(ForwardFind(n, qm, dests)) =
          {[type |-> "Find", to |-> d, with |-> n, api |-> FALSE, qm |-> sent] : d \in Range(dests)}
    BY SetToBagDomain, Zenon DEF ForwardFind
  <1>2. Range(dests) \subseteq Node
    BY Zenon DEF Range, get_closest, Connected
  <1> HIDE DEF hist
  <1>3. DOMAIN sent = QmFields /\ sent.org = qm.org /\ sent.key = qm.key
        /\ sent.mode_info = qm.mode_info
    BY DEF QmFields
  <1> HIDE DEF sent
  <1> QED BY <1>1, <1>2, <1>3 DEF SentFind

(* What FindForward does to the caches: one new entry, or none. *)
LEMMA ForwardGrows ==
  ASSUME OwnInv, NEW n \in Node, NEW m \in BagToSet(net), FindShape(m), FindForward(n, m)
  PROVE  /\ Grows
         /\ (m.api \/ do_store_on_forward(m.qm.mode_info)) =>
               /\ lastid' = [lastid EXCEPT ![n] = lastid[n] + 1]
               /\ lastid[n] + 1 \in DOMAIN cache'[n]
               /\ cache'[n][lastid[n] + 1].org = m.qm.org
         /\ ~(m.api \/ do_store_on_forward(m.qm.mode_info)) => UNCHANGED <<cache, lastid>>
  <1> DEFINE qm == counted(n, m)
             st == m.api \/ do_store_on_forward(qm.mode_info)
             qid == IF st THEN new_id(n) ELSE qm.mode_info.qid
             next == to_next_hop(qm, n, qid)
             query == [api |-> m.api, mode_info |-> qm.mode_info, with |-> m.with, org |-> qm.org,
                       nb_res |-> next.nb_res, vres |-> kept(n, m),
                       nb_not_found |-> IF conf.reply THEN notfoundtreshold(next) ELSE 0]
  <1>1. /\ lastid' = IF st THEN [lastid EXCEPT ![n] = qid] ELSE lastid
        /\ cache' = IF st THEN [cache EXCEPT ![n] = query_add(@, qid, query)] ELSE cache
    BY DEF FindForward
  <1>2. qm.mode_info = m.qm.mode_info /\ qm.org = m.qm.org
    BY CountedShape
  <1>3. QueryShape(query) /\ query.org = m.qm.org /\ query.mode_info = m.qm.mode_info
        /\ query.with = m.with
    BY <1>2 DEF QueryShape, FindShape, QueryFields
  <1>4. Home(m.qm.mode_info, m.with, m.qm.org)
    BY DEF OwnInv, MessageOwned, FindShape
  <1>5. CASE ~st
    <2>1. UNCHANGED <<cache, lastid>>
      BY <1>1, <1>5
    <2> QED BY <2>1, <1>2, <1>5, CachesStay
  <1>6. CASE st
    <2>1. qid = lastid[n] + 1 /\ lastid[n] \in Nat /\ lastid \in [Node -> Nat] /\ DOMAIN cache = Node
      BY <1>6 DEF new_id, OwnInv, Shape
    <2> HIDE DEF qid, query, st
    <2>2. lastid' = [lastid EXCEPT ![n] = qid] /\ cache' = [cache EXCEPT ![n] = query_add(@, qid, query)]
      BY <1>1, <1>6
    <2>3. /\ \A d \in Node \ {n} : cache'[d] = cache[d] /\ lastid'[d] = lastid[d]
          /\ lastid'[n] = qid /\ cache'[n] = query_add(cache[n], qid, query)
          /\ DOMAIN cache' = Node /\ lastid' \in [Node -> Nat]
      BY <2>1, <2>2
    <2>4. /\ DOMAIN cache'[n] = DOMAIN cache[n] \cup {qid}
          /\ cache'[n][qid] = query
          /\ \A q \in DOMAIN cache[n] : q # qid => cache'[n][q] = cache[n][q]
      BY <2>3 DEF query_add
    <2>5. \A d \in Node : \A q \in DOMAIN cache[d] : q \in 1..lastid[d] /\ QueryShape(cache[d][q])
      BY DEF OwnInv, Shape
    <2>6. ASSUME NEW d \in Node, NEW q \in DOMAIN cache'[d]
          PROVE  /\ q \in 1..lastid'[d] /\ QueryShape(cache'[d][q])
                 /\ \/ q \in DOMAIN cache[d] /\ Same(cache'[d][q], cache[d][q])
                    \/ /\ q > lastid[d]
                       /\ Home(cache'[d][q].mode_info, cache'[d][q].with, cache'[d][q].org)
      <3>1. CASE d # n
        BY <3>1, <2>3, <2>5 DEF Same
      <3>2. CASE d = n /\ q = qid
        BY <3>2, <2>1, <2>3, <2>4, <1>3, <1>4
      <3>3. CASE d = n /\ q # qid
        <4>1. q \in DOMAIN cache[n] /\ cache'[n][q] = cache[n][q]
          BY <3>3, <2>4
        <4>2. q \in 1..lastid[n] /\ QueryShape(cache[n][q])
          BY <4>1, <2>5
        <4>3. q \in 1..lastid'[n]
          BY <4>2, <2>1, <2>3
        <4> QED BY <3>3, <4>1, <4>2, <4>3 DEF Same
      <3> QED BY <3>1, <3>2, <3>3
    <2>7. \A d \in Node : lastid[d] <= lastid'[d]
      BY <2>1, <2>3
    <2>8. Grows
      BY <2>3, <2>6, <2>7 DEF Grows
    <2> QED BY <2>1, <2>2, <2>4, <2>8, <1>2, <1>3, <1>6 DEF st
  <1> QED BY <1>5, <1>6

LEMMA OwnFindForward ==
  ASSUME OwnInv, NEW n \in Node, NEW m \in BagToSet(net), FindForward(n, m)
  PROVE  OwnInv'
  <1> DEFINE qm == counted(n, m)
             st == m.api \/ do_store_on_forward(qm.mode_info)
             qid == IF st THEN new_id(n) ELSE qm.mode_info.qid
             next == to_next_hop(qm, n, qid)
             own == IF sent_at_once(n, m)
                    THEN ForwardReply(n, qm.mode_info, m.with, Store(<<qm.key>>, qm.org))
                    ELSE EmptyBag
             mi == m.qm.mode_info
  <1>1. FindShape(m) /\ conf' = conf /\ m.to = n
    BY DEF OwnInv, Shape, FindForward, FindShape, ReplyShape
  <1>2. /\ qm.mode_info = mi /\ qm.org = m.qm.org /\ DOMAIN qm = QmFields
        /\ mi \in QueryModeMsg /\ m.qm.org \in Node
    BY <1>1, CountedShape DEF FindShape
  <1>3. Home(mi, m.with, m.qm.org) /\ (m.api /\ mi.mode = "Asynch" => mi.to = n)
    BY <1>1 DEF OwnInv, MessageOwned, FindShape
  <1>4. Grows
    BY <1>1, ForwardGrows
  <1> PICK nx : nx = next
    OBVIOUS
  <1>5. PICK dests \in get_closest(n, nx) :
          net' = Taken(m) (+) own (+) ForwardFind(n, nx, dests)
    BY DEF FindForward
  <1>6. \A x \in BagToSet(own) : FreshOwned(x)
    BY <1>2, <1>3, <1>4, ForwardReplyOwned, EmptyBagDomain, Zenon
  <1> PICK q : q = qid
    OBVIOUS
  <1>7. q \in Nat
    <2>1. lastid[n] \in Nat
      BY DEF OwnInv, Shape
    <2>2. mi.qid \in Nat
      BY <1>2 DEF QueryModeMsg
    <2>3. q = lastid[n] + 1 \/ q = mi.qid
      BY <1>2 DEF new_id
    <2> QED BY <2>1, <2>2, <2>3
  <1>8. /\ DOMAIN nx = QmFields /\ nx.org = m.qm.org /\ nx.mode_info = new_hop(mi, n, q)
    <2>1. nx = to_next_hop(qm, n, q)
      OBVIOUS
    <2> HIDE DEF qm, st, qid, next, own, mi
    <2> QED BY <1>2, <2>1, NextShape
  <1>9. nx.mode_info \in QueryModeMsg /\ nx.mode_info.qid = q
    <2> HIDE DEF qm, st, qid, next, own, mi
    <2> QED BY <1>2, <1>7, <1>8, NextHop
  <1>10. \A d \in fwd_dests(nx.mode_info, n) : Owned(d, q, m.qm.org)'
    <2>1. CASE m.api \/ do_store_on_forward(mi)
      <3>1. q = lastid[n] + 1
        BY <2>1, <1>2 DEF new_id
      <3>2. Owned(n, q, m.qm.org)'
        <4>1. /\ lastid' = [lastid EXCEPT ![n] = lastid[n] + 1]
              /\ lastid[n] + 1 \in DOMAIN cache'[n] /\ cache'[n][lastid[n] + 1].org = m.qm.org
          BY <2>1, <1>1, ForwardGrows
        <4>2. lastid \in [Node -> Nat]
          BY DEF OwnInv, Shape
        <4> HIDE DEF qm, st, qid, next, own, mi
        <4> QED BY <3>1, <4>1, <4>2 DEF Owned
      <3>3. fwd_dests(new_hop(mi, n, q), n) = {n}
        <4> HIDE DEF qm, st, qid, next, own, mi
        <4>1. mi.mode = "Asynch" => mi.to = n
          BY <1>3, <2>1 DEF do_store_on_forward
        <4> QED BY <4>1, <1>2, <1>7, NextHop
      <3> QED BY <3>2, <3>3, <1>8
    <2>2. CASE ~(m.api \/ do_store_on_forward(mi))
      <3>1. mi.mode = "Asynch" /\ q = mi.qid
        BY <2>2, <1>2 DEF do_store_on_forward, QueryModeMsg
      <3> HIDE DEF qm, st, qid, next, own, mi
      <3>2. fwd_dests(new_hop(mi, n, q), n) = {mi.to}
        BY <3>1, <1>2, <1>7, NextHop
      <3>3. fwd_dests(mi, m.with) = {mi.to}
        BY <3>1 DEF fwd_dests
      <3>4. fwd_dests(nx.mode_info, n) = fwd_dests(mi, m.with)
        BY <3>2, <3>3, <1>8
      <3> QED BY <3>1, <3>4, <1>3, <1>4, OwnedStays DEF Home, OwnInv
    <2> QED BY <2>1, <2>2
  <1>11. ASSUME NEW x \in BagToSet(ForwardFind(n, nx, dests)) PROVE FreshOwned(x)
    <2> HIDE DEF qm, st, qid, next, own
    <2>1. /\ x.type = "Find" /\ x.to \in Node /\ x.with = n /\ x.api = FALSE
          /\ DOMAIN x.qm = QmFields /\ x.qm.org = m.qm.org /\ x.qm.mode_info = nx.mode_info
      <3>1. SentFind(x, n, nx)
        BY <1>8, ForwardFindShape
      <3> QED BY <3>1, <1>8 DEF SentFind
    <2>2. FindShape(x)
      BY <2>1, <1>2, <1>9, Zenon DEF FindShape
    <2>3. MessageOwned(x)'
      BY <2>1, <1>9, <1>10 DEF MessageOwned, Home
    <2> QED BY <2>2, <2>3 DEF FreshOwned
  <1>12. BagToSet(net') =
           BagToSet(Taken(m)) \cup BagToSet(own) \cup BagToSet(ForwardFind(n, nx, dests))
    BY <1>5, BagUnionDomain
  <1> QED BY <1>1, <1>4, <1>6, <1>11, <1>12, TakenDomain, OwnStep

(* Reply removes a query and replies where its home is. *)
LEMMA OwnReply ==
  ASSUME OwnInv, NEW n \in Node, NEW q \in DOMAIN cache[n], NEW m \in BagToSet(net), NEW vs,
         m.org = cache[n][q].org, Reply(n, q, m, vs), UNCHANGED <<conf, lastid>>
  PROVE  OwnInv'
  <1> DEFINE query == cache[n][q]
             fw == IF vs = <<>> /\ ~conf.reply THEN EmptyBag
                   ELSE ForwardReply(n, query.mode_info, query.with, reply_message(vs, m.org))
  <1>1. cache' = [cache EXCEPT ![n] = query_remove(@, q)]
    BY DEF Reply
  <1>2. DOMAIN cache = Node /\ lastid \in [Node -> Nat]
        /\ \A d \in Node : \A i \in DOMAIN cache[d] : i \in 1..lastid[d] /\ QueryShape(cache[d][i])
    BY DEF OwnInv, Shape
  <1>3. /\ DOMAIN cache' = Node
        /\ \A d \in Node : \A i \in DOMAIN cache'[d] : i \in DOMAIN cache[d] /\ cache'[d][i] = cache[d][i]
    BY <1>1, <1>2 DEF query_remove, Restrict
  <1>4. Grows
    BY <1>2, <1>3 DEF Grows, Same
  <1>5. net' = Taken(m) \/ net' = Taken(m) (+) fw
    BY DEF Reply
  <1>6. \A x \in BagToSet(fw) : FreshOwned(x)
    <2>1. Home(query.mode_info, query.with, m.org) /\ m.org \in Node
      BY <1>2 DEF OwnInv, QueryShape
    <2>2. reply_message(vs, m.org) \in {Store(vs, m.org), NotFound(m.org)}
      BY DEF reply_message
    <2> QED BY <1>4, <2>1, <2>2, ForwardReplyOwned, EmptyBagDomain, Zenon
  <1> HIDE DEF fw
  <1>7. BagToSet(net') \subseteq BagToSet(Taken(m)) \cup BagToSet(fw)
    BY <1>5, BagUnionDomain
  <1> QED BY <1>4, <1>6, <1>7, TakenDomain, OwnStep

(* A query in the cache that keeps what its reply needs. *)
LEMMA EntryChanges ==
  ASSUME OwnInv, NEW n \in Node, NEW q \in DOMAIN cache[n], NEW r, QueryShape(r),
         Same(r, cache[n][q]), cache' = [cache EXCEPT ![n] = [cache[n] EXCEPT ![q] = r]],
         UNCHANGED lastid
  PROVE  Grows
  <1>1. DOMAIN cache = Node /\ lastid \in [Node -> Nat]
        /\ \A d \in Node : \A i \in DOMAIN cache[d] : i \in 1..lastid[d] /\ QueryShape(cache[d][i])
    BY DEF OwnInv, Shape
  <1>2. /\ DOMAIN cache' = Node
        /\ \A d \in Node \ {n} : cache'[d] = cache[d]
        /\ DOMAIN cache'[n] = DOMAIN cache[n]
        /\ cache'[n][q] = r
        /\ \A i \in DOMAIN cache[n] \ {q} : cache'[n][i] = cache[n][i]
    BY <1>1
  <1>3. ASSUME NEW d \in Node, NEW i \in DOMAIN cache'[d]
        PROVE  /\ i \in 1..lastid[d] /\ QueryShape(cache'[d][i])
               /\ i \in DOMAIN cache[d] /\ Same(cache'[d][i], cache[d][i])
    <2>1. CASE d # n
      BY <2>1, <1>1, <1>2 DEF Same
    <2>2. CASE d = n /\ i = q
      BY <2>2, <1>1, <1>2
    <2>3. CASE d = n /\ i # q
      BY <2>3, <1>1, <1>2 DEF Same
    <2> QED BY <2>1, <2>2, <2>3
  <1> QED BY <1>1, <1>2, <1>3 DEF Grows

LEMMA OwnStoreFound ==
  ASSUME OwnInv, NEW n \in Node, NEW m \in BagToSet(net), StoreFound(n, m)
  PROVE  OwnInv'
  <1> DEFINE q == m.qid
             query == cache[n][q]
             vres == query.vres \o m.vs
  <1>1. /\ m.type = "Store" /\ m.to = n /\ q \in DOMAIN cache[n]
        /\ UNCHANGED <<conf, lastid>>
    BY DEF StoreFound
  <1>2. query.org = m.org /\ Home(query.mode_info, query.with, m.org) /\ m.org \in Node
        /\ QueryShape(query) /\ DOMAIN cache = Node
    BY <1>1 DEF OwnInv, Shape, MessageOwned, Owned, QueryShape
  <1>3. CASE /\ net' = Taken(m) (+) ForwardReply(n, query.mode_info, query.with, Store(m.vs, m.org))
             /\ UNCHANGED cache
    <2>1. Grows
      BY <1>1, <1>3, CachesStay
    <2>2. \A x \in BagToSet(ForwardReply(n, query.mode_info, query.with, Store(m.vs, m.org))) : FreshOwned(x)
      BY <1>2, <2>1, ForwardReplyOwned, Zenon
    <2>3. PICK b : b = ForwardReply(n, query.mode_info, query.with, Store(m.vs, m.org))
      OBVIOUS
    <2>4. BagToSet(net') = BagToSet(Taken(m)) \cup BagToSet(b)
      BY <1>3, <2>3, BagUnionDomain
    <2> QED BY <1>1, <2>1, <2>2, <2>3, <2>4, TakenDomain, OwnStep
  <1>4. CASE Reply(n, q, m, vres)
    BY <1>1, <1>2, <1>4, OwnReply
  <1>5. CASE cache' = [cache EXCEPT ![n][q].vres = vres] /\ net' = Taken(m)
    <2> DEFINE r == [query EXCEPT !.vres = vres]
    <2>1. cache' = [cache EXCEPT ![n] = [cache[n] EXCEPT ![q] = r]]
      BY <1>5
    <2>2. QueryShape(r) /\ Same(r, query)
      BY <1>2 DEF QueryShape, QueryFields, Same
    <2> HIDE DEF r
    <2>3. Grows
      BY <1>1, <2>1, <2>2, EntryChanges, Zenon
    <2> QED BY <1>1, <1>5, <2>3, TakenDomain, OwnStep
  <1> QED BY <1>3, <1>4, <1>5 DEF StoreFound

LEMMA OwnNotFoundBranch ==
  ASSUME OwnInv, NEW n \in Node, NEW m \in BagToSet(net), NotFoundBranch(n, m)
  PROVE  OwnInv'
  <1> DEFINE q == m.qid
             query == cache[n][q]
  <1>1. /\ m.type = "NotFound" /\ m.to = n /\ q \in DOMAIN cache[n]
        /\ UNCHANGED <<conf, lastid>>
    BY DEF NotFoundBranch
  <1>2. query.org = m.org /\ QueryShape(query) /\ DOMAIN cache = Node
    BY <1>1 DEF OwnInv, Shape, MessageOwned, Owned, QueryShape
  <1>3. CASE Reply(n, q, m, query.vres)
    BY <1>1, <1>2, <1>3, OwnReply
  <1>4. CASE UNCHANGED cache /\ net' = Taken(m)
    BY <1>1, <1>4, TakenDomain, OwnLess
  <1>5. CASE /\ cache' = [cache EXCEPT ![n][q].nb_not_found = @ - 1]
             /\ net' = Taken(m)
    <2> DEFINE r == [query EXCEPT !.nb_not_found = @ - 1]
    <2>1. cache' = [cache EXCEPT ![n] = [cache[n] EXCEPT ![q] = r]]
      BY <1>5
    <2>2. QueryShape(r) /\ Same(r, query)
      BY <1>2 DEF QueryShape, QueryFields, Same
    <2> HIDE DEF r
    <2>3. Grows
      BY <1>1, <2>1, <2>2, EntryChanges, Zenon
    <2> QED BY <1>1, <1>5, <2>3, TakenDomain, OwnStep
  <1> QED BY <1>3, <1>4, <1>5 DEF NotFoundBranch

LEMMA OwnInit == Init => OwnInv
  BY EmptyBagDomain, KVStoreAssumption DEF Init, OwnInv, Shape

LEMMA OwnNext == OwnInv /\ [Next]_vars => OwnInv'
  <1> SUFFICES ASSUME OwnInv, [Next]_vars PROVE OwnInv'
    OBVIOUS
  <1>1. ASSUME NEW n \in Node, Ask(n) PROVE OwnInv'
    BY <1>1, OwnAsk
  <1>2. ASSUME NEW n \in Node, StoreLocally(n) PROVE OwnInv'
    BY <1>2, OwnLess DEF StoreLocally
  <1>3. ASSUME NEW n \in Node, NEW m \in BagToSet(net), FindEnd(n, m) PROVE OwnInv'
    BY <1>3, OwnFindEnd
  <1>4. ASSUME NEW n \in Node, NEW m \in BagToSet(net), FindForward(n, m) PROVE OwnInv'
    BY <1>4, OwnFindForward
  <1>5. ASSUME NEW n \in Node, NEW m \in BagToSet(net), StoreFound(n, m) PROVE OwnInv'
    BY <1>5, OwnStoreFound
  <1>6. ASSUME NEW n \in Node, NEW m \in BagToSet(net), NotFoundBranch(n, m) PROVE OwnInv'
    BY <1>6, OwnNotFoundBranch
  <1>7. ASSUME NEW n \in Node, NEW m \in BagToSet(net), Late(n, m) PROVE OwnInv'
    BY <1>7, OwnLess, TakenDomain DEF Late
  <1>8. ASSUME NEW m \in BagToSet(net), Lose(m) PROVE OwnInv'
    BY <1>8, OwnLess, TakenDomain DEF Lose
  <1>9. CASE UNCHANGED vars
    BY <1>9, OwnLess DEF vars
  <1> QED BY <1>1, <1>2, <1>3, <1>4, <1>5, <1>6, <1>7, <1>8, <1>9 DEF Next, Receive

(* A reply is applied to the query it is about: Store and NotFound of       *)
(* KVStoreService::call look the query up by an id that every node counts  *)
(* on its own, and new_hop puts the id of the node that will be replied to *)
(* in the forwarded query.                                                 *)
THEOREM RepliesAreOwn == Spec => []ReplyToOwnQuery
  <1>1. OwnInv => ReplyToOwnQuery
    BY DEF OwnInv, MessageOwned, Owned, ReplyToOwnQuery, Replies, Finds
  <1> QED BY <1>1, OwnInit, OwnNext, PTL DEF Spec

=============================================================================
