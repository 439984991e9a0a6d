------------------------- MODULE KVStoreAnswerProofs -------------------------
(***************************************************************************)
(* Proofs about KVStore for any nodes, keys and configurations: a query of *)
(* the api is answered once, with values of its key. They rest on the      *)
(* invariant OwnInv of KVStoreProofs.                                      *)
(***************************************************************************)
EXTENDS KVStoreProofs

-----------------------------------------------------------------------------
(* A query of the api is in one place: sent to the service, in its cache,   *)
(* or answered.                                                             *)

ApiFind(m) == m.type = "Find" /\ m.api

OnlyApi(n, q) ==
  /\ n \in asked /\ answers[n] = <<>> /\ cache[n][q].org = n
  /\ \A i \in DOMAIN cache[n] : cache[n][i].api => i = q
  /\ \A x \in BagToSet(net) : ApiFind(x) => x.to # n

OnlyFind(m) ==
  /\ m.to = m.qm.org /\ m.to \in asked /\ answers[m.to] = <<>> /\ net[m] = 1
  /\ \A x \in BagToSet(net) : ApiFind(x) /\ x.to = m.to => x = m

TokenInv ==
  /\ IsABag(net) /\ DOMAIN answers = Node /\ asked \subseteq Node
  /\ \A n \in Node : Len(answers[n]) <= 1 /\ (n \notin asked => answers[n] = <<>>)
  /\ \A n \in Node : \A q \in DOMAIN cache[n] : cache[n][q].api => OnlyApi(n, q)
  /\ \A m \in BagToSet(net) : ApiFind(m) => OnlyFind(m)

(* The bag T has no query of the api that net has not, and lacks m. *)
Within(T, m) ==
  /\ IsABag(T)
  /\ \A x \in BagToSet(T) : ApiFind(x) => x \in BagToSet(net) /\ T[x] <= net[x]
  /\ ApiFind(m) /\ net[m] = 1 => m \notin BagToSet(T)

LEMMA SetBag == \A S : IsABag(SetToBag(S))
  BY DEF IsABag, SetToBag

LEMMA GivenFresh ==
  ASSUME IsABag(net), NEW m, m \notin BagToSet(net)
  PROVE  /\ IsABag(Given(m)) /\ Given(m)[m] = 1
         /\ \A x \in BagToSet(net) : Given(m)[x] = net[x]
  <1> DEFINE B == Given(m)
  <1>0. B = [e \in DOMAIN net \cup {m} |-> (IF e \in DOMAIN net THEN net[e] ELSE 0)
                                            + (IF e \in {m} THEN [d \in {m} |-> 1][e] ELSE 0)]
    BY Zenon DEF Given, (+), SetToBag
  <1>1. B = [e \in DOMAIN net \cup {m} |-> IF e = m THEN 1 ELSE net[e]]
    BY <1>0 DEF BagToSet, IsABag
  <1>2. \A x \in DOMAIN net : net[x] \in Nat /\ net[x] > 0
    BY DEF IsABag
  <1> HIDE DEF B
  <1>3. IsABag(B)
    BY <1>1, <1>2 DEF IsABag
  <1>4. B[m] = 1 /\ \A x \in BagToSet(net) : B[x] = net[x]
    BY <1>1 DEF BagToSet
  <1> QED BY <1>3, <1>4 DEF B

LEMMA WithinTaken ==
  ASSUME NEW m, m \in BagToSet(net), IsABag(net)
  PROVE  Within(Taken(m), m)
  <1>1. \A x \in DOMAIN net : net[x] \in Nat /\ net[x] > 0
    BY DEF IsABag
  <1>2. Taken(m) = [x \in {d \in DOMAIN net : (IF d = m THEN net[d] - 1 ELSE net[d]) > 0} |->
                      IF x = m THEN net[x] - 1 ELSE net[x]]
    BY DEF Taken, (-), SetToBag
  <1>3. IsABag(Taken(m))
    BY <1>1, <1>2 DEF IsABag
  <1>4. \A x \in DOMAIN Taken(m) : x \in DOMAIN net /\ Taken(m)[x] <= net[x]
    BY <1>1, <1>2
  <1>5. net[m] = 1 => m \notin DOMAIN Taken(m)
    BY <1>2
  <1> QED BY <1>3, <1>4, <1>5 DEF Within, BagToSet

LEMMA WithinPlus ==
  ASSUME NEW m, NEW T, NEW B, Within(T, m), IsABag(B), \A x \in BagToSet(B) : ~ApiFind(x)
  PROVE  Within(T (+) B, m)
  <1> DEFINE U == T (+) B
  <1>1. /\ \A x \in DOMAIN T : T[x] \in Nat /\ T[x] > 0
        /\ \A x \in DOMAIN B : B[x] \in Nat /\ B[x] > 0
    BY DEF IsABag, Within
  <1>2. U = [x \in DOMAIN T \cup DOMAIN B |->
               (IF x \in DOMAIN T THEN T[x] ELSE 0) + (IF x \in DOMAIN B THEN B[x] ELSE 0)]
    BY DEF (+)
  <1> HIDE DEF U
  <1>3. IsABag(U)
    BY <1>1, <1>2 DEF IsABag
  <1>4. ASSUME NEW x \in DOMAIN U, x \notin DOMAIN B PROVE x \in DOMAIN T /\ U[x] = T[x]
    BY <1>1, <1>2, <1>4
  <1>5. \A x \in DOMAIN B : ~ApiFind(x)
    BY DEF BagToSet
  <1> QED BY <1>2, <1>3, <1>4, <1>5 DEF Within, BagToSet, U

(* No step but FindForward adds a query of the api to a cache. *)
NoNewApi ==
  \A d \in Node : \A q \in DOMAIN cache'[d] : cache'[d][q].api =>
    q \in DOMAIN cache[d] /\ cache[d][q].api /\ cache'[d][q].org = cache[d][q].org

LEMMA TokenQuiet ==
  ASSUME TokenInv, Shape, NoNewApi, NEW m, Within(net', m), UNCHANGED <<asked, answers>>
  PROVE  TokenInv'
  <1>1. \A x \in BagToSet(net') : ApiFind(x) => x \in BagToSet(net) /\ net'[x] = net[x]
    <2> SUFFICES ASSUME NEW x \in BagToSet(net'), ApiFind(x)
                 PROVE  x \in BagToSet(net) /\ net'[x] = net[x]
      OBVIOUS
    <2>1. x \in BagToSet(net) /\ net'[x] <= net[x] /\ net'[x] \in Nat /\ net'[x] > 0
      BY DEF Within, IsABag, BagToSet
    <2> QED BY <2>1 DEF TokenInv, OnlyFind
  <1>2. ASSUME NEW n \in Node, NEW q \in DOMAIN cache'[n], cache'[n][q].api PROVE OnlyApi(n, q)'
    BY <1>1, <1>2 DEF TokenInv, OnlyApi, NoNewApi
  <1>3. ASSUME NEW x \in BagToSet(net'), ApiFind(x) PROVE OnlyFind(x)'
    BY <1>1, <1>3 DEF TokenInv, OnlyFind
  <1>4. IsABag(net')
    BY DEF Within
  <1> QED BY <1>2, <1>3, <1>4 DEF TokenInv, ApiFind

(* The query of the api at n, not in its place any more, is answered. *)
LEMMA TokenAnswer ==
  ASSUME TokenInv, Shape, NoNewApi, NEW m, Within(net', m), UNCHANGED asked,
         NEW n \in Node, NEW vs, Answer(n, vs), n \in asked, answers[n] = <<>>,
         \A q \in DOMAIN cache'[n] : ~cache'[n][q].api,
         \A x \in BagToSet(net') : ApiFind(x) => x.to # n
  PROVE  TokenInv'
  <1>0. DOMAIN answers = Node
    BY DEF TokenInv
  <1>1. /\ DOMAIN answers' = Node /\ answers'[n] = <<vs>> /\ Len(answers'[n]) = 1
        /\ \A d \in Node \ {n} : answers'[d] = answers[d]
    BY <1>0 DEF Answer
  <1>2. \A x \in BagToSet(net') : ApiFind(x) => x \in BagToSet(net) /\ net'[x] = net[x]
    <2> SUFFICES ASSUME NEW x \in BagToSet(net'), ApiFind(x)
                 PROVE  x \in BagToSet(net) /\ net'[x] = net[x]
      OBVIOUS
    <2>1. x \in BagToSet(net) /\ net'[x] <= net[x] /\ net'[x] \in Nat /\ net'[x] > 0
      BY DEF Within, IsABag, BagToSet
    <2> QED BY <2>1 DEF TokenInv, OnlyFind
  <1>3. ASSUME NEW d \in Node, NEW q \in DOMAIN cache'[d], cache'[d][q].api PROVE OnlyApi(d, q)'
    <2>1. d # n /\ answers'[d] = answers[d]
      BY <1>1, <1>3
    <2> QED BY <1>2, <1>3, <2>1 DEF TokenInv, OnlyApi, NoNewApi
  <1>4. ASSUME NEW x \in BagToSet(net'), ApiFind(x) PROVE OnlyFind(x)'
    <2>1. x \in BagToSet(net) /\ x.to # n /\ x.to \in Node /\ OnlyFind(x)
      BY <1>2, <1>4 DEF TokenInv, OnlyFind
    <2>2. answers'[x.to] = answers[x.to]
      BY <1>1, <2>1
    <2> QED BY <1>2, <1>4, <2>1, <2>2 DEF OnlyFind
  <1>5. IsABag(net') /\ asked' \subseteq Node
    BY DEF Within, TokenInv
  <1>6. \A d \in Node : Len(answers'[d]) <= 1 /\ (d \notin asked' => answers'[d] = <<>>)
    <2> SUFFICES ASSUME NEW d \in Node
                 PROVE  Len(answers'[d]) <= 1 /\ (d \notin asked' => answers'[d] = <<>>)
      OBVIOUS
    <2>1. CASE d = n
      BY <2>1, <1>1
    <2>2. CASE d # n
      BY <2>2, <1>1 DEF TokenInv
    <2> QED BY <2>1, <2>2
  <1> QED BY <1>1, <1>3, <1>4, <1>5, <1>6 DEF TokenInv, ApiFind

(* ForwardReply adds no query, and ForwardFind none of the api. *)
LEMMA ForwardReplyBag ==
  ASSUME NEW n, NEW mi, NEW with, NEW mess, NEW vs, NEW o, mess \in {Store(vs, o), NotFound(o)}
  PROVE  /\ IsABag(ForwardReply(n, mi, with, mess))
         /\ \A x \in BagToSet(ForwardReply(n, mi, with, mess)) :
              ~ApiFind(x) /\ x.type # "Find" /\ x.vs = mess.vs /\ x.org = mess.org
  <1>1. IsABag(ForwardReply(n, mi, with, mess))
    BY SetBag, Zenon DEF ForwardReply
  <1>2. BagToSet(ForwardReply(n, mi, with, mess)) =
          {[mess EXCEPT !.to = d, !.with = n, !.qid = mi.qid] : d \in fwd_dests(mi, with)}
    BY SetToBagDomain, Zenon DEF ForwardReply
  <1>3. ASSUME NEW x \in BagToSet(ForwardReply(n, mi, with, mess))
        PROVE  ~ApiFind(x) /\ x.type # "Find" /\ x.vs = mess.vs /\ x.org = mess.org
    <2> PICK d \in fwd_dests(mi, with) : x = [mess EXCEPT !.to = d, !.with = n, !.qid = mi.qid]
      BY <1>2, Zenon
    <2>1. x.type \in {"Store", "NotFound"} /\ x.vs = mess.vs /\ x.org = mess.org
      BY DEF Store, NotFound
    <2> QED BY <2>1 DEF ApiFind
  <1> QED BY <1>1, <1>3

LEMMA ForwardFindBag ==
  ASSUME NEW n, NEW qm, DOMAIN qm = QmFields, NEW dests, dests \in get_closest(n, qm)
  PROVE  /\ IsABag(ForwardFind(n, qm, dests))
         /\ \A x \in BagToSet(ForwardFind(n, qm, dests)) : ~ApiFind(x)
  <1>1. IsABag(ForwardFind(n, qm, dests))
    BY SetBag DEF ForwardFind
  <1>2. \A x \in BagToSet(ForwardFind(n, qm, dests)) : ~ApiFind(x)
    BY ForwardFindShape, Zenon DEF SentFind, ApiFind
  <1> QED BY <1>1, <1>2

-----------------------------------------------------------------------------
(* Values on their way to a query, kept with it or answered, are those of    *)
(* the key its api asked for.                                               *)

KeysOf(o) == {k \in Key : <<o, k>> \in conf.asks}

KeyMsg(x) ==
  IF x.type = "Find" THEN x.qm.key \in KeysOf(x.qm.org) ELSE x.vs \in Seq(KeysOf(x.org))

KeyInv ==
  /\ \A n \in Node : answers[n] \in Seq(Seq(KeysOf(n)))
  /\ \A n \in Node : \A q \in DOMAIN cache[n] : cache[n][q].vres \in Seq(KeysOf(cache[n][q].org))
  /\ \A m \in BagToSet(net) : KeyMsg(m)

LEMMA KeyStep ==
  ASSUME KeyInv, conf' = conf,
         \A n \in Node : answers'[n] = answers[n] \/ answers'[n] \in Seq(Seq(KeysOf(n))),
         \A n \in Node : \A q \in DOMAIN cache'[n] :
           \/ /\ q \in DOMAIN cache[n]
              /\ cache'[n][q].vres = cache[n][q].vres /\ cache'[n][q].org = cache[n][q].org
           \/ cache'[n][q].vres \in Seq(KeysOf(cache'[n][q].org)),
         \A m \in BagToSet(net') : m \in BagToSet(net) \/ KeyMsg(m)
  PROVE  KeyInv'
  <1>1. \A o : KeysOf(o)' = KeysOf(o)
    BY DEF KeysOf
  <1>2. \A n \in Node : answers'[n] \in Seq(Seq(KeysOf(n)'))
    BY <1>1 DEF KeyInv
  <1>3. \A n \in Node : \A q \in DOMAIN cache'[n] : cache'[n][q].vres \in Seq(KeysOf(cache'[n][q].org))
    BY DEF KeyInv
  <1>4. \A m \in BagToSet(net') : KeyMsg(m)
    BY DEF KeyInv
  <1>5. \A m : KeyMsg(m)' = KeyMsg(m)
    BY <1>1 DEF KeyMsg
  <1>6. \A m \in BagToSet(net') : KeyMsg(m)'
    BY <1>4, <1>5
  <1>7. \A n \in Node : \A q \in DOMAIN cache'[n] : cache'[n][q].vres \in Seq(KeysOf(cache[n][q].org)')
    BY <1>1, <1>3 DEF KeysOf
  <1> QED BY <1>2, <1>6, <1>7 DEF KeyInv

AnsInv == OwnInv /\ TokenInv /\ KeyInv

(* Appending an answer of the right key. *)
LEMMA KeyAnswer ==
  ASSUME KeyInv, TokenInv, NEW n \in Node, NEW vs \in Seq(KeysOf(n)), Answer(n, vs)
  PROVE  \A d \in Node : answers'[d] = answers[d] \/ answers'[d] \in Seq(Seq(KeysOf(d)))
  <1>1. DOMAIN answers = Node /\ answers[n] \in Seq(Seq(KeysOf(n)))
    BY DEF TokenInv, KeyInv
  <1>2. answers'[n] = Append(answers[n], vs) /\ \A d \in Node \ {n} : answers'[d] = answers[d]
    BY <1>1 DEF Answer
  <1>3. Append(answers[n], vs) \in Seq(Seq(KeysOf(n)))
    BY <1>1
  <1> QED BY <1>2, <1>3, Zenon

LEMMA AnsAsk ==
  ASSUME AnsInv, NEW n \in Node, Ask(n)
  PROVE  TokenInv' /\ KeyInv'
  <1> PICK k \in Key : /\ <<n, k>> \in conf.asks
                       /\ net' = Given([type |-> "Find", to |-> n, with |-> None, api |-> TRUE,
                                        qm |-> query_message(n, k)])
    BY Zenon DEF Ask
  <1> PICK m : m = [type |-> "Find", to |-> n, with |-> None, api |-> TRUE,
                    qm |-> query_message(n, k)]
    OBVIOUS
  <1>0. /\ UNCHANGED <<conf, cache, lastid, answers>> /\ n \notin asked /\ asked' = asked \cup {n}
        /\ TokenInv /\ KeyInv
    BY DEF Ask, AnsInv
  <1>1. m.type = "Find" /\ m.to = n /\ m.qm.org = n /\ m.qm.key = k
    BY DEF query_message
  <1>2. ApiFind(m)
    BY DEF ApiFind
  <1>3. m \notin BagToSet(net) /\ \A x \in BagToSet(net) : ApiFind(x) => x.to # n
    BY <1>0, <1>1, <1>2 DEF TokenInv, OnlyFind
  <1>4. net' = Given(m)
    OBVIOUS
  <1>5. /\ BagToSet(net') = BagToSet(net) \cup {m} /\ net'[m] = 1
        /\ \A x \in BagToSet(net) : net'[x] = net[x]
    <2>1. IsABag(net)
      BY <1>0 DEF TokenInv
    <2>2. BagToSet(net') = BagToSet(net) \cup {m}
      BY <1>4, GivenDomain, Zenon
    <2>3. Given(m)[m] = 1 /\ \A x \in BagToSet(net) : Given(m)[x] = net[x]
      BY ONLY <2>1, <1>3, GivenFresh
    <2> QED BY <2>2, <2>3, <1>4, Zenon
  <1>6. IsABag(net')
    BY <1>0, <1>3, <1>4, GivenFresh DEF TokenInv
  <1>7. ASSUME NEW d \in Node, NEW q \in DOMAIN cache[d], cache[d][q].api PROVE OnlyApi(d, q)'
    <2>1. OnlyApi(d, q) /\ d # n
      BY <1>0, <1>7 DEF TokenInv, OnlyApi
    <2>2. \A x \in BagToSet(net') : ApiFind(x) => x.to # d
      BY <1>1, <1>5, <2>1, Zenon DEF OnlyApi
    <2> QED BY <1>0, <2>1, <2>2, Zenon DEF OnlyApi
  <1>8. OnlyFind(m)'
    BY <1>0, <1>1, <1>3, <1>5, Zenon DEF OnlyFind, TokenInv
  <1>9. ASSUME NEW x \in BagToSet(net), ApiFind(x) PROVE OnlyFind(x)'
    BY <1>0, <1>1, <1>3, <1>5, <1>9, Zenon DEF OnlyFind, TokenInv
  <1>10. TokenInv'
    BY <1>0, <1>5, <1>6, <1>7, <1>8, <1>9, Zenon DEF TokenInv, ApiFind
  <1>11. KeyMsg(m)
    BY <1>1 DEF KeyMsg, KeysOf
  <1>12. KeyInv'
    BY <1>0, <1>5, <1>11, KeyStep, Zenon
  <1> QED BY <1>10, <1>12

(* Steps that take a message and leave all the rest. *)
LEMMA AnsTaken ==
  ASSUME AnsInv, NEW m \in BagToSet(net), net' = Taken(m),
         UNCHANGED <<conf, asked, cache, answers>>
  PROVE  TokenInv' /\ KeyInv'
  <1>1. NoNewApi
    BY DEF NoNewApi
  <1>2. Within(net', m)
    BY WithinTaken DEF AnsInv, TokenInv
  <1>3. TokenInv'
    BY <1>1, <1>2, TokenQuiet DEF AnsInv, OwnInv
  <1>4. KeyInv'
    BY TakenDomain, KeyStep DEF AnsInv
  <1> QED BY <1>3, <1>4

(* The values of a reply of ForwardReply are those it was given. *)
LEMMA ForwardReplyKeys ==
  ASSUME NEW n, NEW mi, NEW with, NEW vs, NEW o, vs \in Seq(KeysOf(o)),
         NEW mess, mess \in {Store(vs, o), NotFound(o)}
  PROVE  \A x \in BagToSet(ForwardReply(n, mi, with, mess)) : KeyMsg(x)
  <1>1. mess.org = o
    BY DEF Store, NotFound
  <1>2. mess.vs = vs \/ mess.vs = <<>>
    BY DEF Store, NotFound
  <1>3. mess.vs \in Seq(KeysOf(o))
    <2>1. <<>> \in Seq(KeysOf(o))
      OBVIOUS
    <2> QED BY <1>2, <2>1, Zenon
  <1>4. ASSUME NEW x \in BagToSet(ForwardReply(n, mi, with, mess)) PROVE KeyMsg(x)
    <2>1. x.type # "Find" /\ x.vs = mess.vs /\ x.org = mess.org
      BY ForwardReplyBag
    <2> QED BY <1>1, <1>3, <2>1 DEF KeyMsg
  <1> QED BY <1>4

LEMMA AnsFindEnd ==
  ASSUME AnsInv, NEW n \in Node, NEW m \in BagToSet(net), FindEnd(n, m)
  PROVE  TokenInv' /\ KeyInv'
  <1> DEFINE vs == IF Has(n, m) THEN <<m.qm.key>> ELSE <<>>
             mess == reply_message(vs, m.qm.org)
             fw == ForwardReply(n, m.qm.mode_info, m.with, mess)
  <1>0. /\ UNCHANGED <<conf, asked, cache, lastid>> /\ m.type = "Find" /\ m.to = n
        /\ TokenInv /\ KeyInv /\ Shape
    BY DEF FindEnd, AnsInv, OwnInv
  <1>1. NoNewApi
    BY <1>0 DEF NoNewApi
  <1>2. Within(Taken(m), m)
    BY <1>0, WithinTaken DEF TokenInv
  <1>3. vs \in Seq(KeysOf(m.qm.org))
    <2>1. m.qm.key \in KeysOf(m.qm.org)
      BY <1>0 DEF KeyInv, KeyMsg
    <2>2. <<m.qm.key>> \in Seq(KeysOf(m.qm.org)) /\ <<>> \in Seq(KeysOf(m.qm.org))
      BY <2>1
    <2> QED BY <2>2, Zenon
  <1>4. \/ net' = Taken(m) /\ UNCHANGED answers
        \/ m.api /\ net' = Taken(m) /\ Answer(m.qm.org, vs)
        \/ net' = Taken(m) (+) fw /\ UNCHANGED answers
    BY DEF FindEnd
  <1> HIDE DEF vs
  <1>5. CASE net' = Taken(m) /\ UNCHANGED answers
    BY <1>0, <1>5, AnsTaken
  <1>6. CASE m.api /\ net' = Taken(m) /\ Answer(m.qm.org, vs)
    <2>1. ApiFind(m) /\ OnlyFind(m)
      BY <1>0, <1>6 DEF ApiFind, TokenInv
    <2>2. m.qm.org = n /\ n \in asked /\ answers[n] = <<>> /\ net[m] = 1
      BY <1>0, <2>1 DEF OnlyFind
    <2>3. \A x \in BagToSet(net') : ApiFind(x) => x.to # n
      <3> SUFFICES ASSUME NEW x \in BagToSet(net'), ApiFind(x), x.to = n PROVE FALSE
        OBVIOUS
      <3>1. x \in BagToSet(net) /\ m \notin BagToSet(net')
        BY SMTT(30), <1>2, <1>6, <2>1, <2>2 DEF Within
      <3> QED BY <3>1, <1>0, <2>1 DEF OnlyFind
    <2>4. \A q \in DOMAIN cache'[n] : ~cache'[n][q].api
      BY <1>0, <2>1 DEF TokenInv, OnlyApi
    <2>5. TokenInv'
      BY SMTT(30), <1>0, <1>1, <1>2, <1>6, <2>2, <2>3, <2>4, TokenAnswer
    <2>6. \A d \in Node : answers'[d] = answers[d] \/ answers'[d] \in Seq(Seq(KeysOf(d)))
      BY <1>0, <1>3, <1>6, <2>2, KeyAnswer
    <2>7. KeyInv'
      BY SMTT(30), <1>0, <1>6, <2>6, TakenDomain, KeyStep
    <2> QED BY <2>5, <2>7
  <1>7. CASE net' = Taken(m) (+) fw /\ UNCHANGED answers
    <2>1. mess \in {Store(vs, m.qm.org), NotFound(m.qm.org)}
      BY DEF reply_message
    <2> HIDE DEF mess
    <2>2. IsABag(fw) /\ \A x \in BagToSet(fw) : ~ApiFind(x)
      BY <2>1, ForwardReplyBag
    <2>3. \A x \in BagToSet(fw) : KeyMsg(x)
      BY <2>1, <1>3, ForwardReplyKeys
    <2> HIDE DEF fw
    <2>4. Within(net', m)
      BY <1>2, <1>7, <2>2, WithinPlus
    <2>5. TokenInv'
      BY <1>0, <1>1, <1>7, <2>4, TokenQuiet
    <2>6. BagToSet(net') = BagToSet(Taken(m)) \cup BagToSet(fw)
      BY <1>7, BagUnionDomain
    <2>7. KeyInv'
      BY <1>0, <1>7, <2>3, <2>6, TakenDomain, KeyStep
    <2> QED BY <2>5, <2>7
  <1> QED BY <1>4, <1>5, <1>6, <1>7

(* What FindForward adds to the cache. *)
NewEntry(n, m, r, q) ==
  /\ r.api = m.api /\ r.org = m.qm.org /\ r.vres = kept(n, m) /\ q = lastid[n] + 1
  /\ cache' = [cache EXCEPT ![n] = query_add(@, q, r)]

LEMMA ForwardEntry ==
  ASSUME NEW n \in Node, NEW m, FindShape(m), FindForward(n, m)
  PROVE  \/ m.api = FALSE /\ UNCHANGED cache
         \/ \E r, q : NewEntry(n, m, r, q)
  <1> DEFINE qm == counted(n, m)
             st == m.api \/ do_store_on_forward(qm.mode_info)
             qid == IF st THEN new_id(n) ELSE qm.mode_info.qid
             next == to_next_hop(qm, n, qid)
             query == [api |-> m.api, mode_info |-> qm.mode_info, with |-> m.with, org |-> qm.org,
                       nb_res |-> next.nb_res, vres |-> kept(n, m),
                       nb_not_found |-> IF conf.reply THEN notfoundtreshold(next) ELSE 0]
  <1>1. cache' = IF st THEN [cache EXCEPT ![n] = query_add(@, qid, query)] ELSE cache
    BY DEF FindForward
  <1>2. query.api = m.api /\ query.org = m.qm.org /\ query.vres = kept(n, m)
    BY CountedShape
  <1>3. CASE ~st
    BY <1>1, <1>3 DEF FindShape
  <1>4. CASE st
    <2>1. qid = lastid[n] + 1
      BY <1>4 DEF new_id
    <2> HIDE DEF qid, query, st
    <2>2. cache' = [cache EXCEPT ![n] = query_add(@, qid, query)]
      BY <1>1, <1>4
    <2>3. NewEntry(n, m, query, qid)
      BY <1>2, <2>1, <2>2 DEF NewEntry
    <2> QED BY <2>3
  <1> QED BY <1>3, <1>4, Zenon

(* What FindForward sends. *)
LEMMA ForwardNet ==
  ASSUME AnsInv, NEW n \in Node, NEW m \in BagToSet(net), FindShape(m), FindForward(n, m)
  PROVE  /\ Within(net', m)
         /\ \A x \in BagToSet(net') : x \in BagToSet(net) \/ KeyMsg(x)
  <1> DEFINE qm == counted(n, m)
             st == m.api \/ do_store_on_forward(qm.mode_info)
             qid == IF st THEN new_id(n) ELSE qm.mode_info.qid
             next == to_next_hop(qm, n, qid)
             own == IF sent_at_once(n, m)
                    THEN ForwardReply(n, qm.mode_info, m.with, Store(<<qm.key>>, qm.org))
                    ELSE EmptyBag
  <1>0. TokenInv /\ KeyInv /\ m.type = "Find"
    BY DEF AnsInv, FindShape
  <1>1. DOMAIN qm = QmFields /\ qm.org = m.qm.org /\ qm.key = m.qm.key
    BY CountedShape
  <1>2. qm.key \in KeysOf(qm.org)
    BY <1>0, <1>1 DEF KeyInv, KeyMsg
  <1> PICK nx : nx = next
    OBVIOUS
  <1>3. DOMAIN nx = QmFields /\ nx.org = qm.org /\ nx.key = qm.key
    <2>1. PICK i : i = qid
      OBVIOUS
    <2>2. nx = to_next_hop(qm, n, i)
      BY <2>1
    <2> HIDE DEF qm, st, qid, next, own
    <2> QED BY <1>1, <2>2, NextShape
  <1>4. PICK dests \in get_closest(n, nx) :
          net' = Taken(m) (+) own (+) ForwardFind(n, nx, dests)
    BY DEF FindForward
  <1> HIDE DEF next, qid, st, qm
  <1>5. IsABag(own) /\ \A x \in BagToSet(own) : ~ApiFind(x) /\ KeyMsg(x)
    <2>1. CASE ~sent_at_once(n, m)
      BY <2>1, EmptyBagDomain, SetBag DEF EmptyBag
    <2>2. CASE sent_at_once(n, m)
      <3> DEFINE vs == <<qm.key>>
                 mess == Store(vs, qm.org)
      <3>1. vs \in Seq(KeysOf(qm.org))
        BY <1>2
      <3> HIDE DEF vs
      <3>2. mess \in {Store(vs, qm.org), NotFound(qm.org)}
        OBVIOUS
      <3> HIDE DEF mess
      <3>3. own = ForwardReply(n, qm.mode_info, m.with, mess)
        BY <2>2 DEF mess, vs
      <3> HIDE DEF own, qm
      <3>4. PICK mi : mi = qm.mode_info
        OBVIOUS
      <3>5. IsABag(ForwardReply(n, mi, m.with, mess))
            /\ \A x \in BagToSet(ForwardReply(n, mi, m.with, mess)) : ~ApiFind(x)
        BY <3>2, ForwardReplyBag
      <3>6. \A x \in BagToSet(ForwardReply(n, mi, m.with, mess)) : KeyMsg(x)
        BY <3>1, <3>2, ForwardReplyKeys
      <3> QED BY <3>3, <3>4, <3>5, <3>6
    <2> QED BY <2>1, <2>2
  <1> HIDE DEF own
  <1>6. /\ IsABag(ForwardFind(n, nx, dests))
        /\ \A x \in BagToSet(ForwardFind(n, nx, dests)) : ~ApiFind(x)
    BY <1>3, ForwardFindBag
  <1>7. \A x \in BagToSet(ForwardFind(n, nx, dests)) : KeyMsg(x)
    <2> SUFFICES ASSUME NEW x \in BagToSet(ForwardFind(n, nx, dests)) PROVE KeyMsg(x)
      OBVIOUS
    <2>1. SentFind(x, n, nx)
      BY <1>3, ForwardFindShape
    <2> QED BY <2>1, <1>2, <1>3 DEF SentFind, KeyMsg
  <1>8. Within(Taken(m), m)
    BY <1>0, WithinTaken DEF TokenInv
  <1>9. Within(Taken(m) (+) own, m)
    BY <1>5, <1>8, WithinPlus
  <1>10. Within(net', m)
    BY <1>4, <1>6, <1>9, WithinPlus
  <1>11. BagToSet(net') =
           BagToSet(Taken(m)) \cup BagToSet(own) \cup BagToSet(ForwardFind(n, nx, dests))
    BY <1>4, BagUnionDomain
  <1> QED BY <1>5, <1>7, <1>10, <1>11, TakenDomain

LEMMA AnsFindForward ==
  ASSUME AnsInv, NEW n \in Node, NEW m \in BagToSet(net), FindForward(n, m)
  PROVE  TokenInv' /\ KeyInv'
  <1>0. /\ UNCHANGED <<conf, asked, answers>> /\ m.type = "Find" /\ m.to = n
        /\ TokenInv /\ KeyInv /\ Shape
    BY DEF FindForward, AnsInv, OwnInv
  <1>1. FindShape(m)
    BY <1>0 DEF Shape, ReplyShape
  <1>2. Within(net', m) /\ \A x \in BagToSet(net') : x \in BagToSet(net) \/ KeyMsg(x)
    BY <1>1, ForwardNet
  <1>3. CASE m.api = FALSE /\ UNCHANGED cache
    <2>1. NoNewApi
      BY <1>3 DEF NoNewApi
    <2>2. TokenInv'
      BY <1>0, <1>2, <2>1, TokenQuiet
    <2>3. KeyInv'
      BY <1>0, <1>2, <1>3, KeyStep
    <2> QED BY <2>2, <2>3
  <1>4. ASSUME NEW r, NEW q, NewEntry(n, m, r, q)
        PROVE  TokenInv' /\ KeyInv'
    <2>0. /\ r.api = m.api /\ r.org = m.qm.org /\ r.vres = kept(n, m) /\ q = lastid[n] + 1
          /\ cache' = [cache EXCEPT ![n] = query_add(@, q, r)]
      BY <1>4 DEF NewEntry
    <2>1. DOMAIN cache = Node
      BY <1>0 DEF Shape
    <2>2. /\ \A d \in Node \ {n} : cache'[d] = cache[d]
          /\ DOMAIN cache'[n] = DOMAIN cache[n] \cup {q} /\ cache'[n][q] = r
          /\ \A i \in DOMAIN cache[n] : i # q => cache'[n][i] = cache[n][i]
      BY <2>0, <2>1 DEF query_add
    <2>3. r.vres \in Seq(KeysOf(r.org))
      <3>1. m.qm.key \in KeysOf(m.qm.org)
        BY <1>0 DEF KeyInv, KeyMsg
      <3>2. <<m.qm.key>> \in Seq(KeysOf(m.qm.org)) /\ <<>> \in Seq(KeysOf(m.qm.org))
        BY <3>1
      <3>3. kept(n, m) = <<m.qm.key>> \/ kept(n, m) = <<>>
        BY DEF kept
      <3> QED BY <3>2, <3>3, <2>0, Zenon
    <2>4. KeyInv'
      <3>1. ASSUME NEW d \in Node, NEW i \in DOMAIN cache'[d]
            PROVE  \/ /\ i \in DOMAIN cache[d]
                      /\ cache'[d][i].vres = cache[d][i].vres /\ cache'[d][i].org = cache[d][i].org
                   \/ cache'[d][i].vres \in Seq(KeysOf(cache'[d][i].org))
        <4>1. CASE d # n
          BY <4>1, <2>2
        <4>2. CASE d = n /\ i = q
          BY <4>2, <2>2, <2>3
        <4>3. CASE d = n /\ i # q
          BY <4>3, <2>2
        <4> QED BY <4>1, <4>2, <4>3
      <3> QED BY <3>1, <1>0, <1>2, KeyStep
    <2>5. CASE m.api = FALSE
      <3>1. NoNewApi
        BY <2>2, <2>5, <2>0 DEF NoNewApi
      <3> QED BY SMTT(30), <1>0, <1>2, <3>1, <2>4, TokenQuiet
    <2>6. CASE m.api = TRUE
      <3>1. ApiFind(m) /\ OnlyFind(m)
        BY <1>0, <2>6 DEF ApiFind, TokenInv
      <3>2. m.qm.org = n /\ n \in asked /\ answers[n] = <<>> /\ net[m] = 1
        BY <1>0, <3>1 DEF OnlyFind
      <3>3. \A x \in BagToSet(net') : ApiFind(x) =>
              x \in BagToSet(net) /\ net'[x] = net[x] /\ x.to # n
        <4> SUFFICES ASSUME NEW x \in BagToSet(net'), ApiFind(x)
                     PROVE  x \in BagToSet(net) /\ net'[x] = net[x] /\ x.to # n
          OBVIOUS
        <4>1. x \in BagToSet(net) /\ net'[x] <= net[x] /\ net'[x] \in Nat /\ net'[x] > 0
              /\ m \notin BagToSet(net')
          BY <1>2, <3>1, <3>2 DEF Within, IsABag, BagToSet
        <4>2. net[x] = 1
          BY <4>1, <1>0 DEF TokenInv, OnlyFind
        <4>3. x.to # n
          BY <4>1, <1>0, <3>1 DEF OnlyFind
        <4> QED BY <4>1, <4>2, <4>3
      <3>4. \A i \in DOMAIN cache[n] : ~cache[n][i].api
        BY <1>0, <3>1 DEF TokenInv, OnlyApi
      <3>5. \A x \in BagToSet(net') : ApiFind(x) => x.to # n
        BY <3>3
      <3>6. OnlyApi(n, q)'
        <4>1. cache'[n][q].org = n /\ \A i \in DOMAIN cache'[n] : cache'[n][i].api => i = q
          BY SMTT(30), <2>2, <3>2, <3>4, <2>0
        <4>2. n \in asked' /\ answers'[n] = <<>>
          BY <1>0, <3>2
        <4> QED BY <3>5, <4>1, <4>2 DEF OnlyApi
      <3>7. ASSUME NEW d \in Node, NEW i \in DOMAIN cache'[d], cache'[d][i].api
            PROVE  OnlyApi(d, i)'
        <4>1. CASE d = n
          <5>1. i = q
            BY SMTT(30), <4>1, <3>4, <3>7, <2>2
          <5> QED BY <4>1, <5>1, <3>6
        <4>2. CASE d # n
          <5>1. cache'[d] = cache[d]
            BY <4>2, <2>2
          <5>2. OnlyApi(d, i)
            BY <5>1, <3>7, <1>0 DEF TokenInv
          <5> QED BY SMTT(30), <5>1, <5>2, <3>3, <1>0 DEF OnlyApi
        <4> QED BY <4>1, <4>2
      <3>8. ASSUME NEW x \in BagToSet(net'), ApiFind(x) PROVE OnlyFind(x)'
        BY <1>0, <3>3, <3>8 DEF TokenInv, OnlyFind
      <3>9. IsABag(net')
        BY <1>2 DEF Within
      <3>10. TokenInv'
        BY <1>0, <3>7, <3>8, <3>9 DEF TokenInv, ApiFind
      <3> QED BY <3>10, <2>4
    <2> QED BY <2>5, <2>6, <1>1, Zenon DEF FindShape
  <1> QED BY <1>1, <1>3, <1>4, ForwardEntry, Zenon

(* Reply: the query is removed, and answered if it is of the api. *)
LEMMA AnsReply ==
  ASSUME AnsInv, NEW n \in Node, NEW q \in DOMAIN cache[n], NEW m \in BagToSet(net),
         ~ApiFind(m), NEW vs, vs \in Seq(KeysOf(m.org)), m.org = cache[n][q].org,
         Reply(n, q, m, vs), UNCHANGED <<conf, asked>>
  PROVE  TokenInv' /\ KeyInv'
  <1> DEFINE query == cache[n][q]
             mess == reply_message(vs, m.org)
             rep == ForwardReply(n, query.mode_info, query.with, mess)
             fw == IF vs = <<>> /\ ~conf.reply THEN EmptyBag ELSE rep
  <1>0. TokenInv /\ KeyInv /\ Shape
    BY DEF AnsInv, OwnInv
  <1>1. DOMAIN cache = Node /\ cache' = [cache EXCEPT ![n] = query_remove(@, q)]
    BY <1>0 DEF Reply, Shape
  <1>2. /\ q \notin DOMAIN cache'[n]
        /\ \A d \in Node : \A i \in DOMAIN cache'[d] : i \in DOMAIN cache[d] /\ cache'[d][i] = cache[d][i]
    BY <1>1 DEF query_remove, Restrict
  <1>3. NoNewApi
    BY <1>2 DEF NoNewApi
  <1>4. Within(Taken(m), m)
    BY <1>0, WithinTaken DEF TokenInv
  <1>5. \/ query.api /\ Answer(query.org, vs) /\ net' = Taken(m)
        \/ net' = Taken(m) (+) fw /\ UNCHANGED answers
    BY DEF Reply
  <1>6. CASE query.api /\ Answer(query.org, vs) /\ net' = Taken(m)
    <2>1. OnlyApi(n, q)
      BY <1>0, <1>6 DEF TokenInv
    <2>2. query.org = n /\ n \in asked /\ answers[n] = <<>>
      BY <2>1 DEF OnlyApi
    <2>3. \A x \in BagToSet(net') : ApiFind(x) => x.to # n
      BY <2>1, <1>6, TakenDomain DEF OnlyApi
    <2>4. \A i \in DOMAIN cache'[n] : ~cache'[n][i].api
      BY <2>1, <1>2 DEF OnlyApi
    <2>5. TokenInv'
      BY SMTT(30), <1>0, <1>3, <1>4, <1>6, <2>2, <2>3, <2>4, TokenAnswer
    <2>6. \A d \in Node : answers'[d] = answers[d] \/ answers'[d] \in Seq(Seq(KeysOf(d)))
      BY <1>0, <1>6, <2>2, KeyAnswer
    <2>7. KeyInv'
      BY SMTT(30), <1>0, <1>2, <1>6, <2>6, TakenDomain, KeyStep
    <2> QED BY <2>5, <2>7
  <1>7. CASE net' = Taken(m) (+) fw /\ UNCHANGED answers
    <2>1. mess \in {Store(vs, m.org), NotFound(m.org)}
      BY DEF reply_message
    <2> HIDE DEF mess, query
    <2>2. IsABag(rep) /\ \A x \in BagToSet(rep) : ~ApiFind(x) /\ KeyMsg(x)
      <3>1. PICK mi, with : mi = query.mode_info /\ with = query.with
        OBVIOUS
      <3>2. IsABag(ForwardReply(n, mi, with, mess))
            /\ \A x \in BagToSet(ForwardReply(n, mi, with, mess)) : ~ApiFind(x)
        BY <2>1, ForwardReplyBag
      <3>3. \A x \in BagToSet(ForwardReply(n, mi, with, mess)) : KeyMsg(x)
        BY <2>1, ForwardReplyKeys
      <3> QED BY <3>1, <3>2, <3>3
    <2> HIDE DEF rep
    <2>3. IsABag(fw) /\ \A x \in BagToSet(fw) : ~ApiFind(x) /\ KeyMsg(x)
      BY <2>2, EmptyBagDomain, SetBag DEF EmptyBag
    <2> HIDE DEF fw
    <2>4. Within(net', m)
      BY <1>4, <1>7, <2>3, WithinPlus
    <2>5. TokenInv'
      BY SMTT(30), <1>0, <1>3, <1>7, <2>4, TokenQuiet
    <2>6. BagToSet(net') = BagToSet(Taken(m)) \cup BagToSet(fw)
      BY <1>7, BagUnionDomain
    <2>7. KeyInv'
      BY SMTT(30), <1>0, <1>2, <1>7, <2>3, <2>6, TakenDomain, KeyStep
    <2> QED BY <2>5, <2>7
  <1> QED BY <1>5, <1>6, <1>7

(* A query that keeps its api and org, with values of its key. *)
LEMMA AnsEntry ==
  ASSUME AnsInv, NEW n \in Node, NEW q \in DOMAIN cache[n], NEW m \in BagToSet(net),
         NEW r, r.api = cache[n][q].api, r.org = cache[n][q].org, r.vres \in Seq(KeysOf(r.org)),
         cache' = [cache EXCEPT ![n] = [cache[n] EXCEPT ![q] = r]],
         net' = Taken(m), UNCHANGED <<conf, asked, answers>>
  PROVE  TokenInv' /\ KeyInv'
  <1>0. TokenInv /\ KeyInv /\ Shape /\ DOMAIN cache = Node
    BY DEF AnsInv, OwnInv, Shape
  <1>1. /\ \A d \in Node \ {n} : cache'[d] = cache[d]
        /\ DOMAIN cache'[n] = DOMAIN cache[n] /\ cache'[n][q] = r
        /\ \A i \in DOMAIN cache[n] \ {q} : cache'[n][i] = cache[n][i]
    BY <1>0
  <1>2. ASSUME NEW d \in Node, NEW i \in DOMAIN cache'[d]
        PROVE  /\ i \in DOMAIN cache[d] /\ cache'[d][i].api = cache[d][i].api
               /\ cache'[d][i].org = cache[d][i].org
               /\ cache'[d][i].vres = cache[d][i].vres \/ cache'[d][i].vres \in Seq(KeysOf(cache'[d][i].org))
    <2>1. CASE d # n
      BY <2>1, <1>1
    <2>2. CASE d = n /\ i = q
      BY <2>2, <1>1
    <2>3. CASE d = n /\ i # q
      BY <2>3, <1>1
    <2> QED BY <2>1, <2>2, <2>3
  <1>3. NoNewApi
    BY <1>2 DEF NoNewApi
  <1>4. Within(net', m)
    BY <1>0, WithinTaken DEF TokenInv
  <1>5. TokenInv'
    BY SMTT(30), <1>0, <1>3, <1>4, TokenQuiet
  <1>6. KeyInv'
    BY <1>0, <1>2, TakenDomain, KeyStep
  <1> QED BY <1>5, <1>6

LEMMA AnsStoreFound ==
  ASSUME AnsInv, NEW n \in Node, NEW m \in BagToSet(net), StoreFound(n, m)
  PROVE  TokenInv' /\ KeyInv'
  <1> DEFINE q == m.qid
             query == cache[n][q]
             vres == query.vres \o m.vs
             fw == ForwardReply(n, query.mode_info, query.with, Store(m.vs, m.org))
  <1>0. /\ m.type = "Store" /\ m.to = n /\ q \in DOMAIN cache[n]
        /\ UNCHANGED <<conf, asked>> /\ TokenInv /\ KeyInv /\ Shape /\ OwnInv
    BY DEF StoreFound, AnsInv, OwnInv
  <1>1. query.org = m.org /\ QueryShape(query) /\ ~ApiFind(m)
    BY <1>0 DEF OwnInv, Shape, MessageOwned, Owned, ApiFind
  <1>2. m.vs \in Seq(KeysOf(m.org)) /\ query.vres \in Seq(KeysOf(m.org))
    BY <1>0, <1>1 DEF KeyInv, KeyMsg
  <1>3. vres \in Seq(KeysOf(m.org))
    BY SMTT(30), <1>2
  <1> HIDE DEF vres
  <1>4. \/ net' = Taken(m) (+) fw /\ UNCHANGED <<cache, answers>>
        \/ Reply(n, q, m, vres)
        \/ /\ cache' = [cache EXCEPT ![n][q].vres = vres]
           /\ net' = Taken(m) /\ UNCHANGED answers
    BY DEF StoreFound, vres
  <1>5. CASE net' = Taken(m) (+) fw /\ UNCHANGED <<cache, answers>>
    <2>2. IsABag(fw) /\ \A x \in BagToSet(fw) : ~ApiFind(x) /\ KeyMsg(x)
      <3>1. PICK mess, vs, o : mess = Store(m.vs, m.org) /\ vs = m.vs /\ o = m.org
        OBVIOUS
      <3>2. mess \in {Store(vs, o), NotFound(o)} /\ vs \in Seq(KeysOf(o))
        BY <3>1, <1>2
      <3>3. PICK mi, with : mi = query.mode_info /\ with = query.with
        BY SMTT(30)
      <3> HIDE DEF query
      <3>4. IsABag(ForwardReply(n, mi, with, mess))
            /\ \A x \in BagToSet(ForwardReply(n, mi, with, mess)) : ~ApiFind(x)
        BY <3>2, ForwardReplyBag
      <3>5. \A x \in BagToSet(ForwardReply(n, mi, with, mess)) : KeyMsg(x)
        BY <3>2, ForwardReplyKeys
      <3> QED BY <3>1, <3>3, <3>4, <3>5
    <2> HIDE DEF fw
    <2>3. Within(net', m)
      BY <1>0, <1>5, <2>2, WithinTaken, WithinPlus DEF TokenInv
    <2>4. NoNewApi
      BY <1>5 DEF NoNewApi
    <2>5. TokenInv'
      BY SMTT(30), <1>0, <1>5, <2>3, <2>4, TokenQuiet
    <2>6. BagToSet(net') = BagToSet(Taken(m)) \cup BagToSet(fw)
      BY <1>5, BagUnionDomain
    <2>7. KeyInv'
      BY SMTT(30), <1>0, <1>5, <2>2, <2>6, TakenDomain, KeyStep
    <2> QED BY <2>5, <2>7
  <1>6. CASE Reply(n, q, m, vres)
    BY SMTT(30), <1>0, <1>1, <1>3, <1>6, AnsReply
  <1>7. CASE /\ cache' = [cache EXCEPT ![n][q].vres = vres]
             /\ net' = Taken(m) /\ UNCHANGED answers
    <2> DEFINE r == [query EXCEPT !.vres = vres]
    <2>1. cache' = [cache EXCEPT ![n] = [cache[n] EXCEPT ![q] = r]]
      BY <1>7
    <2>2. r.api = query.api /\ r.org = query.org /\ r.vres = vres
      BY <1>1 DEF QueryShape, QueryFields
    <2> HIDE DEF r
    <2>3. r.vres \in Seq(KeysOf(r.org))
      BY <2>2, <1>1, <1>3
    <2> QED BY <1>0, <1>7, <2>1, <2>2, <2>3, AnsEntry, Zenon
  <1> QED BY SMTT(30), <1>4, <1>5, <1>6, <1>7

LEMMA AnsNotFoundBranch ==
  ASSUME AnsInv, NEW n \in Node, NEW m \in BagToSet(net), NotFoundBranch(n, m)
  PROVE  TokenInv' /\ KeyInv'
  <1> DEFINE q == m.qid
             query == cache[n][q]
  <1>0. /\ m.type = "NotFound" /\ m.to = n /\ q \in DOMAIN cache[n]
        /\ UNCHANGED <<conf, asked>> /\ TokenInv /\ KeyInv /\ Shape /\ OwnInv
    BY DEF NotFoundBranch, AnsInv, OwnInv
  <1>1. query.org = m.org /\ QueryShape(query) /\ ~ApiFind(m)
    BY <1>0 DEF OwnInv, Shape, MessageOwned, Owned, ApiFind
  <1>2. query.vres \in Seq(KeysOf(m.org))
    BY <1>0, <1>1 DEF KeyInv
  <1>3. \/ Reply(n, q, m, query.vres)
        \/ net' = Taken(m) /\ UNCHANGED <<cache, answers>>
        \/ /\ cache' = [cache EXCEPT ![n][q].nb_not_found = @ - 1]
           /\ net' = Taken(m) /\ UNCHANGED answers
    BY DEF NotFoundBranch
  <1>4. CASE Reply(n, q, m, query.vres)
    BY SMTT(30), <1>0, <1>1, <1>2, <1>4, AnsReply
  <1>5. CASE net' = Taken(m) /\ UNCHANGED <<cache, answers>>
    BY <1>0, <1>5, AnsTaken
  <1>6. CASE /\ cache' = [cache EXCEPT ![n][q].nb_not_found = @ - 1]
             /\ net' = Taken(m) /\ UNCHANGED answers
    <2> DEFINE r == [query EXCEPT !.nb_not_found = @ - 1]
    <2>1. cache' = [cache EXCEPT ![n] = [cache[n] EXCEPT ![q] = r]]
      BY <1>6
    <2>2. r.api = query.api /\ r.org = query.org /\ r.vres = query.vres
      BY <1>1 DEF QueryShape, QueryFields
    <2> HIDE DEF r
    <2>3. r.vres \in Seq(KeysOf(r.org))
      BY <2>2, <1>1, <1>2
    <2> QED BY <1>0, <1>6, <2>1, <2>2, <2>3, AnsEntry, Zenon
  <1> QED BY <1>3, <1>4, <1>5, <1>6

LEMMA AnsInit == Init => AnsInv
  <1> SUFFICES ASSUME Init PROVE AnsInv
    OBVIOUS
  <1>1. OwnInv
    BY OwnInit
  <1>2. IsABag(net) /\ BagToSet(net) = {}
    BY EmptyBagDomain, SetBag DEF Init, EmptyBag
  <1>3. TokenInv
    BY <1>2 DEF Init, TokenInv
  <1>4. KeyInv
    BY <1>2 DEF Init, KeyInv
  <1> QED BY <1>1, <1>3, <1>4 DEF AnsInv

LEMMA AnsNext == AnsInv /\ [Next]_vars => AnsInv'
  <1> SUFFICES ASSUME AnsInv, [Next]_vars PROVE AnsInv'
    OBVIOUS
  <1>0. OwnInv'
    BY OwnNext DEF AnsInv
  <1>1. ASSUME NEW n \in Node, Ask(n) PROVE TokenInv' /\ KeyInv'
    BY <1>1, AnsAsk
  <1>2. CASE UNCHANGED <<conf, asked, cache, net, answers>>
    <2>1. TokenInv'
      BY <1>2 DEF AnsInv, TokenInv, OnlyApi, OnlyFind
    <2>2. KeyInv'
      BY <1>2, KeyStep DEF AnsInv
    <2> QED BY <1>0, <2>1, <2>2 DEF AnsInv
  <1>3. ASSUME NEW n \in Node, NEW m \in BagToSet(net), FindEnd(n, m) PROVE TokenInv' /\ KeyInv'
    BY <1>3, AnsFindEnd
  <1>4. ASSUME NEW n \in Node, NEW m \in BagToSet(net), FindForward(n, m) PROVE TokenInv' /\ KeyInv'
    BY SMTT(30), <1>4, AnsFindForward
  <1>5. ASSUME NEW n \in Node, NEW m \in BagToSet(net), StoreFound(n, m) PROVE TokenInv' /\ KeyInv'
    BY <1>5, AnsStoreFound
  <1>6. ASSUME NEW n \in Node, NEW m \in BagToSet(net), NotFoundBranch(n, m) PROVE TokenInv' /\ KeyInv'
    BY <1>6, AnsNotFoundBranch
  <1>7. ASSUME NEW n \in Node, NEW m \in BagToSet(net), Late(n, m) PROVE TokenInv' /\ KeyInv'
    BY <1>7, AnsTaken DEF Late
  <1>8. ASSUME NEW m \in BagToSet(net), Lose(m) PROVE TokenInv' /\ KeyInv'
    BY <1>8, AnsTaken DEF Lose
  <1>9. ASSUME NEW n \in Node, StoreLocally(n) PROVE UNCHANGED <<conf, asked, cache, net, answers>>
    BY <1>9 DEF StoreLocally
  <1>10. UNCHANGED vars => UNCHANGED <<conf, asked, cache, net, answers>>
    BY DEF vars
  <1> QED BY SMTT(30), <1>0, <1>1, <1>2, <1>3, <1>4, <1>5, <1>6, <1>7, <1>8, <1>9, <1>10
          DEF Next, Receive, AnsInv

(* A query of the api is answered at most once, with values of the key that *)
(* was asked for, whatever replies come late, twice or never: it is in one *)
(* place at a time, the message of Api::call, the query cache (whose       *)
(* query_remove comes with the answer) or the answer.                      *)
THEOREM AnswersComeOnce == Spec => []AnsweredOnce
  <1>1. AnsInv => AnsweredOnce
    <2> SUFFICES ASSUME AnsInv, NEW n \in Node
                 PROVE  /\ Len(answers[n]) <= 1
                        /\ \A i \in DOMAIN answers[n] : \A j \in DOMAIN answers[n][i] :
                             <<n, answers[n][i][j]>> \in conf.asks
      BY DEF AnsweredOnce
    <2>1. answers[n] \in Seq(Seq(KeysOf(n))) /\ Len(answers[n]) <= 1
      BY DEF AnsInv, KeyInv, TokenInv
    <2>2. ASSUME NEW i \in DOMAIN answers[n], NEW j \in DOMAIN answers[n][i]
          PROVE  <<n, answers[n][i][j]>> \in conf.asks
      <3>1. answers[n][i] \in Seq(KeysOf(n))
        BY <2>1
      <3>2. answers[n][i][j] \in KeysOf(n)
        BY <3>1
      <3> QED BY <3>2 DEF KeysOf
    <2> QED BY <2>1, <2>2, Zenon
  <1> QED BY <1>1, AnsInit, AnsNext, PTL DEF Spec

=============================================================================
