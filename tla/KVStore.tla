------------------------------- MODULE KVStore -------------------------------
(***************************************************************************)
(* A query for a key over several nodes: the store service of every node   *)
(* (procs/storeprop.rs), the query messages (mydht-base query.rs and       *)
(* rules.rs), the query cache, and what the main loop does with a message  *)
(* the service forwards (route, known destinations, discovery).            *)
(*                                                                         *)
(* The nodes are authenticated, so a command from a peer comes with that   *)
(* peer.  Connections are made and authenticated as in module MainLoop; a  *)
(* message in net is one the main loop gave to a write stream, and, as     *)
(* module WriteStream shows, streams may reorder messages.  The service    *)
(* does not use discovery for queries (discover is false); replies do.     *)
(***************************************************************************)
EXTENDS Naturals, Sequences, FiniteSets, FiniteSetsExt, Functions, Bags

CONSTANTS
  Node,    \* peers
  Key,     \* keys; the value stored under a key is that key
  Confs    \* configurations considered, see conf

None == 0

ASSUME KVStoreAssumption ==
  /\ None \notin Node
  /\ Confs \subseteq
       [mode : {"AProxy", "Asynch", "AMix"}, mix : Nat,  \* QueryConf::mode
        hop_hist : {"none", "hop", "peer"}, nb_hist : Nat, \* QueryConf::hop_hist
        reply : BOOLEAN,                    \* DHTRules::notfoundreply
        storelocal : BOOLEAN,               \* DhtRules::storelocal
        hops : Nat, forw : Nat, res : Nat,  \* nb_hop, nb_forw and nb_res of queries
        links : SUBSET (SUBSET Node),       \* pairs of connected peers
        asks : SUBSET (Node \X Key),        \* api queries, at most one per node
        holds : SUBSET (Node \X Key),       \* values stored at the start
        puts : SUBSET (Node \X Key),        \* values the api stores later
        lossy : BOOLEAN]                    \* a message may be lost
  /\ \A k \in Confs : /\ k.forw \in 1..255 /\ k.hops \in 0..255 /\ k.res > 0
                      /\ \A l \in k.links : Cardinality(l) = 2
                      /\ \A a, b \in k.asks : a[1] = b[1] => a = b

VARIABLES
  conf,     \* rules, query conf and network of the behaviour, fixed
  asked,    \* nodes whose api query was sent
  store,    \* <<n, k>>: node n stores the value of k
  cache,    \* [Node -> query cache: query id -> Query]
  lastid,   \* [Node -> SimpleCacheQuery::lastid]
  net,      \* bag of commands waiting for a store service
  answers,  \* history: [Node -> the results its api query was given, in order]
  found     \* history: [Node -> times a node had the value its api query is for]

vars == <<conf, asked, store, cache, lastid, net, answers, found>>

Init ==
  /\ conf \in Confs
  /\ asked = {}
  /\ store = conf.holds
  /\ cache = [n \in Node |-> <<>>]
  /\ lastid = [n \in Node |-> 0]
  /\ net = EmptyBag
  /\ answers = [n \in Node |-> <<>>]
  /\ found = [n \in Node |-> 0]

-----------------------------------------------------------------------------
(* Query messages, with bytes for rem_hop and nb_forw; org is history: the *)
(* node whose api query this is about.                                     *)
QueryModeMsg == [mode : {"AProxy", "Asynch", "AMix"}, mix : Nat, to : Node \cup {None}, qid : Nat]
QueryMsg ==
  [key : Key, org : Node, mode_info : QueryModeMsg, hop_hist : [nb : Nat, peers : Seq(Node)],
   rem_hop : 0..255, nb_forw : 0..255, nb_res : Nat]

(* A query in the cache: for the api, or for the peer with (QReply). *)
Query ==
  [api : BOOLEAN, mode_info : QueryModeMsg, with : Node \cup {None}, org : Node,
   nb_res : Nat, vres : Seq(Key), nb_not_found : Nat]

query_message(n, k) ==
  [key |-> k, org |-> n,
   mode_info |-> [mode |-> conf.mode, mix |-> conf.mix,
                  to |-> IF conf.mode = "Asynch" THEN n ELSE None, qid |-> 0],
   hop_hist |-> [nb |-> conf.nb_hist,
                 peers |-> IF conf.hop_hist /= "none" /\ conf.nb_hist > 0 THEN <<n>> ELSE <<>>],
   rem_hop |-> conf.hops, nb_forw |-> conf.forw, nb_res |-> conf.res]

(* As a bug: only the asker sets the id of a proxied query. *)
new_hop_same_id(mi, p, q) == IF mi.qid = 0 THEN [mi EXCEPT !.qid = q] ELSE mi

(* The mode a query is forwarded with by p, under the query id q. *)
new_hop(mi, p, q) ==
  CASE mi.mode /= "AMix" -> [mi EXCEPT !.qid = q]
    [] mi.mode = "AMix" /\ mi.mix > 0 -> [mi EXCEPT !.mix = @ - 1, !.qid = q]
    [] OTHER -> [mode |-> "Asynch", mix |-> 0, to |-> p, qid |-> q]

(* As a bug: the results are shared between the peers without rounding up. *)
nb_proxy_rounded_down(qm) ==
  [nb_forw |-> Min({qm.nb_forw, qm.nb_res % 256}), nb_res |-> qm.nb_res \div qm.nb_forw]

(* Peers to ask, and results to ask of each.  nb_res is cast to a byte. *)
nb_proxy_with_nb_res(qm) ==
  [nb_forw |-> Min({qm.nb_forw, qm.nb_res % 256}),
   nb_res |-> IF qm.nb_res > qm.nb_forw THEN qm.nb_res \div qm.nb_forw + 1 ELSE 1]

to_next_hop(qm, p, q) ==
  LET proxy == nb_proxy_with_nb_res(qm)
  IN [qm EXCEPT !.rem_hop = @ - 1, !.mode_info = new_hop(@, p, q),
                !.nb_res = proxy.nb_res, !.nb_forw = proxy.nb_forw]

(* As a bug: the threshold of Asynch queries for every mode. *)
treshold_asynch(qm) == ((qm.nb_forw ^ qm.rem_hop) \div 3) * 2

notfoundtreshold(qm) ==
  LET max == qm.nb_forw ^ qm.rem_hop
  IN IF qm.mode_info.mode /= "Asynch" THEN qm.nb_forw
     ELSE IF max > 2 THEN (max \div 3) * 2 ELSE max

do_store_on_forward(mi) == mi.mode \in {"AProxy", "AMix"}

fwd_dests(mi, with) == IF mi.mode = "Asynch" THEN {mi.to} ELSE {with} \ {None}

(* The history after a route to nb peers. *)
adjust_lastsent_next_hop(h, nb) ==
  LET pop(k) == SubSeq(h.peers, Min({k, Len(h.peers)}) + 1, Len(h.peers))
  IN CASE conf.hop_hist = "none" -> h
       [] conf.hop_hist = "peer" ->
            [h EXCEPT !.peers = IF Len(@) > h.nb THEN pop(Len(@) - h.nb) ELSE @]
       [] conf.hop_hist = "hop" /\ h.nb > 0 -> [h EXCEPT !.nb = @ - 1]
       [] OTHER -> [h EXCEPT !.peers = pop(nb)]

-----------------------------------------------------------------------------
(* What the main loop does with a command forwarded by the service. *)

Connected(n) == {p \in Node \ {n} : {n, p} \in conf.links}

(* The peers, in order, that a route may choose for qm. *)
get_closest(n, qm) ==
  LET free == Connected(n) \ (IF conf.hop_hist = "none" THEN {} ELSE Range(qm.hop_hist.peers))
      nb == Min({qm.nb_forw, Cardinality(free)})
  IN {s \in [1..nb -> free] : IsInjective(s)}

(* A query goes to the peers dests chosen by the route, if it has any to go to. *)
ForwardFind(n, qm, dests) ==
  LET hist == adjust_lastsent_next_hop(
                [qm.hop_hist EXCEPT !.peers = IF conf.hop_hist = "none" THEN @ ELSE @ \o dests],
                Len(dests))
      sent == IF qm.nb_forw > 0 THEN [qm EXCEPT !.hop_hist = hist] ELSE qm
  IN SetToBag({[type |-> "Find", to |-> d, with |-> n, api |-> FALSE,
                qm |-> sent] : d \in Range(dests)})

(* A reply goes to the node of an Asynch query, connected to if need be, or *)
(* to the peer the query came from, which stays in peer_cache.             *)
ForwardReply(n, mi, with, mess) ==
  SetToBag({[mess EXCEPT !.to = d, !.with = n, !.qid = mi.qid] : d \in fwd_dests(mi, with)})

Store(vs, org) == [type |-> "Store", to |-> None, with |-> None, qid |-> 0, vs |-> vs, org |-> org]
NotFound(org) == [type |-> "NotFound", to |-> None, with |-> None, qid |-> 0, vs |-> <<>>, org |-> org]

(* The sequential ids.  With randomids the id is a random number, and takes *)
(* the place of the next one unless it is drawn twice: no code compares ids *)
(* but for equality.                                                        *)
new_id(n) == lastid[n] + 1

query_add(f, q, v) == [x \in DOMAIN f \cup {q} |-> IF x = q THEN v ELSE f[x]]

(* As a bug: the query stays in the cache. *)
query_remove_not(f, q) == f

query_remove(f, q) == Restrict(f, DOMAIN f \ {q})
Answer(n, vs) == answers' = [answers EXCEPT ![n] = Append(@, vs)]

-----------------------------------------------------------------------------
(* The commands of the service: KVStoreService::call. *)

(* SimpleRules::do_store; local: for a query of the api. *)
do_store(local) == local /\ conf.storelocal

Has(n, m) == <<n, m.qm.key>> \in store

(* The query of a Find once the node's own value is counted. *)
counted(n, m) == IF Has(n, m) THEN [m.qm EXCEPT !.nb_res = @ - 1] ELSE m.qm

(* The value of a forwarding node is kept with its query ... *)
kept_never(n, m) == <<>>
kept(n, m) == IF Has(n, m) /\ conf.reply THEN <<m.qm.key>> ELSE <<>>

(* ... or sent at once. *)
sent_too(n, m) == Has(n, m)
sent_at_once(n, m) == Has(n, m) /\ ~conf.reply

(* A query has its results ... *)
enough_and_one(query, vres) == query.nb_res < Len(vres)
enough(query, vres) == query.nb_res = Len(vres)

(* ... or the last NotFound it waits for. *)
last_not_found_late(query) == query.nb_not_found = 0
last_not_found(query) == query.nb_not_found = 1

(* The reply to the peer that asked for vs. *)
always_store(vs, org) == Store(vs, org)
reply_message(vs, org) == IF vs = <<>> THEN NotFound(org) ELSE Store(vs, org)

Ends(qm) == qm.rem_hop = 0 \/ qm.nb_res = 0

Taken(m) == net (-) SetToBag({m})
Given(m) == net (+) SetToBag({m})

Visit(n, m) == found' = IF Has(n, m) THEN [found EXCEPT ![m.qm.org] = @ + 1] ELSE found

(* The api sends the query of node n (Api::call and ProxyGlobal). *)
Ask(n) ==
  \E k \in Key :
    /\ <<n, k>> \in conf.asks
    /\ n \notin asked
    /\ asked' = asked \cup {n}
    /\ net' = Given([type |-> "Find", to |-> n, with |-> None, api |-> TRUE,
                     qm |-> query_message(n, k)])
    /\ UNCHANGED <<conf, store, cache, lastid, answers, found>>

(* The api stores a value at node n, whatever queries are under way. *)
StoreLocally(n) ==
  \E k \in Key :
    /\ <<n, k>> \in conf.puts \ store
    /\ do_store(TRUE)
    /\ store' = store \cup {<<n, k>>}
    /\ UNCHANGED <<conf, asked, cache, lastid, net, answers, found>>

(* A query that goes no further is answered with what the node has. *)
FindEnd(n, m) ==
  LET vs == IF Has(n, m) THEN <<m.qm.key>> ELSE <<>>
      mess == reply_message(vs, m.qm.org)
  IN /\ m.type = "Find" /\ m.to = n
     /\ Ends(counted(n, m))
     /\ Visit(n, m)
     /\ \/ /\ ~Has(n, m) /\ ~conf.reply
           /\ net' = Taken(m)
           /\ UNCHANGED answers
        \/ /\ Has(n, m) \/ conf.reply
           /\ m.api
           /\ Answer(m.qm.org, vs)
           /\ net' = Taken(m)
        \/ /\ Has(n, m) \/ conf.reply
           /\ ~m.api
           /\ net' = Taken(m) (+) ForwardReply(n, m.qm.mode_info, m.with, mess)
           /\ UNCHANGED answers
     /\ UNCHANGED <<conf, asked, store, cache, lastid>>

(* A query that goes further is kept in the cache, except by the nodes an   *)
(* Asynch query goes through.  The value of the node is kept with it, or,  *)
(* when nodes do not reply NotFound, sent at once.                         *)
FindForward(n, m) ==
  LET qm == counted(n, m)
      st == m.api \/ do_store_on_forward(qm.mode_info)
      qid == IF st THEN new_id(n) ELSE qm.mode_info.qid
      next == to_next_hop(qm, n, qid)
      query == [api |-> m.api, mode_info |-> qm.mode_info, with |-> m.with, org |-> qm.org,
                nb_res |-> next.nb_res,
                vres |-> kept(n, m),
                nb_not_found |-> IF conf.reply THEN notfoundtreshold(next) ELSE 0]
      own == IF sent_at_once(n, m)
             THEN ForwardReply(n, qm.mode_info, m.with, Store(<<qm.key>>, qm.org))
             ELSE EmptyBag
  IN /\ m.type = "Find" /\ m.to = n
     /\ ~Ends(qm)
     /\ Visit(n, m)
     /\ lastid' = IF st THEN [lastid EXCEPT ![n] = qid] ELSE lastid
     /\ cache' = IF st THEN [cache EXCEPT ![n] = query_add(@, qid, query)] ELSE cache
     /\ \E dests \in get_closest(n, next) :
          net' = Taken(m) (+) own (+) ForwardFind(n, next, dests)
     /\ UNCHANGED <<conf, asked, store, answers>>

(* Remove the query q of node n, replying vs to whoever asked for it. *)
Reply(n, q, m, vs) ==
  LET query == cache[n][q]
      mess == reply_message(vs, m.org)
  IN /\ cache' = [cache EXCEPT ![n] = query_remove(@, q)]
     /\ \/ /\ query.api
           /\ Answer(query.org, vs)
           /\ net' = Taken(m)
        \/ /\ ~query.api
           /\ net' = Taken(m) (+) IF vs = <<>> /\ ~conf.reply THEN EmptyBag
                                  ELSE ForwardReply(n, query.mode_info, query.with, mess)
           /\ UNCHANGED answers

(* Values for a query of this node. *)
StoreFound(n, m) ==
  LET q == m.qid
      query == cache[n][q]
      vres == query.vres \o m.vs
  IN /\ m.type = "Store" /\ m.to = n
     /\ q \in DOMAIN cache[n]
     /\ store' = IF do_store(query.api) THEN store \cup {<<n, k>> : k \in Range(m.vs)}
                 ELSE store
     /\ \/ /\ ~query.api /\ ~conf.reply
           /\ net' = Taken(m) (+) ForwardReply(n, query.mode_info, query.with, Store(m.vs, m.org))
           /\ UNCHANGED <<cache, answers>>
        \/ /\ query.api \/ conf.reply
           /\ enough(query, vres)
           /\ Reply(n, q, m, vres)
        \/ /\ query.api \/ conf.reply
           /\ ~enough(query, vres)
           /\ cache' = [cache EXCEPT ![n][q].vres = vres]
           /\ net' = Taken(m)
           /\ UNCHANGED answers
     /\ UNCHANGED <<conf, asked, lastid, found>>

(* A branch of a query of this node found nothing. *)
NotFoundBranch(n, m) ==
  LET q == m.qid
      query == cache[n][q]
  IN /\ m.type = "NotFound" /\ m.to = n
     /\ q \in DOMAIN cache[n]
     /\ \/ /\ last_not_found(query)
           /\ Reply(n, q, m, query.vres)
        \/ /\ ~last_not_found(query)
           /\ cache' = IF query.nb_not_found = 0 THEN cache
                       ELSE [cache EXCEPT ![n][q].nb_not_found = @ - 1]
           /\ net' = Taken(m)
           /\ UNCHANGED answers
     /\ UNCHANGED <<conf, asked, store, lastid, found>>

(* A reply to a query that the cache no longer has is ignored. *)
Late(n, m) ==
  /\ m.type \in {"Store", "NotFound"} /\ m.to = n
  /\ m.qid \notin DOMAIN cache[n]
  /\ net' = Taken(m)
  /\ UNCHANGED <<conf, asked, store, cache, lastid, answers, found>>

(* A write stream fails with a message (module WriteStream). *)
Lose(m) ==
  /\ conf.lossy /\ m.with /= None
  /\ net' = Taken(m)
  /\ UNCHANGED <<conf, asked, store, cache, lastid, answers, found>>

Receive(n) ==
  \E m \in BagToSet(net) : \/ FindEnd(n, m)
                           \/ FindForward(n, m)
                           \/ StoreFound(n, m)
                           \/ NotFoundBranch(n, m)
                           \/ Late(n, m)

Next ==
  \/ \E n \in Node : Ask(n) \/ StoreLocally(n) \/ Receive(n)
  \/ \E m \in BagToSet(net) : Lose(m)

Spec == Init /\ [][Next]_vars

(* The api thread sends its query and the thread of the global service runs. *)
FairSpec == Spec /\ \A n \in Node : WF_vars(Ask(n)) /\ WF_vars(Receive(n))

-----------------------------------------------------------------------------
Finds == {m \in BagToSet(net) : m.type = "Find"}
Replies == BagToSet(net) \ Finds

(* The state has its type: queries in caches and commands in channels have *)
(* the fields KVStoreService reads, and ids in a cache were given by it.   *)
(* The unsigned counters of a Find are not zero when it arrives: it asks   *)
(* for at least one result of at least one peer.                           *)
TypeOK ==
  /\ conf \in Confs /\ asked \subseteq Node
  /\ store \subseteq Node \X Key /\ lastid \in [Node -> Nat] /\ found \in [Node -> Nat]
  /\ answers \in [Node -> Seq(Seq(Key))]
  /\ \A n \in Node : \A q \in DOMAIN cache[n] :
       /\ q \in 1..lastid[n]
       /\ cache[n][q] \in Query
  /\ IsABag(net)
  /\ \A m \in Finds : /\ m.to \in Node /\ m.api \in BOOLEAN /\ m.with \in Node \cup {None}
                       /\ m.qm \in QueryMsg /\ m.qm.rem_hop <= conf.hops
                       /\ m.qm.nb_res > 0 /\ m.qm.nb_forw > 0
                       /\ m.api = (m.with = None)
  /\ \A m \in Replies : /\ m.type \in {"Store", "NotFound"} /\ m.to \in Node /\ m.with \in Node
                         /\ m.vs \in Seq(Key) /\ (m.type = "NotFound" <=> m.vs = <<>>)

(* A reply is applied to the query it is about.  Every node numbers its     *)
(* queries from 1, so an id is only good at the node that gave it.         *)
ReplyToOwnQuery ==
  \A m \in Replies : m.qid \in DOMAIN cache[m.to] => cache[m.to][m.qid].org = m.org

(* Parts of the query q of node n that may still reply to it: Finds not     *)
(* yet handled, queries of other nodes waiting for it, replies on the way. *)
Outstanding(n, q) ==
  LET open(m) == IF m.type = "Find" THEN m.with = n /\ m.qm.mode_info.qid = q
                 ELSE m.to = n /\ m.qid = q
      waits(x) == {i \in DOMAIN cache[x] : /\ ~cache[x][i].api /\ cache[x][i].with = n
                                          /\ cache[x][i].mode_info.qid = q}
  IN BagCardinality([m \in {x \in BagToSet(net) : open(x)} |-> net[m]])
       + MapThenSumSet(LAMBDA x : Cardinality(waits(x)), Node)

(* When nodes reply NotFound, a proxied query is never closed by NotFounds  *)
(* while a branch of it still runs: the count of NotFounds it waits for is *)
(* at least the number of branches left.                                   *)
BranchesCounted ==
  (conf.mode = "AProxy" /\ conf.reply) =>
    \A n \in Node : \A q \in DOMAIN cache[n] : Outstanding(n, q) <= cache[n][q].nb_not_found

(* An empty answer is the truth: no node the query went through had the     *)
(* value.  (An Asynch query for several results is closed by part of the   *)
(* NotFounds, and does not promise this.)                                  *)
NotFoundIsHonest ==
  (conf.reply /\ (conf.mode = "AProxy" \/ conf.res = 1)) =>
    \A n \in Node : (answers[n] /= <<>> /\ answers[n][1] = <<>>) => found[n] = 0

(* An api query is answered at most once, whatever comes late: Store,       *)
(* NotFound and the early exits of Find remove the query they answer.  The *)
(* answer holds values of the key that was asked for ...                   *)
AnsweredOnce ==
  \A n \in Node : /\ Len(answers[n]) <= 1
                  /\ \A i \in DOMAIN answers[n] : \A j \in DOMAIN answers[n][i] :
                       <<n, answers[n][i][j]>> \in conf.asks

(* ... and no value more often than it was found.                          *)
AnswerIsFound ==
  /\ AnsweredOnce
  /\ \A n \in Node : \A i \in DOMAIN answers[n] : Len(answers[n][i]) <= found[n]

(* A query for one result always ends if nodes reply NotFound, every node   *)
(* has a peer to ask, and no message is lost.                              *)
Returned ==
  \A n \in Node :
    (/\ n \in asked /\ conf.reply /\ conf.res = 1 /\ conf.hop_hist = "none"
     /\ ~conf.lossy /\ \A x \in Node : Connected(x) /= {})
    ~> (answers[n] /= <<>>)

(* A value found for a query for one result gets to the api that asked,     *)
(* whether nodes reply NotFound or not.                                    *)
FoundIsReturned ==
  \A n \in Node :
    (found[n] > 0 /\ conf.res = 1 /\ ~conf.lossy)
    ~> (\E i \in DOMAIN answers[n] : answers[n][i] /= <<>>)
=============================================================================
