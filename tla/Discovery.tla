------------------------------ MODULE Discovery ------------------------------
(***************************************************************************)
(* What a main loop does about peers it is not connected to                *)
(* (procs/mainloop.rs): it asks the peer store for other destinations of a *)
(* message (Subset, Discover), for the address of a key (WithLocalValue,   *)
(* FoundAddressForKey) and for peers to fill its pool of connections       *)
(* (Subset, TryConnect).  The peer store is a KVStoreService of its own    *)
(* (procs/storeprop.rs); the two exchange commands through two channels,   *)
(* and an answer names neither the message nor the key it is for: the main *)
(* loop takes the oldest entry of a queue.                                 *)
(*                                                                         *)
(* Module MainLoop models connections and authentication in detail.  Here  *)
(* a peer is in the address cache (addr) once a connection is opened to    *)
(* it, and in the peer cache (conn) once it is authenticated.              *)
(***************************************************************************)
EXTENDS Naturals, Sequences, FiniteSets, FiniteSetsExt, SequencesExt

CONSTANTS
  Peer,     \* other peers; a peer's key and its address are both the peer
  Msg,      \* service messages
  None,     \* no message, no address
  Confs     \* configurations considered, see conf

ASSUME DiscoveryAssumption ==
  /\ None \notin Peer \cup Msg
  /\ Confs \subseteq
       [auth : BOOLEAN,            \* AUTH_MODE: FALSE for NoAuth
        known : SUBSET Peer,       \* what the peer store holds at the start
        incoming : SUBSET Peer,    \* peers that connect to this node
        want : [Msg -> [peers : SUBSET Peer, \* ovp: forward to these if connected,
                  kads : SUBSET Peer,        \* okad with an address,
                  keys : SUBSET Peer,        \* okad without one,
                  nb : Nat,                  \* FWConf::nb_for,
                  discover : BOOLEAN]],      \* FWConf::discover
        calls : Nat,               \* MAX_NB_DISCOVER_CALL
        pool : Nat,                \* PEER_POOL_INIT_SIZE
        sizes : SUBSET Nat,        \* pool sizes the global service asks for
        ticks : Nat]               \* bound: expirations of the pool delay

VARIABLES
  conf,   \* MyDHTConf and what is asked of this node, fixed
  node,   \* the MDHTState, see Init
  pc,     \* where the main loop is: "check" the pool, "poll", "run" the commands
  mlq,    \* MainLoopCommands waiting in the channel of the main loop
  psq,    \* KVStoreCommands waiting in the channel of the peer store
  store,  \* peers in the peer store
  todo,   \* commands of the global service that are still to come
  ticks,  \* expirations of the delay so far
  sent    \* history: [Msg -> [Peer -> times written to that peer's stream]]

vars == <<conf, node, pc, mlq, psq, store, todo, ticks, sent>>

Init ==
  /\ conf \in Confs
  /\ node = [addr |-> {}, conn |-> {}, chal |-> {},
             disc |-> <<>>,   \* discover_wait_route, oldest first
             find |-> <<>>,   \* peer_find_address, oldest first
             pool |-> conf.pool, due |-> TRUE, \* peer_next_query is past
             dead |-> FALSE]
  /\ pc = "check" /\ mlq = <<>> /\ psq = <<>>
  /\ store = conf.known
  /\ todo = [t : {"ForwardService"}, m : {m \in Msg :
                LET w == conf.want[m] IN w.nb > 0 \/ w.peers \cup w.kads \cup w.keys /= {}}]
            \cup [t : {"PoolSize"}, nb : conf.sizes]
  /\ ticks = 0
  /\ sent = [m \in Msg |-> [p \in Peer |-> 0]]

-----------------------------------------------------------------------------
(* Commands of the two channels. *)
KVStoreCommand ==
  [t : {"Subset"}, nb : Nat, f : {"peer_discover", "peer_ping", "trusted_peer_ping"}]
  \cup [t : {"WithLocalValue"}, k : Peer] \cup [t : {"StoreLocally"}, p : Peer]

MainLoopSubCommand ==
  [t : {"Discover"}, l : SUBSET Peer] \cup [t : {"FoundAddressForKey"}, ad : Peer \cup {None}]
  \cup [t : {"TryConnect", "TrustedTryConnect"}, p : Peer] \cup [t : {"PoolSize"}, nb : Nat]

Subset(nb, f) == [t |-> "Subset", nb |-> nb, f |-> f]

ChallengeEntry == [p : Peer, m : Msg \cup {None}, out : BOOLEAN]

(* Calls of the main loop, on g = [nd |-> MDHTState, q |-> the channel of  *)
(* the peer store, sent |-> what is written].                              *)
write_stream_send(g, p, m) == [g EXCEPT !.sent[m][p] = @ + 1]

peerstore_send(g, c) == [g EXCEPT !.q = Append(@, c)]

add_challenge(g, p, m, out) == [g EXCEPT !.nd.chal = @ \cup {[p |-> p, m |-> m, out |-> out]}]

connect_with(g, p) == [g EXCEPT !.nd.addr = @ \cup {p}]

(* A peer that is not in the peer cache: use the stream of the address     *)
(* cache, or connect, and with authentication send a ping and keep the     *)
(* message until the pong.                                                 *)
connect_and_send(g, p, m) ==
  CASE p \in g.nd.addr -> write_stream_send(g, p, m)
    [] p \notin g.nd.addr /\ ~conf.auth -> write_stream_send(connect_with(g, p), p, m)
    [] OTHER -> add_challenge(connect_with(g, p), p, m, TRUE)

write_all(g, ps, m) == FoldSet(LAMBDA p, h : write_stream_send(h, p, m), g, ps)

connect_all(g, ps, m) == FoldSet(LAMBDA p, h : connect_and_send(h, p, m), g, ps)

(* Ask the peer store for nb other destinations of m. *)
discover(g, m, nb, rem) ==
  peerstore_send([g EXCEPT !.nd.disc = Append(@, [m |-> m, nb |-> nb, rem |-> rem])],
                 Subset(nb, "peer_discover"))

(* Ask the peer store for the addresses of the keys ks, in some order. *)
find_address(g, ks, m) ==
  FoldSet(LAMBDA k, h : peerstore_send([h EXCEPT !.nd.find = Append(@, [m |-> m, k |-> k])],
                                       [t |-> "WithLocalValue", k |-> k]), g, ks)

update_peer(g, p) ==
  peerstore_send([g EXCEPT !.nd.conn = @ \cup {p}], [t |-> "StoreLocally", p |-> p])

(* The route takes any nb connected peers (InefficientmapBase2). *)
Routes(g, nb) == {r \in SUBSET g.nd.conn : Cardinality(r) = Min({nb, Cardinality(g.nd.conn)})}

(* Mutant of forward: the keys whose address is looked up are counted as   *)
(* missing too.                                                            *)
forward_counts_twice(g, m, peers, kads, keys, nb, r) ==
  LET w  == conf.want[m]
      conn == g.nd.conn
      g1 == write_all(write_all(g, peers \cap conn, m), (kads \cup keys) \cap conn, m)
      g2 == IF w.discover THEN find_address(connect_all(g1, kads \ conn, m), keys \ conn, m) ELSE g1
      g3 == write_all(g2, r, m)
      ok == Cardinality(peers \cap conn) + Cardinality(r) + Cardinality((kads \cup keys) \cap conn)
      missing == Cardinality(peers) + Cardinality(kads \cup keys) + nb - ok
  IN IF missing > 0 /\ w.discover THEN discover(g3, m, missing, conf.calls) ELSE g3

(* ForwardService of m to the connected peers of peers, to kads and keys,  *)
(* and to the nb peers r of the route.  Destinations that are missing are  *)
(* discovered; without discovery the api is told (module Api, Adjust).     *)
forward(g, m, peers, kads, keys, nb, r) ==
  LET w  == conf.want[m]
      conn == g.nd.conn
      g1 == write_all(write_all(g, peers \cap conn, m), (kads \cup keys) \cap conn, m)
      g2 == IF w.discover THEN find_address(connect_all(g1, kads \ conn, m), keys \ conn, m) ELSE g1
      g3 == write_all(g2, r, m)
      ok == Cardinality(peers \cap conn) + Cardinality(r)
            + Cardinality(IF w.discover THEN kads \cup keys ELSE (kads \cup keys) \cap conn)
      missing == Cardinality(peers) + Cardinality(kads \cup keys) + nb - ok
  IN IF missing > 0 /\ w.discover THEN discover(g3, m, missing, conf.calls) ELSE g3

-----------------------------------------------------------------------------
(* The main loop. *)
Now == [nd |-> node, q |-> psq, sent |-> sent]

Becomes(g) == node' = g.nd /\ psq' = g.q /\ sent' = g.sent

cache_l == Cardinality(IF conf.auth THEN node.conn ELSE node.addr)

(* PEER_EXTRA_POOL_RATIO is 0.1 *)
nb_disco == ((node.pool - cache_l) * 11) \div 10

(* Before each poll: below the pool size, query the peer store when the    *)
(* delay is over, and start the delay again in any case.                   *)
Check ==
  /\ pc = "check" /\ ~node.dead
  /\ pc' = "poll"
  /\ node' = IF cache_l < node.pool THEN [node EXCEPT !.due = FALSE] ELSE node
  /\ psq' = IF cache_l < node.pool /\ node.due
            THEN Append(psq, Subset(nb_disco, IF conf.auth THEN "peer_ping" ELSE "trusted_peer_ping"))
            ELSE psq
  /\ UNCHANGED <<conf, mlq, store, todo, ticks, sent>>

(* A command wakes the main loop, which runs all the commands it finds. *)
Received(t) ==
  /\ pc \in {"poll", "run"} /\ ~node.dead
  /\ mlq /= <<>> /\ Head(mlq).t = t
  /\ pc' = "run" /\ mlq' = Tail(mlq)
  /\ UNCHANGED <<conf, store, todo, ticks>>

Drained ==
  /\ pc = "run" /\ mlq = <<>> /\ ~node.dead
  /\ pc' = "check"
  /\ UNCHANGED <<conf, node, mlq, psq, store, todo, ticks, sent>>

ForwardService ==
  /\ Received("ForwardService")
  /\ LET m == Head(mlq).m
         w == conf.want[m]
     IN \E r \in Routes(Now, w.nb) : Becomes(forward(Now, m, w.peers, w.kads, w.keys, w.nb, r))

(* Mutant of FoundAddressForKey: the newest entry is taken. *)
FoundAddressForKey_newest ==
  /\ Received("FoundAddressForKey")
  /\ LET e == Last(node.find)
         w == conf.want[e.m]
         g == [Now EXCEPT !.nd.find = Front(@)]
     IN IF Head(mlq).ad = None THEN Becomes(g)
        ELSE \E r \in Routes(g, w.nb) : Becomes(forward(g, e.m, {}, {Head(mlq).ad}, {}, w.nb, r))

(* The oldest waiting message is forwarded again, with its key, the        *)
(* address and the same FWConf, or dropped when there is no address.       *)
FoundAddressForKey ==
  /\ Received("FoundAddressForKey")
  /\ IF node.find = <<>> THEN Becomes(Now)
     ELSE LET e == Head(node.find)
              w == conf.want[e.m]
              g == [Now EXCEPT !.nd.find = Tail(@)]
          IN IF Head(mlq).ad = None THEN Becomes(g)
             ELSE LET dest == IF e.k \in node.conn THEN e.k ELSE Head(mlq).ad
                  IN \E r \in Routes(g, w.nb) : Becomes(forward(g, e.m, {}, {dest}, {}, w.nb, r))

(* Mutants of Discover: the calls that remain are not counted down; more   *)
(* peers are asked for even when none is missing.                          *)
Discover_without_limit ==
  /\ Received("Discover")
  /\ IF node.disc = <<>> THEN Becomes(Now)
     ELSE LET e == Head(node.disc)
              l == Head(mlq).l \ node.conn
              g == connect_all([Now EXCEPT !.nd.disc = Tail(@)], l, e.m)
              left == e.nb - Cardinality(l)
          IN Becomes(CASE e.nb < Cardinality(Head(mlq).l) -> [Now EXCEPT !.nd.dead = TRUE]
                       [] left > 0 /\ e.rem > 0 -> discover(g, e.m, left, e.rem)
                       [] OTHER -> g)

Discover_for_none ==
  /\ Received("Discover")
  /\ LET e == Head(node.disc)
         l == Head(mlq).l \ node.conn
         g == connect_all([Now EXCEPT !.nd.disc = Tail(@)], l, e.m)
     IN Becomes(IF e.rem > 0 THEN discover(g, e.m, e.nb - Cardinality(l), e.rem - 1) ELSE g)

(* Peers to send the oldest waiting message to: those that are connected   *)
(* are skipped, and as long as calls remain others are asked for.          *)
Discover ==
  /\ Received("Discover")
  /\ IF node.disc = <<>> THEN Becomes(Now)
     ELSE LET e == Head(node.disc)
              l == Head(mlq).l \ node.conn
              g == connect_all([Now EXCEPT !.nd.disc = Tail(@)], l, e.m)
              left == e.nb - Cardinality(l)
          IN Becomes(CASE e.nb < Cardinality(Head(mlq).l) -> [Now EXCEPT !.nd.dead = TRUE]
                       [] left > 0 /\ e.rem > 0 -> discover(g, e.m, left, e.rem - 1)
                       [] OTHER -> g)

(* TryConnect and TrustedTryConnect of a peer of the pool. *)
TryConnect ==
  /\ Received("TryConnect") \/ Received("TrustedTryConnect")
  /\ LET p == Head(mlq).p
         g == connect_with(Now, p)
     IN Becomes(CASE p \in node.conn \cup node.addr -> Now
                  [] p \notin node.conn \cup node.addr /\ conf.auth -> add_challenge(g, p, None, TRUE)
                  [] OTHER -> g)

PoolSize ==
  /\ Received("PoolSize")
  /\ LET nb == Head(mlq).nb
     IN node' = IF nb <= node.pool THEN node
                ELSE [node EXCEPT !.pool = nb, !.due = @ \/ cache_l < nb]
  /\ UNCHANGED <<psq, sent>>

(* The peer answered challenge e: it is connected, and gets the message    *)
(* that waited for it.                                                     *)
NewPeerUncheckedChallenge ==
  /\ Received("NewPeerUncheckedChallenge")
  /\ LET e == Head(mlq).e
         g == update_peer([Now EXCEPT !.nd.chal = @ \ {e}], e.p)
     IN Becomes(IF e.m = None THEN g ELSE write_stream_send(g, e.p, e.m))

-----------------------------------------------------------------------------
(* The peer store. *)

(* get_next_vals: nb peers, or all of them. *)
get_next_vals(nb) == {s \in SUBSET store : Cardinality(s) = Min({nb, Cardinality(store)})}

(* A GlobalReply is NoRep, one command for the main loop, or Mult. *)
NoRep == [r |-> "NoRep"]
ToMainLoop(c) == [r |-> "MainLoop", c |-> c]

peer_ping(s, t) == [r |-> "Mult", l |-> SetToSeq({ToMainLoop(c) : c \in [t : {t}, p : s]})]

(* What peer_discover, peer_ping and trusted_peer_ping make of the peers:  *)
(* nothing of an empty list.                                               *)
subset_reply(f, s) ==
  CASE s = {} -> NoRep
    [] s /= {} /\ f = "peer_discover" -> ToMainLoop([t |-> "Discover", l |-> s])
    [] s /= {} /\ f = "peer_ping" -> peer_ping(s, "TryConnect")
    [] OTHER -> peer_ping(s, "TrustedTryConnect")

peer_forward_ka(ad) == ToMainLoop([t |-> "FoundAddressForKey", ad |-> ad])

(* OptPeerGlobalDest::send, to the channel q of the main loop; the replies *)
(* of a Mult are sent in order.                                            *)
send(q, reply) ==
  CASE reply.r = "NoRep" -> q
    [] reply.r = "MainLoop" -> Append(q, reply.c)
    [] OTHER -> q \o [i \in DOMAIN reply.l |-> reply.l[i].c]

PeerStore ==
  /\ psq /= <<>> /\ psq' = Tail(psq)
  /\ LET c == Head(psq)
     IN \/ c.t = "Subset" /\ store' = store
           /\ \E s \in get_next_vals(c.nb) : mlq' = send(mlq, subset_reply(c.f, s))
        \/ c.t = "WithLocalValue" /\ store' = store
           /\ mlq' = send(mlq, peer_forward_ka(IF c.k \in store THEN c.k ELSE None))
        \/ c.t = "StoreLocally" /\ store' = store \cup {c.p} /\ mlq' = send(mlq, NoRep)
  /\ UNCHANGED <<conf, node, pc, todo, ticks, sent>>

-----------------------------------------------------------------------------
(* The global service sends a command. *)
Command ==
  /\ \E c \in todo : todo' = todo \ {c} /\ mlq' = Append(mlq, c)
  /\ UNCHANGED <<conf, node, pc, psq, store, ticks, sent>>

(* A peer connects and its ping is answered with a challenge, on a         *)
(* connection opened for it when the transport reads and writes on         *)
(* different ones.                                                         *)
Incoming(p) ==
  /\ conf.auth /\ p \in conf.incoming /\ ~node.dead
  /\ p \notin node.conn /\ \A e \in node.chal : e.p /= p
  /\ \E g \in {Now, connect_with(Now, p)} : Becomes(add_challenge(g, p, None, FALSE))
  /\ UNCHANGED <<conf, pc, mlq, store, todo, ticks>>

(* A read service has read the pong for challenge e. *)
Pong(e) ==
  /\ e \in node.chal
  /\ \A i \in DOMAIN mlq : mlq[i].t = "NewPeerUncheckedChallenge" => mlq[i].e /= e
  /\ mlq' = Append(mlq, [t |-> "NewPeerUncheckedChallenge", e |-> e])
  /\ UNCHANGED <<conf, node, pc, psq, store, todo, ticks, sent>>

(* PEER_POOL_DELAY_MS has passed since the last check. *)
Tick ==
  /\ ticks < conf.ticks /\ ticks' = ticks + 1
  /\ ~node.due /\ node' = [node EXCEPT !.due = TRUE]
  /\ UNCHANGED <<conf, pc, mlq, psq, store, todo, sent>>

(* An event of some stream wakes the main loop (poll has no timeout). *)
Wake ==
  /\ pc = "poll" /\ mlq = <<>> /\ ~node.dead /\ pc' = "check"
  /\ UNCHANGED <<conf, node, mlq, psq, store, todo, ticks, sent>>

Loop ==
  \/ Check \/ Drained \/ ForwardService \/ FoundAddressForKey \/ Discover
  \/ TryConnect \/ PoolSize \/ NewPeerUncheckedChallenge

Next ==
  \/ Loop \/ PeerStore \/ Command \/ Tick \/ Wake
  \/ \E p \in Peer : Incoming(p)
  \/ \E e \in node.chal : Pong(e)

(* The main loop and the peer store keep running; peers need not answer.   *)
Spec == Init /\ [][Next]_vars /\ WF_vars(Loop) /\ WF_vars(PeerStore)

-----------------------------------------------------------------------------
Asked(m) == LET w == conf.want[m]
            IN Cardinality(w.peers) + Cardinality(w.kads) + Cardinality(w.keys) + w.nb

TypeOK ==
  /\ conf \in Confs
  /\ node.addr \in SUBSET Peer /\ node.conn \in SUBSET Peer
  /\ node.chal \in SUBSET ChallengeEntry
  /\ \A i \in DOMAIN node.disc :
       node.disc[i].nb \in 1..Asked(node.disc[i].m) /\ node.disc[i].rem \in 0..conf.calls
  /\ node.due \in BOOLEAN /\ node.dead \in BOOLEAN /\ node.pool \in Nat
  /\ pc \in {"check", "poll", "run"}
  /\ \A i \in DOMAIN psq : psq[i] \in KVStoreCommand
  /\ \A i \in DOMAIN mlq : \/ mlq[i] \in MainLoopSubCommand
                           \/ mlq[i].t \in {"ForwardService", "NewPeerUncheckedChallenge"}
  /\ store \in SUBSET Peer /\ ticks \in 0..conf.ticks
  /\ sent \in [Msg -> [Peer -> Nat]]

Waiting(q, m) == {i \in DOMAIN q : q[i].m = m}

(* A message goes to no more peers than its ForwardService asked for: what *)
(* is written, what waits for a pong, for an address or for a discovery    *)
(* never exceeds it, whatever answers the peer store gives in between.     *)
FanOut ==
  \A m \in Msg :
    MapThenSumSet(LAMBDA p : sent[m][p], Peer)
      + Cardinality({e \in node.chal : e.m = m})
      + Cardinality(Waiting(node.find, m))
      + MapThenSumSet(LAMBDA i : node.disc[i].nb, Waiting(node.disc, m)) <= Asked(m)

(* The answers that name nothing meet the entries they are for: the        *)
(* addresses under way, then the lookups not yet answered, are in the      *)
(* order of peer_find_address; the lists of peers under way, then the      *)
(* subsets not yet taken, are in the order of discover_wait_route.         *)
QueuesMatched ==
  LET found == SelectSeq(mlq, LAMBDA c : c.t = "FoundAddressForKey")
      looked == SelectSeq(psq, LAMBDA c : c.t = "WithLocalValue")
      lists == SelectSeq(mlq, LAMBDA c : c.t = "Discover")
      asked == SelectSeq(psq, LAMBDA c : c.t = "Subset" /\ c.f = "peer_discover")
  IN /\ Len(node.find) = Len(found) + Len(looked)
     /\ \A i \in DOMAIN found : found[i].ad \in {node.find[i].k, None}
     /\ \A i \in DOMAIN looked : looked[i].k = node.find[Len(found) + i].k
     /\ Len(node.disc) = Len(lists) + Len(asked)
     /\ \A i \in DOMAIN lists : Cardinality(lists[i].l) <= node.disc[i].nb
     /\ \A i \in DOMAIN asked : asked[i].nb = node.disc[Len(lists) + i].nb

(* No message waits for ever in discover_wait_route or peer_find_address:  *)
(* discovery gives up after MAX_NB_DISCOVER_CALL more subsets.             *)
Settles ==
  \A m \in Msg : (Waiting(node.disc, m) \cup Waiting(node.find, m) /= {})
                 ~> (Waiting(node.disc, m) \cup Waiting(node.find, m) = {})

(* The assertion of the main loop on Discover, assert!(nb_for >=           *)
(* lkad.len()), never fails.                                               *)
DiscoverAsserted == ~node.dead

=============================================================================
