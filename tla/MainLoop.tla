------------------------------- MODULE MainLoop -------------------------------
(***************************************************************************)
(* The main loops of several nodes opening, authenticating and replacing   *)
(* connections with each other (procs/mainloop.rs), together with the read *)
(* services (procs/server2.rs), the write services (procs/client2.rs) and  *)
(* the synchronous connection services (procs/synch_transport.rs).         *)
(*                                                                         *)
(* A handler of the main loop may make several calls that change its state *)
(* (connect, register, add to caches, send).  Each call is an operator     *)
(* from a state g = [nd |-> the MDHTState of the node, st |-> all streams] *)
(* to the state after the call, and a handler composes them, so that a     *)
(* handler is one step.                                                    *)
(*                                                                         *)
(* Every write service here runs without iteration limit (SEND_NB_ITER 0); *)
(* module WriteStream covers limits, write errors and write-once streams.  *)
(***************************************************************************)
EXTENDS Naturals, Sequences, FiniteSets, FiniteSetsExt

CONSTANTS
  Node,       \* peers; a peer's key and its address are both its Node
  Msg,        \* service messages; each is forwarded at most once
  Confs,      \* configurations considered, see conf
  MaxToken    \* bound: slab entries of one node

ASSUME MainLoopAssumption ==
  /\ Confs \subseteq
       [auth : BOOLEAN,    \* AUTH_MODE: FALSE for NoAuth, TRUE for Public
        mult : BOOLEAN,    \* multiplexed transport: both halves on one connection
        synch : BOOLEAN,   \* blocking transport: connects in services
        fail : BOOLEAN,    \* a SynchConnect service may fail to connect
        late : BOOLEAN,    \* a stream may become writable again at any time
        accepts : SUBSET {"prio", "unchecked", "refuse"}, \* PeerMgmtMeths::accept
        attempts : SUBSET (Node \X Node), \* connections the api may ask for
        ways : SUBSET {"connected", "discover", "address", "once"}, \* forwards,
        msgs : SUBSET Msg, links : SUBSET (Node \X Node), \* of what, from whom to whom
        max : Nat]         \* bound: streams ever created
  /\ \A k \in Confs : /\ \A l \in k.attempts \cup k.links : l[1] /= l[2]
                      /\ k.synch => "unchecked" \notin k.accepts
  /\ MaxToken \in Nat /\ 0 \notin Msg

None == 0
Token == 1..MaxToken
Vacant == [kind |-> "none", s |-> None, os |-> None]

(* What ended a main loop: a panic on a refused peer, on an unknown        *)
(* challenge or on a token that the slab does not know, an error sending   *)
(* on a token of the address cache, or an error sending on another token.  *)
Dead == {"no", "refused", "challenge", "polled", "addressed", "error"}

VARIABLES
  conf,     \* MyDHTConf and what the api asks of the nodes, fixed
  node,     \* [Node -> MDHTState]
  streams,  \* unidirectional streams, in creation order
  mlq,      \* [Node -> MainLoopCommands waiting in the main loop's channel]
  jobs,     \* connections being made by SynchConnect services
  nchal,    \* challenges drawn so far; a challenge is a fresh number
  fwd,      \* history: [Msg -> <<from, to>> of its forward, or <<>>]
  got       \* history: [Msg -> nodes whose services received it, in order]

vars == <<conf, node, streams, mlq, jobs, nchal, fwd, got>>

Init ==
  /\ conf \in Confs
  /\ node = [n \in Node |->
       [slab |-> [t \in Token |-> Vacant],
        free |-> [i \in Token |-> i],
        addr |-> [m \in Node |-> None], peer |-> [m \in Node |-> None],
        chal |-> {}, dead |-> "no"]]
  /\ streams = <<>> /\ mlq = [n \in Node |-> <<>>] /\ jobs = {} /\ nchal = 0
  /\ fwd = [x \in Msg |-> <<>>] /\ got = [x \in Msg |-> <<>>]

-----------------------------------------------------------------------------
(* Slab.  free is the free list of the slab: released indices first, then  *)
(* the never used ones.                                                    *)
WriteKinds == {"WriteConnectSynch", "WriteStream", "WriteConnected", "WriteSpawned"}

newToken(g) == Head(g.nd.free)

slab_insert(g, kind, s, os) ==
  [g EXCEPT !.nd.slab[newToken(g)] = [kind |-> kind, s |-> s, os |-> os],
            !.nd.free = Tail(@)]

(* Mutant of slab_remove: the index is never free again. *)
slab_remove_leaks(g, t) ==
  IF t = None THEN g ELSE [g EXCEPT !.nd.slab[t] = Vacant]

slab_remove(g, t) ==
  IF t = None \/ g.nd.slab[t].kind = "none" THEN g
  ELSE [g EXCEPT !.nd.slab[t] = Vacant, !.nd.free = <<t>> \o @]

set_os(g, t, os) ==
  IF g.nd.slab[t].kind = "none" THEN g ELSE [g EXCEPT !.nd.slab[t].os = os]

(* Streams.  once: of a ForwardServiceOnce; open: the connection exists;   *)
(* acc: the destination's listener has returned it; tok: the token its     *)
(* write half is registered with; run, with, buff: its write service is    *)
(* spawned, knows its peer, holds these commands; auth, prio: its read     *)
(* service has read a pong, has accepted the peer.                         *)
NewStream(from, to, open, acc, once) ==
  [from |-> from, to |-> to, pair |-> None, once |-> once, open |-> open, acc |-> acc,
   tok |-> None, chan |-> <<>>, run |-> FALSE, with |-> FALSE, buff |-> <<>>,
   wire |-> <<>>, auth |-> ~conf.auth, prio |-> FALSE]

(* A multiplexed connection is two streams; only the first is accepted.    *)
NewConnection(st, n, m, open, once) ==
  IF ~conf.mult THEN Append(st, NewStream(n, m, open, FALSE, once))
  ELSE LET k == Len(st) IN
       st \o << [NewStream(n, m, open, FALSE, once) EXCEPT !.pair = k + 2],
                [NewStream(m, n, open, TRUE, FALSE) EXCEPT !.pair = k + 1] >>

-----------------------------------------------------------------------------
(* Calls of the main loop. *)

(* register_state_r: a stream that cannot be registered is read at once.   *)
register_state_r(g, s, os) ==
  slab_insert(g, IF conf.synch THEN "ReadSpawned" ELSE "ReadStream", s, os)

register_state_w(g, s, has_connect, os) ==
  slab_insert(IF conf.synch THEN g ELSE [g EXCEPT !.st[s].tok = newToken(g)],
              IF conf.synch \/ has_connect THEN "WriteConnected" ELSE "WriteStream", s, os)

(* Mutant of connect_with2: the cached token is not the one of the entry. *)
connect_with2_wrong_token(g, n, m, not_once) ==
  LET g1 == [g EXCEPT !.st = NewConnection(@, n, m, ~conf.synch, ~not_once)]
      g2 == register_state_w(g1, Len(g.st) + 1, FALSE, None)
  IN [g2 EXCEPT !.nd.addr[m] = newToken(g2)]

(* connect_with2: the write token is newToken(g).  With a synchronous      *)
(* transport the stream opens when the SynchConnect service succeeds.      *)
connect_with2(g, n, m, not_once) ==
  LET w  == newToken(g)
      s  == Len(g.st) + 1
      g1 == [g EXCEPT !.st = NewConnection(@, n, m, ~conf.synch, ~not_once)]
      g2 == IF conf.synch THEN slab_insert(g1, "WriteConnectSynch", s, None)
            ELSE register_state_w(g1, s, FALSE, None)
      g3 == IF conf.mult /\ ~conf.synch /\ not_once
            THEN set_os(register_state_r(g2, s + 1, w), w, newToken(g2))
            ELSE g2
  IN IF not_once THEN [g3 EXCEPT !.nd.addr[m] = w] ELSE g3

(* write_stream_send on token t: an error leaves call_inner_loop and ends  *)
(* the main loop.                                                          *)
write_stream_send(g, t, c) ==
  LET e  == g.nd.slab[t]
      g1 == [g EXCEPT !.st[e.s].chan = Append(@, c)]
  IN CASE e.kind \notin WriteKinds -> [g EXCEPT !.nd.dead = "error"]
       [] e.kind = "WriteConnected" ->
            [g1 EXCEPT !.nd.slab[t].kind = "WriteSpawned", !.st[e.s].run = TRUE]
       [] OTHER -> g1

(* Mutant of flush: the command received is not sent. *)
flush_drops(g, t) ==
  LET q == g.st[g.nd.slab[t].s].chan IN
  [g EXCEPT !.nd.slab[t].kind = "WriteConnected",
            !.st[g.nd.slab[t].s].chan = IF q = <<>> THEN q ELSE Tail(q)]

(* The token event on a pending write stream, and ConnectedW: the oldest   *)
(* command goes through write_stream_send again.                           *)
flush(g, t) ==
  LET s  == g.nd.slab[t].s
      q  == g.st[s].chan
      g1 == [g EXCEPT !.nd.slab[t].kind = "WriteConnected"]
  IN IF q = <<>> THEN g1
     ELSE write_stream_send([g1 EXCEPT !.st[s].chan = Tail(q)], t, Head(q))

(* Mutants of update_peer: the token to remove is read after the update;   *)
(* the old entry stays.                                                    *)
update_peer_removes_new(g, p, w) ==
  slab_remove([g EXCEPT !.nd.peer[p] = w], w)

update_peer_keeps_old(g, p, w) == [g EXCEPT !.nd.peer[p] = w]

(* update_peer: the new entry replaces the old one, then the old write     *)
(* entry leaves the slab; the service spawned on it keeps its stream.      *)
update_peer(g, p, w) ==
  slab_remove([g EXCEPT !.nd.peer[p] = w], g.nd.peer[p])

(* Draw challenge c for the stream of token w and remember what to send    *)
(* once the peer has answered it.                                          *)
add_challenge(g, c, w, next) ==
  [g EXCEPT !.nd.chal = @ \cup {[c |-> c, write |-> w, next |-> next]}]

Ping(c) == [t |-> "ping", c |-> c]
Pong(c, next) == [t |-> "pong", c |-> c, next |-> next]
Service(x) == [t |-> "svc", x |-> x]

-----------------------------------------------------------------------------
(* A handler of node n runs on state Now(n) and ends in the state g.       *)
Now(n) == [nd |-> node[n], st |-> streams]

Becomes(n, g) == node' = [node EXCEPT ![n] = g.nd] /\ streams' = g.st /\ UNCHANGED conf

Alive(n) == node[n].dead = "no"

CanConnect(n) ==
  /\ Len(node[n].free) >= 2
  /\ Len(streams) + (IF conf.mult THEN 2 ELSE 1) <= conf.max

(* connect_with, then draw a challenge and send it in a ping (TryConnect,  *)
(* TrustedTryConnect, ForwardService, ForwardServiceOnce).  Without        *)
(* authentication the message itself follows the connection.               *)
connect_and_ping(n, m, next, not_once) ==
  LET w  == newToken(Now(n))
      g1 == connect_with2(Now(n), n, m, not_once)
      c  == nchal + 1
  IN /\ CanConnect(n)
     /\ jobs' = IF conf.synch THEN jobs \cup {[n |-> n, t |-> w, s |-> Len(streams) + 1]} ELSE jobs
     /\ nchal' = IF conf.auth THEN c ELSE nchal
     /\ Becomes(n, CASE conf.auth -> write_stream_send(add_challenge(g1, c, w, next), w, Ping(c))
                     [] ~conf.auth /\ next = None -> g1
                     [] OTHER -> write_stream_send(g1, w, Service(next)))

(* MainLoopCommand::TryConnect, and TrustedTryConnect with authentication. *)
TryConnect(n, m) ==
  /\ Alive(n) /\ <<n, m>> \in conf.attempts
  /\ node[n].addr[m] = None
  /\ connect_and_ping(n, m, None, TRUE)
  /\ UNCHANGED <<mlq, fwd, got>>

(* TrustedTryConnect without authentication connects again even when the   *)
(* address is cached: the new stream replaces the cached one.              *)
TrustedTryConnect(n, m) ==
  /\ Alive(n) /\ <<n, m>> \in conf.attempts /\ ~conf.auth
  /\ connect_and_ping(n, m, None, TRUE)
  /\ UNCHANGED <<mlq, fwd, got>>

(* MainLoopCommand::ForwardService for one destination: a connected peer   *)
(* ("connected": a peer of ovp, or FWConf.discover false), a (key, address)*)
(* pair ("discover"), or an address alone ("address").                     *)
ForwardService(n, m, x, way) ==
  /\ Alive(n) /\ <<n, m>> \in conf.links /\ x \in conf.msgs /\ fwd[x] = <<>> /\ way \in conf.ways \ {"once"}
  /\ \/ /\ way /= "address" /\ node[n].peer[m] /= None
        /\ Becomes(n, write_stream_send(Now(n), node[n].peer[m], Service(x)))
        /\ UNCHANGED <<jobs, nchal>>
     \/ /\ way = "address" \/ (way = "discover" /\ node[n].peer[m] = None)
        /\ \/ /\ node[n].addr[m] /= None
              /\ LET g == write_stream_send(Now(n), node[n].addr[m], Service(x)) IN
                 Becomes(n, IF g.nd.dead = "no" THEN g ELSE [g EXCEPT !.nd.dead = "addressed"])
              /\ UNCHANGED <<jobs, nchal>>
           \/ node[n].addr[m] = None /\ connect_and_ping(n, m, x, TRUE)
  /\ fwd' = [fwd EXCEPT ![x] = <<n, m>>]
  /\ UNCHANGED <<mlq, got>>

(* MainLoopCommand::ForwardServiceOnce: a stream of its own.               *)
ForwardServiceOnce(n, m, x) ==
  /\ Alive(n) /\ <<n, m>> \in conf.links /\ x \in conf.msgs /\ fwd[x] = <<>> /\ "once" \in conf.ways
  /\ fwd' = [fwd EXCEPT ![x] = <<n, m>>]
  /\ connect_and_ping(n, m, x, FALSE)
  /\ UNCHANGED <<mlq, got>>

-----------------------------------------------------------------------------
(* Commands received from the channel of the main loop.                    *)
Received(n, t) ==
  /\ Alive(n) /\ mlq[n] /= <<>>
  /\ Head(mlq[n]).t = t
  /\ mlq' = [mlq EXCEPT ![n] = Tail(@)]

Send(n, c) == mlq' = [mlq EXCEPT ![n] = Append(@, c)]

(* Mutant of NewPeerChallenge: answer on the stream already open to the    *)
(* peer, found in the address cache.                                       *)
NewPeerChallenge_uses_address(n) ==
  LET cmd == Head(mlq[n])
      old == node[n].addr[cmd.p]
      w == IF old = None THEN newToken(Now(n)) ELSE old
      g == IF old = None THEN connect_with2(Now(n), n, cmd.p, TRUE) ELSE Now(n)
      c == nchal + 1
  IN /\ Received(n, "NewPeerChallenge")
     /\ nchal' = c
     /\ Becomes(n, write_stream_send(add_challenge(g, c, w, None), w, Pong(cmd.c, c)))
     /\ UNCHANGED <<jobs, fwd, got>>

(* A ping was read: answer it, with a challenge of our own, on the write   *)
(* half of the connection or else on a new connection.  Nothing happens    *)
(* when the read entry has left the slab.                                  *)
NewPeerChallenge(n) ==
  LET cmd == Head(mlq[n])
      gone == node[n].slab[cmd.r].kind = "none"
      wtok == node[n].slab[cmd.r].os
      fresh == ~gone /\ wtok = None
      w == IF fresh THEN newToken(Now(n)) ELSE wtok
      g == IF fresh THEN connect_with2(Now(n), n, cmd.p, TRUE) ELSE Now(n)
      c == nchal + 1
  IN /\ Received(n, "NewPeerChallenge")
     /\ fresh => CanConnect(n)
     /\ jobs' = IF fresh /\ conf.synch
                THEN jobs \cup {[n |-> n, t |-> w, s |-> Len(streams) + 1]} ELSE jobs
     /\ nchal' = IF gone THEN nchal ELSE c
     /\ Becomes(n, IF gone THEN g
                   ELSE write_stream_send(add_challenge(g, c, w, None), w, Pong(cmd.c, c)))
     /\ UNCHANGED <<fwd, got>>

(* Mutant of NewPeerUncheckedChallenge: the peer's challenge is not        *)
(* answered.                                                               *)
NewPeerUncheckedChallenge_silent(n) ==
  LET cmd == Head(mlq[n])
      known == {e \in node[n].chal : e.c = cmd.c}
      e == CHOOSE e \in known : TRUE
  IN /\ Received(n, "NewPeerUncheckedChallenge")
     /\ Becomes(n, update_peer([Now(n) EXCEPT !.nd.chal = @ \ known], cmd.p, e.write))
     /\ UNCHANGED <<jobs, nchal, fwd, got>>

(* A pong was read.  An unknown challenge panics the main loop.            *)
NewPeerUncheckedChallenge(n) ==
  LET cmd == Head(mlq[n])
      known == {e \in node[n].chal : e.c = cmd.c}
      e == CHOOSE e \in known : TRUE
      g1 == update_peer([Now(n) EXCEPT !.nd.chal = @ \ known], cmd.p, e.write)
      g2 == IF cmd.next = None THEN g1
            ELSE write_stream_send(g1, e.write, Pong(cmd.next, None))
      g3 == IF e.next = None \/ g2.nd.dead /= "no" THEN g2
            ELSE write_stream_send(g2, e.write, Service(e.next))
  IN /\ Received(n, "NewPeerUncheckedChallenge")
     /\ Becomes(n, IF known = {} THEN [Now(n) EXCEPT !.nd.dead = "challenge"] ELSE g3)
     /\ UNCHANGED <<jobs, nchal, fwd, got>>

(* Not written yet in the code: a panic. *)
RejectPeer(n) ==
  /\ Received(n, "RejectPeer")
  /\ Becomes(n, [Now(n) EXCEPT !.nd.dead = "refused"])
  /\ UNCHANGED <<jobs, nchal, fwd, got>>

(* An incoming connection: the LISTENER event, or ConnectedR.  The write   *)
(* half of a multiplexed connection is already connected.                  *)
accepted(g, s) ==
  LET r == newToken(g)
      g1 == register_state_r([g EXCEPT !.st[s].acc = TRUE], s, None)
  IN IF ~conf.mult THEN g1
     ELSE set_os(register_state_w(g1, g.st[s].pair, TRUE, r), r, newToken(g1))

accept(n, s) ==
  /\ ~conf.synch /\ Alive(n) /\ Len(node[n].free) >= 2
  /\ streams[s].to = n /\ streams[s].open /\ ~streams[s].acc
  /\ Becomes(n, accepted(Now(n), s))
  /\ UNCHANGED <<mlq, jobs, nchal, fwd, got>>

ConnectedR(n) ==
  /\ Received(n, "ConnectedR") /\ Len(node[n].free) >= 2
  /\ Becomes(n, accepted(Now(n), Head(mlq[n]).s))
  /\ UNCHANGED <<jobs, nchal, fwd, got>>

(* A SynchConnect service has connected the stream s for token t.          *)
ConnectedW(n) ==
  LET cmd == Head(mlq[n])
      g == IF ~conf.mult THEN Now(n)
           ELSE set_os(register_state_r(Now(n), cmd.s + 1, cmd.w), cmd.w, newToken(Now(n)))
  IN /\ Received(n, "ConnectedW") /\ Len(node[n].free) >= 2
     /\ Becomes(n, IF g.nd.slab[cmd.w].kind = "WriteConnectSynch" THEN flush(g, cmd.w) ELSE g)
     /\ UNCHANGED <<jobs, nchal, fwd, got>>

(* The entry and the other half leave the slab, the caches keep the token. *)
FailConnect(n) ==
  LET w == Head(mlq[n]).w IN
  /\ Received(n, "FailConnect")
  /\ Becomes(n, slab_remove(slab_remove(Now(n), w), node[n].slab[w].os))
  /\ UNCHANGED <<jobs, nchal, fwd, got>>

-----------------------------------------------------------------------------
(* Token events of the poll: a service is spawned or unyielded, and a      *)
(* token that the slab does not know is a panic.                           *)
token_event(g, t) ==
  CASE g.nd.slab[t].kind = "ReadStream" -> [g EXCEPT !.nd.slab[t].kind = "ReadSpawned"]
    [] g.nd.slab[t].kind = "WriteStream" -> flush(g, t)
    [] g.nd.slab[t].kind = "none" -> [g EXCEPT !.nd.dead = "polled"]
    [] OTHER -> g

readable(n, t) ==
  LET e == node[n].slab[t] IN
  /\ Alive(n) /\ e.kind = "ReadStream" /\ streams[e.s].wire /= <<>>
  /\ Becomes(n, token_event(Now(n), t))
  /\ UNCHANGED <<mlq, jobs, nchal, fwd, got>>

writable(n, t) ==
  /\ Alive(n) /\ node[n].slab[t].kind = "WriteStream"
  /\ Becomes(n, token_event(Now(n), t))
  /\ UNCHANGED <<mlq, jobs, nchal, fwd, got>>

(* The stream s was registered with a token whose entry update_peer has    *)
(* removed, and the slab may have given the token to another stream.       *)
Replaced(n, s) ==
  /\ streams[s].from = n /\ streams[s].tok /= None
  /\ node[n].slab[streams[s].tok].s /= s

(* A writable event on such a stream, to which its service still writes,   *)
(* is taken for one of the entry that has the token now.                   *)
writable_replaced(n, s) ==
  /\ conf.late /\ Alive(n) /\ Replaced(n, s)
  /\ Becomes(n, token_event(Now(n), streams[s].tok))
  /\ UNCHANGED <<mlq, jobs, nchal, fwd, got>>

-----------------------------------------------------------------------------
(* Services of the synchronous transport. *)
SynchConnect(j) ==
  /\ jobs' = jobs \ {j}
  /\ \/ /\ Send(j.n, [t |-> "ConnectedW", w |-> j.t, s |-> j.s])
        /\ streams' = [s \in DOMAIN streams |->
             IF s = j.s \/ s = streams[j.s].pair
             THEN [streams[s] EXCEPT !.open = TRUE] ELSE streams[s]]
     \/ /\ conf.fail
        /\ Send(j.n, [t |-> "FailConnect", w |-> j.t])
        /\ UNCHANGED streams
  /\ UNCHANGED <<conf, node, nchal, fwd, got>>

SynchConnListener(s) ==
  /\ conf.synch /\ streams[s].open /\ ~streams[s].acc
  /\ streams' = [streams EXCEPT ![s].acc = TRUE]
  /\ Send(streams[s].to, [t |-> "ConnectedR", s |-> s])
  /\ UNCHANGED <<conf, node, jobs, nchal, fwd, got>>

-----------------------------------------------------------------------------
(* Mutants of write: buffered messages are never written; messages are not *)
(* buffered.                                                               *)
write_step(s, pong, unauth) ==
  LET st == streams[s]
      c == Head(st.chan)
      st1 == [st EXCEPT !.chan = Tail(@)]
  IN /\ st.run /\ st.chan /= <<>>
     /\ streams' = [streams EXCEPT ![s] =
          CASE c.t = "pong" -> [pong EXCEPT !.chan = Tail(@), !.with = TRUE]
            [] c.t = "svc" /\ conf.auth /\ ~st.with -> [unauth EXCEPT !.chan = Tail(@)]
            [] OTHER -> [st1 EXCEPT !.wire = Append(@, c)]]
     /\ UNCHANGED <<conf, node, mlq, jobs, nchal, fwd, got>>
buffers(st) == [st EXCEPT !.buff = Append(@, Head(st.chan))]
writes(st) == [st EXCEPT !.wire = Append(@, Head(st.chan))]
write_never_flushes(s) == write_step(s, writes(streams[s]), buffers(streams[s]))
write_before_pong(s) == write_step(s, writes(streams[s]), writes(streams[s]))

(* WriteService: one command of the channel of stream s. *)
written(st) ==
  LET c == Head(st.chan)
      st1 == [st EXCEPT !.chan = Tail(st.chan)]
  IN CASE c.t = "ping" -> [st1 EXCEPT !.wire = Append(st.wire, c)]
       [] c.t = "pong" -> [st1 EXCEPT !.wire = Append(st.wire, c) \o st.buff,
                                      !.with = TRUE, !.buff = <<>>]
       [] c.t = "svc" /\ conf.auth /\ ~st.with -> [st1 EXCEPT !.buff = Append(st.buff, c)]
       [] OTHER -> [st1 EXCEPT !.wire = Append(st.wire \o st.buff, c), !.buff = <<>>]

write(s) ==
  /\ streams[s].run /\ streams[s].chan /= <<>>
  /\ streams' = [streams EXCEPT ![s] = written(streams[s])]
  /\ UNCHANGED <<conf, node, mlq, jobs, nchal, fwd, got>>

(* ReadService on the slab entry r of node n: one frame of its stream.     *)
(* Until the first pong the reader decodes pings and pongs, afterwards     *)
(* service messages; MainLoopAlive says it never meets the other kind.     *)
Reading(n, r, t) ==
  LET s == node[n].slab[r].s IN
  /\ node[n].slab[r].kind = "ReadSpawned"
  /\ streams[s].wire /= <<>> /\ Head(streams[s].wire).t = t
  /\ streams[s].auth = (t = "svc")

(* The reader's stream after the frame, with auth and prio as given. *)
read(s, auth, prio) ==
  LET st == streams[s] IN
  streams' = [streams EXCEPT ![s] =
    [st EXCEPT !.wire = Tail(st.wire), !.auth = auth, !.prio = prio]]

PING(n, r) ==
  LET s == node[n].slab[r].s
      c == Head(streams[s].wire).c
  IN /\ Reading(n, r, "ping")
     /\ \E a \in conf.accepts :
          /\ read(s, FALSE, streams[s].prio \/ a /= "refuse")
          /\ CASE a = "prio" -> Send(n, [t |-> "NewPeerChallenge", p |-> streams[s].from,
                                         r |-> r, c |-> c])
               [] a = "unchecked" -> UNCHANGED mlq
               [] a = "refuse" -> Send(n, [t |-> "RejectPeer"])
     /\ UNCHANGED <<conf, node, jobs, nchal, fwd, got>>

PONG(n, r) ==
  LET s == node[n].slab[r].s
      f == Head(streams[s].wire)
  IN /\ Reading(n, r, "pong")
     /\ \E a \in IF streams[s].prio THEN {"prio"} ELSE conf.accepts :
          /\ read(s, a /= "refuse", TRUE)
          /\ CASE a = "prio" -> Send(n, [t |-> "NewPeerUncheckedChallenge",
                                         p |-> streams[s].from, r |-> r,
                                         c |-> f.c, next |-> f.next])
               [] a = "unchecked" -> UNCHANGED mlq
               [] a = "refuse" -> Send(n, [t |-> "RejectPeer"])
     /\ UNCHANGED <<conf, node, jobs, nchal, fwd, got>>

receive(n, r) ==
  LET s == node[n].slab[r].s
      x == Head(streams[s].wire).x
  IN /\ Reading(n, r, "svc")
     /\ read(s, TRUE, streams[s].prio)
     /\ got' = [got EXCEPT ![x] = Append(@, n)]
     /\ UNCHANGED <<conf, node, mlq, jobs, nchal, fwd>>

-----------------------------------------------------------------------------
Handler(n) ==
  \/ NewPeerChallenge(n) \/ NewPeerUncheckedChallenge(n) \/ RejectPeer(n)
  \/ ConnectedR(n) \/ ConnectedW(n) \/ FailConnect(n)

Event(n) ==
  \/ \E s \in DOMAIN streams : accept(n, s)
  \/ \E t \in Token : readable(n, t) \/ writable(n, t)

Reader(n, r) == PING(n, r) \/ PONG(n, r) \/ receive(n, r)

Next ==
  \/ \E n, m \in Node : TryConnect(n, m) \/ TrustedTryConnect(n, m)
  \/ \E n, m \in Node, x \in Msg :
       \/ \E way \in conf.ways : ForwardService(n, m, x, way)
       \/ ForwardServiceOnce(n, m, x)
  \/ \E n \in Node : Handler(n) \/ Event(n)
  \/ \E n \in Node, s \in DOMAIN streams : writable_replaced(n, s)
  \/ \E j \in jobs : SynchConnect(j)
  \/ \E s \in DOMAIN streams : SynchConnListener(s) \/ write(s)
  \/ \E n \in Node, r \in Token : Reader(n, r)

Spec == Init /\ [][Next]_vars

MaxStreams == Max({k.max : k \in Confs})

(* Main loops poll their channel and their streams, services are scheduled *)
(* while they have input.  Nothing forces an api call.                     *)
Fairness ==
  /\ \A n \in Node : WF_vars(Handler(n)) /\ WF_vars(Event(n))
  /\ \A s \in 1..MaxStreams : WF_vars(s \in DOMAIN streams /\ (SynchConnListener(s) \/ write(s)))
  /\ \A n \in Node, r \in Token : WF_vars(Reader(n, r))
  /\ WF_vars(\E j \in jobs : SynchConnect(j))

FairSpec == Spec /\ Fairness

-----------------------------------------------------------------------------
Frame == {Ping(c) : c \in 1..nchal} \cup {Service(x) : x \in Msg}
         \cup {Pong(c, next) : c \in 1..nchal, next \in 0..nchal}

(* An entry of a cache is the token of its write stream, if it has one; the *)
(* token of the read stream is the os of that stream in the slab.          *)
AddressCacheEntry == Token \cup {None}
PeerCacheEntry == Token \cup {None}

SlabEntry ==
  [kind : WriteKinds \cup {"none", "ReadStream", "ReadSpawned"},
   s : 0..Len(streams), os : Token \cup {None}]

MDHTState ==
  [slab : [Token -> SlabEntry], free : Seq(Token),
   addr : [Node -> AddressCacheEntry], peer : [Node -> PeerCacheEntry],
   chal : SUBSET [c : 1..nchal, write : Token, next : Msg \cup {None}], dead : Dead]

(* A stream, with the fields of its write service and of its read service. *)
Stream ==
  [from : Node, to : Node, pair : 0..Len(streams), once : BOOLEAN, open : BOOLEAN, acc : BOOLEAN,
   tok : Token \cup {None}, chan : Seq(Frame), run : BOOLEAN, with : BOOLEAN, buff : Seq(Frame),
   wire : Seq(Frame), auth : BOOLEAN, prio : BOOLEAN]

TypeOK ==
  /\ node \in [Node -> MDHTState] /\ streams \in Seq(Stream)
  /\ \A n \in Node : {t \in Token : node[n].slab[t].kind = "none"} = Range(node[n].free)
  /\ \A x \in Msg : got[x] \in Seq(Node)

(* What may end a thread.  The main loop: every challenge answered is in   *)
(* its challenge cache, and every token of its peer and challenge caches   *)
(* is a write entry of its slab when it sends on it ("now that cache       *)
(* update remove can be done without race", update_peer).  Three things do *)
(* end it.  It panics when it refuses a peer, not written yet.  When       *)
(* update_peer has removed the entry of a stream after a double            *)
(* connection, the stream stays registered and in address_cache: its next  *)
(* event is a panic ("Unregistered token polled"), and a message forwarded *)
(* to the address an error, as it is after a failed connection.  A read    *)
(* service: it never finds an auth frame after the pong that ended the     *)
(* authentication of its stream, nor a service message before it, however  *)
(* pings, pongs and forwarded messages of two connecting peers interleave. *)
MainLoopAlive ==
  /\ \A n \in Node :
       \/ Alive(n)
       \/ node[n].dead = "refused" /\ "refuse" \in conf.accepts
       \/ node[n].dead = "polled" /\ conf.late /\ \E s \in DOMAIN streams : Replaced(n, s)
       \/ node[n].dead = "addressed" /\ (conf.fail \/ \E s \in DOMAIN streams : Replaced(n, s))
  /\ "refuse" \notin conf.accepts => \A s \in DOMAIN streams :
       LET q == streams[s].wire IN q /= <<>> => (streams[s].auth <=> Head(q).t = "svc")

(* The answer of node n to challenge c of node m is on its way: its pong   *)
(* waits in the channel of m's main loop, or is on a stream whose reader    *)
(* accepts it without asking the peer management.                           *)
Answering(n, c, m) ==
  \/ \E k \in Range(mlq[m]) : k.t = "NewPeerUncheckedChallenge" /\ k.c = c /\ k.p = n
  \/ \E s \in DOMAIN streams :
       /\ streams[s].from = n /\ streams[s].to = m /\ streams[s].prio
       /\ \E f \in Range(streams[s].chan) \cup Range(streams[s].wire) : f.t = "pong" /\ f.c = c

(* The token kept for peer m is a spawned write service on a stream to it. *)
PeerStream(n, m) ==
  LET e == node[n].slab[node[n].peer[m]] IN
  e.kind = "WriteSpawned" /\ streams[e.s].from = n /\ streams[e.s].to = m

(* What it means to have authenticated a peer.  Messages for it are sent   *)
(* on a running stream that leads to it, also after a double connection    *)
(* replaced and removed another entry; and the peer has authenticated this *)
(* node, or is about to: it still expects the answer to its own challenge, *)
(* which is on its way to it from this node and will be accepted.          *)
MutualAuth ==
  \A n, m \in Node :
    node[n].peer[m] /= None =>
      /\ PeerStream(n, m)
      /\ \/ node[m].peer[n] /= None
         \/ \E e \in node[m].chal : Answering(n, e.c, m)

(* With authentication a service message is written only on the streams to *)
(* peers that have answered a challenge of this node ("it would be broken  *)
(* (sending msg before full auth)", pong_inner): on any transport for the  *)
(* messages to connected peers and on streams of their own, and on         *)
(* multiplexed transports also for those sent by a cached address.  With   *)
(* one-way streams those are not included: the stream opened to answer a   *)
(* ping is in address_cache, and its service takes the peer as known once  *)
(* it has written the first pong, the case that comment warns of.          *)
ServiceAfterAuth ==
  conf.auth /\ (conf.mult \/ conf.ways \cap {"discover", "address"} = {}) => \A s \in DOMAIN streams :
    (\E f \in Range(streams[s].wire) : f.t = "svc")
      => node[streams[s].from].peer[streams[s].to] /= None

(* A forwarded message is received at most once, and by the node it was    *)
(* forwarded to.                                                           *)
DeliveredToDest == \A x \in Msg : got[x] = <<>> \/ got[x] = <<fwd[x][2]>>

Quiescent ==
  /\ jobs = {} /\ \A n \in Node : mlq[n] = <<>>
  /\ \A s \in DOMAIN streams : streams[s].chan = <<>> /\ streams[s].wire = <<>>
                               /\ streams[s].open /\ streams[s].acc

(* Once all messages are handled a node has one write entry for a peer:   *)
(* the losing streams of double connections are gone.  (Write-once streams *)
(* and peers that were not accepted leave theirs.)                         *)
OneWriteStream ==
  conf.auth /\ conf.accepts = {"prio"} /\ "once" \notin conf.ways /\ Quiescent =>
    \A n, m \in Node :
      Cardinality({t \in Token : /\ node[n].slab[t].kind \in WriteKinds
                                 /\ streams[node[n].slab[t].s].to = m}) <= 1

(* A node that starts connecting ends up authenticated both ways, when     *)
(* connections succeed and no event comes for a replaced stream.           *)
Connects ==
  conf.auth /\ ~conf.fail /\ ~conf.late => \A n, m \in Node :
    node[n].addr[m] /= None ~> node[n].peer[m] /= None /\ node[m].peer[n] /= None

(* A message given to a stream reaches the service of its destination.     *)
Delivers == \A x \in Msg : fwd[x] /= <<>> ~> got[x] /= <<>>
=============================================================================
