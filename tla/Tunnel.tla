------------------------------- MODULE Tunnel -------------------------------
(***************************************************************************)
(* The global service of a tunnel node (mydht-tunnel/src/lib.rs) and its   *)
(* route provider (tunnelconf.rs).  A command is sent through a route of   *)
(* connected peers drawn at random.  While there are too few of them it    *)
(* waits in to_send, and the main loop is asked for a larger pool of       *)
(* connections.                                                            *)
(*                                                                         *)
(* A peer is its key and its address.  A command of the inner service is   *)
(* the number of its arrival.  Module TunnelStream follows a message along *)
(* its route.                                                              *)
(***************************************************************************)
EXTENDS Integers, Sequences, FiniteSets, SequencesExt

CONSTANTS
  TPeer,    \* other peers
  TMe,      \* this node
  TNone,    \* no destination
  TConfs    \* configurations considered, see tconf

VARIABLES
  tconf,        \* routelength, routebias, cmds: bound on the commands asked for;
                \* offline: peers may leave (the main loop of this version builds
                \*   no PeerOffline, the handler is there),
                \* again: a peer may be announced twice (TrustedTryConnect of the api)
  peers,        \* Rp::peers
  positions,    \* Rp::positions, indices from 0
  address_key,  \* addresses whose key is known
  to_send,      \* waiting commands
  pool,         \* the largest PoolSize asked of the main loop
  asked,        \* history: number of commands the inner service sends
  dead,         \* the service has panicked
  sent          \* history: the ForwardOnce replies, with the route of the writer

tvars == <<tconf, peers, positions, address_key, to_send, pool, asked, dead, sent>>

TInit ==
  /\ tconf \in TConfs
  /\ peers = <<>> /\ positions = <<>> /\ address_key = {}
  /\ to_send = <<>> /\ pool = 0 /\ asked = 0 /\ dead = FALSE /\ sent = <<>>

-----------------------------------------------------------------------------
(* The route provider. *)
route_len == tconf.routelength + tconf.routebias

missing_peer(ps) == IF Len(ps) < route_len THEN route_len - Len(ps) ELSE 0

(* Vec::swap_remove: the last element takes the place of element i. *)
swap_remove(s, i) == Front([s EXCEPT ![i] = Last(s)])

(* The number of peers of a route, with the random bias. *)
min_no_repeat ==
  LET L == tconf.routelength  B == tconf.routebias
  IN {IF b > B THEN L - B + b ELSE L - b : b \in 0..(2 * B)}

(* A partial shuffle: n draws, each among the positions not drawn yet, which *)
(* the swap leaves in front.                                                 *)
Drawn(pos, n) ==
  LET c == Len(pos)
      Draw[k \in 0..n] ==
        IF k = 0 THEN {[pos |-> pos, res |-> <<>>]}
        ELSE {LET end == c - k + 1 IN
              [pos |-> [d.pos EXCEPT ![i] = d.pos[end], ![end] = d.pos[i]],
               res |-> Append(d.res, d.pos[i])] : d \in Draw[k - 1], i \in 1..(c - k + 1)}
  IN Draw[n]

(* What may stand before the destination: the drawn peers, with the last two *)
(* exchanged when the last is the destination; a single peer is drawn again  *)
(* among the peers not in the route, which holds only this node by then.     *)
BeforeDest(ps, r, dest) ==
  IF Len(r) = 0 \/ Last(r) /= dest THEN {r}
  ELSE IF Len(r) >= 2 THEN {[r EXCEPT ![Len(r) - 1] = r[Len(r)], ![Len(r)] = r[Len(r) - 1]]}
  ELSE {<<p>> : p \in ToSet(ps) \ {TMe}}

exact_rand(ps, pos, dest) ==
  UNION {UNION {{[pos |-> d.pos, route |-> <<TMe>> \o r \o <<dest>>] :
                   r \in BeforeDest(ps, [k \in 1..n |-> ps[d.res[k] + 1]], dest)} :
                d \in Drawn(pos, n)} : n \in min_no_repeat}

rand_dest(ps) == ToSet(ps)

-----------------------------------------------------------------------------
(* Sending. *)

(* The panics on the way: the remainder by the number of peers in rand_one,  *)
(* and the assertion of exact_rand.                                          *)
Panics(ps, cmds) ==
  \/ \E c \in ToSet(cmds) : c.dest = TNone /\ Len(ps) = 0
  \/ cmds /= <<>> /\ \E n \in min_no_repeat : Len(ps) < n

(* One command through new_writer of the tunnel library: a new route, the    *)
(* address of its first hop, and the key known for that address.             *)
ForwardOnce(ps, pos, ak, c) ==
  {[pos |-> x.pos,
    fw |-> [cmd |-> c.cmd, route |-> x.route, key |-> x.route[2] \in ak]] :
     x \in UNION {exact_rand(ps, pos, d) : d \in IF c.dest = TNone THEN rand_dest(ps) ELSE {c.dest}}}

(* A list of commands, in order: each route is drawn from what the previous  *)
(* one left.                                                                 *)
ForwardAll(ps, pos, ak, cmds) ==
  LET F[k \in 0..Len(cmds)] ==
        IF k = 0 THEN {[pos |-> pos, fws |-> <<>>]}
        ELSE UNION {{[pos |-> x.pos, fws |-> Append(f.fws, x.fw)] :
                       x \in ForwardOnce(ps, f.pos, ak, cmds[k])} : f \in F[k - 1]}
  IN F[Len(cmds)]

Forward(ps, pos, ak, cmds) ==
  IF Panics(ps, cmds)
  THEN dead' = TRUE /\ positions' = pos /\ UNCHANGED sent
  ELSE \E x \in ForwardAll(ps, pos, ak, cmds) :
         positions' = x.pos /\ sent' = sent \o x.fws /\ UNCHANGED dead

-----------------------------------------------------------------------------
(* The calls of the service. *)

(* Mutant: the commands that waited are sent last in, first out. *)
NewOnline_last_first(p) ==
  /\ p \in ToSet(peers) => tconf.again /\ Len(peers) <= route_len
  /\ address_key' = address_key \cup {p}
  /\ peers' = Append(peers, p)
  /\ LET pos == Append(positions, Len(positions))
     IN IF to_send /= <<>> /\ missing_peer(peers') = 0
        THEN to_send' = <<>> /\ Forward(peers', pos, address_key', Reverse(to_send))
        ELSE positions' = pos /\ UNCHANGED <<to_send, sent, dead>>
  /\ UNCHANGED <<tconf, pool, asked>>

NewOnline(p) ==
  /\ p \in ToSet(peers) => tconf.again /\ Len(peers) <= route_len
  /\ address_key' = address_key \cup {p}
  /\ peers' = Append(peers, p)
  /\ LET pos == Append(positions, Len(positions))
     IN IF to_send /= <<>> /\ missing_peer(peers') = 0
        THEN to_send' = <<>> /\ Forward(peers', pos, address_key', to_send)
        ELSE positions' = pos /\ UNCHANGED <<to_send, sent, dead>>
  /\ UNCHANGED <<tconf, pool, asked>>

(* Mutant: the place of the peer itself is taken out of positions, not the   *)
(* one of the peer that moved.                                               *)
Offline_own_place(p) ==
  /\ tconf.offline
  /\ address_key' = address_key \ {p}
  /\ LET at == {i \in DOMAIN peers : peers[i] = p}
     IN /\ at /= {}
        /\ LET i == CHOOSE i \in at : \A j \in at : i <= j
               ixp == {j \in DOMAIN positions : positions[j] = i - 1}
           IN /\ peers' = swap_remove(peers, i)
              /\ positions' = swap_remove(positions, CHOOSE j \in ixp : TRUE)
  /\ UNCHANGED <<tconf, to_send, pool, asked, sent, dead>>

Offline(p) ==
  /\ tconf.offline
  /\ address_key' = address_key \ {p}
  /\ LET at == {i \in DOMAIN peers : peers[i] = p}
     IN /\ at /= {}
        /\ LET i == CHOOSE i \in at : \A j \in at : i <= j
               last == Len(peers) - 1
               ixp == {j \in DOMAIN positions : positions[j] = last}
           IN /\ peers' = swap_remove(peers, i)
              /\ positions' = IF ixp = {} THEN positions
                              ELSE swap_remove(positions, CHOOSE j \in ixp : TRUE)
  /\ UNCHANGED <<tconf, to_send, pool, asked, sent, dead>>

(* A local command for which the inner service replies SendCommandTo(dest)  *)
(* or, with no destination, SendCommandToRand.                              *)
SendCommand(dest) ==
  /\ asked < tconf.cmds
  /\ asked' = asked + 1
  /\ LET c == [dest |-> dest, cmd |-> asked']
     IN IF missing_peer(peers) = 0
        THEN Forward(peers, positions, address_key, <<c>>) /\ UNCHANGED <<to_send, pool>>
        ELSE /\ to_send' = Append(to_send, c)
             /\ pool' = IF pool < route_len + 1 THEN route_len + 1 ELSE pool
             /\ UNCHANGED <<positions, sent, dead>>
  /\ UNCHANGED <<tconf, peers, address_key>>

TNext ==
  /\ ~dead
  /\ \/ \E p \in TPeer : NewOnline(p) \/ Offline(p)
     \/ \E dest \in TPeer \cup {TNone} : SendCommand(dest)

TSpec == TInit /\ [][TNext]_tvars

-----------------------------------------------------------------------------
TTypeOK ==
  /\ peers \in Seq(TPeer) /\ positions \in Seq(Nat)
  /\ address_key \subseteq TPeer
  /\ to_send \in Seq([dest : TPeer \cup {TNone}, cmd : Nat])
  /\ sent \in Seq([cmd : Nat, route : Seq(TPeer \cup {TMe}), key : BOOLEAN])
  /\ pool \in Nat /\ asked \in Nat /\ dead \in BOOLEAN

(* Commands leave once and in the order in which they were asked for,       *)
(* whether they waited or not; the queue only holds commands while peers    *)
(* are missing, and the main loop then knows how many connections to make.  *)
InOrder ==
  ~dead =>
    /\ asked = Len(sent) + Len(to_send)
    /\ \A i \in DOMAIN sent : sent[i].cmd = i
    /\ \A i \in DOMAIN to_send : to_send[i].cmd = Len(sent) + i
    /\ to_send /= <<>> => missing_peer(peers) > 0 /\ pool > route_len

(* A route of at least two peers goes through different connected peers and *)
(* does not reach its destination just before the destination; positions is *)
(* a permutation of the indices of peers.  The service survives.            *)
Routes ==
  /\ ToSet(positions) = 0..(Len(peers) - 1) /\ Len(positions) = Len(peers)
  /\ dead => route_len = 0
  /\ tconf.again \/ \A i \in DOMAIN sent :
       LET r == sent[i].route  hops == SubSeq(r, 2, Len(r) - 1)
       IN /\ r[1] = TMe /\ TMe \notin ToSet(hops)
          /\ Len(hops) >= 2 => IsInjective(hops) /\ Last(hops) /= Last(r)
          /\ Len(hops) > 0 => sent[i].key
=============================================================================
