----------------------------- MODULE MCDiscovery -----------------------------
(* Configurations of Discovery for TLC. *)
EXTENDS Discovery

CONSTANTS p1, p2, p3, m1, m2

NoWant == [peers |-> {}, kads |-> {}, keys |-> {}, nb |-> 0, discover |-> FALSE]

(* Queries of the store services: nb_for peers of the route. *)
Query(nb, disco) == [NoWant EXCEPT !.nb = nb, !.discover = disco]

(* Replies: a peer when connected, else its key, with or without address. *)
Reply(ps, kads, keys) ==
  [NoWant EXCEPT !.peers = ps, !.kads = kads, !.keys = keys, !.discover = TRUE]

Conf(auth, known, incoming, w1, w2, calls, pool, sizes, nticks) ==
  [auth |-> auth, known |-> known, incoming |-> incoming,
   want |-> [m \in Msg |-> IF m = m1 THEN w1 ELSE w2],
   calls |-> calls, pool |-> pool, sizes |-> sizes, ticks |-> nticks]

ConfsAll ==
  { Conf(TRUE, {p1, p2}, {p3}, Query(2, TRUE), Query(1, TRUE), 1, 0, {}, 0),
    Conf(TRUE, {p1, p2}, {p1}, Query(2, TRUE), NoWant, 2, 0, {1}, 0),
    Conf(TRUE, {p1}, {p2}, Reply({p1}, {p3}, {}), Reply({}, {}, {p1, p2}), 1, 0, {}, 0),
    Conf(TRUE, {p1, p2}, {}, Reply({}, {}, {p1}), Query(1, FALSE), 1, 1, {}, 1),
    Conf(FALSE, {p1, p2, p3}, {}, Query(2, TRUE), Reply({}, {p1}, {p2}), 1, 0, {2}, 0) }

(* The peer store is empty at first. *)
ConfsEmpty == { Conf(TRUE, {}, {p1, p2}, Query(1, TRUE), Query(4, TRUE), 2, 0, {}, 0) }
=============================================================================
