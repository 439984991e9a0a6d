---------------------------- MODULE MCWriteStream ----------------------------
(* The write streams of a node, for TLC. *)
EXTENDS WriteStream

CONSTANTS s1, s2, s3

MCSvc == {s1, s2, s3}

Conf(r, n, o, f, a) ==
  [role |-> r, nb_iter |-> n, once |-> o, may_fail |-> f, has_connect |-> a]

Initiator == Conf("init", 0, FALSE, FALSE, FALSE)
Responder == Conf("resp", 0, FALSE, FALSE, FALSE)
AcceptedResponder == Conf("resp", 0, FALSE, FALSE, TRUE)
NoAuth == Conf("noauth", 0, FALSE, FALSE, FALSE)
Restarted == Conf("init", 2, FALSE, TRUE, FALSE)
Failing == Conf("init", 0, FALSE, TRUE, FALSE)
WriteOnce == {Conf(r, n, TRUE, TRUE, a) : r \in {"init", "noauth"}, n \in 0..1, a \in BOOLEAN}

AllConfs == {Initiator, Responder, AcceptedResponder, NoAuth, Restarted, Failing} \cup WriteOnce
=============================================================================
