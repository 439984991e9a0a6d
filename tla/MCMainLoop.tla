------------------------------ MODULE MCMainLoop ------------------------------
(* Small networks of main loops for TLC. *)
EXTENDS MainLoop, TLC

CONSTANTS n1, n2, n3, x1, x2

Nodes == {n1, n2, n3}
TwoNodes == {n1, n2}
Msgs == {x1, x2}
Pair == {<<n1, n2>>, <<n2, n1>>}
Fork == {<<n1, n2>>, <<n1, n3>>}

(* Two nodes that may both ask for a connection, over one-way asynchronous *)
(* streams, with authentication.                                           *)
Async ==
  [auth |-> TRUE, mult |-> FALSE, synch |-> FALSE, fail |-> FALSE, late |-> FALSE,
   accepts |-> {"prio"},
   attempts |-> Pair, ways |-> {"connected", "discover"}, msgs |-> {x1},
   links |-> Pair, max |-> 4]

Multiplexed == [Async EXCEPT !.mult = TRUE]
Late == [Async EXCEPT !.late = TRUE, !.ways = {"connected", "address"}]
LateMultiplexed == [Late EXCEPT !.mult = TRUE]
Reused == [LateMultiplexed EXCEPT !.attempts = Pair \cup {<<n1, n3>>}, !.msgs = {}, !.max = 6]
Blocking == [Async EXCEPT !.synch = TRUE, !.ways = {"connected"}]
Failing == [Blocking EXCEPT !.fail = TRUE, !.ways = {"connected", "discover"}]
NoAuth == [Async EXCEPT !.auth = FALSE, !.attempts = {<<n1, n2>>}, !.ways = {"discover", "once"},
                        !.msgs = Msgs, !.max = 3]
Once == [Async EXCEPT !.attempts = {}, !.ways = {"once", "connected"}, !.msgs = Msgs]
Choosy == [Async EXCEPT !.accepts = {"prio", "unchecked", "refuse"}, !.ways = {"connected"}]
Three == [Async EXCEPT !.attempts = Fork, !.links = Fork \cup Pair \cup {<<n3, n1>>},
                       !.ways = {"connected"}]

SafeConfs == {Async, Multiplexed, Late, LateMultiplexed, Reused,
              Failing, NoAuth, Once, Choosy, Three}
LiveConfs == {Async, Multiplexed, Blocking,
              [NoAuth EXCEPT !.msgs = {x1}]}
FailedConfs == {[Failing EXCEPT !.attempts = Fork, !.links = Fork, !.ways = {"discover"}]}
=============================================================================
