-------------------------------- MODULE MCApi --------------------------------
EXTENDS Api, TLC

K == [prog |-> ("t1" :> <<"a">> @@ "t2" :> <<>>),
      lim |-> [t \in Client |-> [res |-> 1, err |-> 1]],
      kind |-> [c \in Call |-> "Local"], reply |-> [c \in Call |-> TRUE],
      nb_for |-> [c \in Call |-> 2], peers |-> 2, cached |-> {}, aqid |-> [c \in Call |-> 0],
      direct |-> TRUE, fail |-> FALSE, lose |-> FALSE]

lims(r, e) == [t \in Client |-> [res |-> r, err |-> e]]
both == "t1" :> <<"a">> @@ "t2" :> <<"b">>
two == "t1" :> <<"a", "b">> @@ "t2" :> <<>>

MCConfs == {
  \* two threads, forwards that miss one peer
  [K EXCEPT !.prog = both, !.peers = 1, !.lim = lims(2, 2)],
  \* two commands on one OneResult, a service that answers and forwards
  [K EXCEPT !.prog = two, !.kind["a"] = "Global", !.nb_for["a"] = 1, !.peers = 1,
            !.lim = lims(3, 4), !.direct = FALSE],
  \* more answers than wanted, over both ways
  [K EXCEPT !.prog = both, !.kind["b"] = "Find", !.lim = lims(1, 2), !.direct = FALSE],
  [K EXCEPT !.prog = both, !.kind["a"] = "TryConnect", !.kind["b"] = "FindLocally"],
  \* more peers missing than answers accepted
  [K EXCEPT !.prog = both, !.nb_for["a"] = 3, !.peers = 0, !.lim = lims(2, 2)],
  \* dropped, lost and failed
  [K EXCEPT !.prog = two, !.kind["a"] = "TryConnect", !.kind["b"] = "FindLocally",
            !.cached = {"a", "b"}],
  \* a find answered by the main loop with the query id of the other thread
  [K EXCEPT !.prog = both, !.kind["b"] = "FindLocally", !.cached = {"b"}, !.aqid["b"] = 1,
            !.lim = lims(2, 2)],
  [K EXCEPT !.prog = both, !.kind["b"] = "Find", !.cached = {"b"}, !.aqid["b"] = 1],
  [K EXCEPT !.prog = both, !.lose = TRUE, !.fail = TRUE, !.nb_for["b"] = 1],
  \* commands without reply
  [K EXCEPT !.prog = two, !.reply["a"] = FALSE, !.peers = 1, !.kind["b"] = "Global"] }

MCWait == { [K EXCEPT !.kind["a"] = "Find"] }
=============================================================================
