------------------------------ MODULE MCKVStore ------------------------------
(* Small networks of store services for TLC. *)
EXTENDS KVStore

CONSTANTS n1, n2, n3, k1, k2

Nodes == {n1, n2, n3}
Keys == {k1, k2}
Triangle == {{n1, n2}, {n2, n3}, {n1, n3}}
Line == {{n1, n2}, {n2, n3}}

(* Two nodes ask for one result each, proxied, with NotFound replies. *)
Proxy ==
  [mode |-> "AProxy", mix |-> 0, hop_hist |-> "none", nb_hist |-> 0, reply |-> TRUE,
   storelocal |-> TRUE, hops |-> 3, forw |-> 2, res |-> 1, links |-> Triangle,
   asks |-> {<<n1, k1>>, <<n2, k2>>}, holds |-> {<<n3, k1>>, <<n1, k2>>}, puts |-> {},
   lossy |-> FALSE]

Silent(c0) == [c0 EXCEPT !.reply = FALSE]
Asynch(c0) == [c0 EXCEPT !.mode = "Asynch"]
Mixed(c0) == [c0 EXCEPT !.mode = "AMix", !.mix = 1]
One(c0) == [c0 EXCEPT !.asks = {<<n1, k1>>}]
Several == [One(Proxy) EXCEPT !.res = 3, !.holds = {<<n2, k1>>, <<n3, k1>>}]
History == [One(Proxy) EXCEPT !.hop_hist = "hop", !.nb_hist = 1, !.hops = 4, !.forw = 1, !.holds = {}]

AllConfs ==
  {[One(Proxy) EXCEPT !.holds = {}, !.puts = {<<n1, k1>>, <<n3, k1>>}],
   Proxy, Silent(Proxy), Asynch(Proxy), Mixed(Proxy), Silent(Asynch(Proxy)),
   [Proxy EXCEPT !.lossy = TRUE], Several, Silent(Several), Asynch(Several),
   [Several EXCEPT !.holds = {<<n3, k1>>}, !.hops = 3], [Several EXCEPT !.holds = {}],
   [Several EXCEPT !.holds = {<<n1, k1>>, <<n3, k1>>}],
   [Several EXCEPT !.holds = {<<n1, k1>>}, !.hops = 1],
   [One(Proxy) EXCEPT !.holds = {}, !.hops = 3, !.links = Line], History,
   [History EXCEPT !.hop_hist = "peer", !.nb_hist = 2]}
=============================================================================
