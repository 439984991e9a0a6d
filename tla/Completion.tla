----------------------------- MODULE Completion -----------------------------
(***************************************************************************)
(* What the api promises the thread that waits on an ApiReturn             *)
(* (procs/api.rs): every result and every failure counts once, and the     *)
(* thread returns, with the results received so far, only when enough of   *)
(* them have been counted.                                                 *)
(***************************************************************************)
EXTENDS Naturals

CONSTANT Client

VARIABLES
  lim,   \* [Client -> [res, err]]: results wanted, results and failures accepted
  ok,    \* [Client -> results received]
  ko,    \* [Client -> failures received]
  ret    \* <<client, number of results>> of the threads that have returned

vars == <<lim, ok, ko, ret>>

Complete(t) == ok[t] >= lim[t].res \/ ok[t] + ko[t] >= lim[t].err

Init ==
  /\ lim \in [Client -> [res : Nat \ {0}, err : Nat \ {0}]]
  /\ ok = [t \in Client |-> 0] /\ ko = [t \in Client |-> 0] /\ ret = {}

Result(t) == ok' = [ok EXCEPT ![t] = @ + 1] /\ UNCHANGED <<lim, ko, ret>>
Failure(t) == ko' = [ko EXCEPT ![t] = @ + 1] /\ UNCHANGED <<lim, ok, ret>>

Return(t) ==
  /\ Complete(t) /\ ~ \E r \in ret : r[1] = t
  /\ ret' = ret \cup {<<t, ok[t]>>}
  /\ UNCHANGED <<lim, ok, ko>>

Next == \E t \in Client : Result(t) \/ Failure(t) \/ Return(t)

Spec == Init /\ [][Next]_vars
=============================================================================
