-------------------------------- MODULE MCWot -------------------------------
(***************************************************************************)
(* The cascade of update_trust over signatures of three peers that form    *)
(* cycles.                                                                 *)
(***************************************************************************)
EXTENDS WotStore

CONSTANTS Me, A, B   \* the peers

(* Six signatures of known peers, received in any order; the map of the      *)
(* store keeps one order throughout.                                         *)
S(from, about, trust) == [key |-> <<from, about>>, trust |-> trust, tag |-> 0]
Confs ==
  { [kind |-> "Classic", rules |-> <<1, 1>>, promsize |-> 1, known |-> {Me, A, B},
     signs |-> {S(A, Me, 1), S(A, B, 0), S(B, A, 1), S(B, Me, 0), S(Me, B, 1), S(Me, A, 0)},
     orders |-> {<<<<Me, Me>>, <<Me, B>>, <<Me, A>>, <<A, Me>>, <<A, B>>, <<B, A>>, <<B, Me>>>>},
     peers |-> {}, removed |-> {}, lists |-> {}, ops |-> 6] }
=============================================================================
