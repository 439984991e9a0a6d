------------------------------ MODULE KVCache ------------------------------
(***************************************************************************)
(* The cache of mydht-base (kvcache/mod.rs) and its random selections:     *)
(* some of its values (next_random_values, used for routes), an exact      *)
(* number of them (exact_rand), and those a SimpleCache offers to another  *)
(* peer (get_next_vals).                                                   *)
(*                                                                         *)
(* A cache is the sequence of its values in the order a fold visits them.  *)
(* A value is its key; those of CFiltered pass the filter.  Random bytes   *)
(* and positions are any.                                                  *)
(***************************************************************************)
EXTENDS Naturals, Sequences, FiniteSets, SequencesExt, FiniteSetsExt

CONSTANTS
  CVal,       \* values
  CFiltered,  \* those that pass the filter
  CNb         \* largest number of values asked for

VARIABLES
  ccache,     \* the cache
  casked,     \* the selection being made: op, nb, filt, rep (min_no_repeat), done
  cres        \* its result

cvars == <<ccache, casked, cres>>

CIdle == [op |-> "none", nb |-> 0, filt |-> FALSE, rep |-> 1, done |-> FALSE]

CInit == ccache = <<>> /\ casked = CIdle /\ cres = <<>>

-----------------------------------------------------------------------------
(* Cache and KVCache, for a HashMap. *)
add_val_c(v) ==
  /\ casked = CIdle /\ v \notin ToSet(ccache)
  /\ \E i \in 1..(Len(ccache) + 1) : ccache' = InsertAt(ccache, i, v)
  /\ UNCHANGED <<casked, cres>>

remove_val_c(v) ==
  /\ casked = CIdle
  /\ ccache' = SelectSeq(ccache, LAMBDA x : x /= v)
  /\ UNCHANGED <<casked, cres>>

strict_fold_c(filt) == IF filt THEN SelectSeq(ccache, LAMBDA v : v \in CFiltered) ELSE ccache

len_where_c(filt) == Len(strict_fold_c(filt))

-----------------------------------------------------------------------------
(* The number of values returned: at most the ratio of distrib_ratio. *)
distrib_ratio == <<2, 3>>

RandNb(l, queried_nb) ==
  LET randrat == (l * distrib_ratio[1]) \div distrib_ratio[2]
  IN IF queried_nb > randrat THEN (IF randrat = 0 THEN 1 ELSE randrat) ELSE queried_nb

xess(l) == IF l % 8 = 0 THEN 0 ELSE 8 - (l % 8)

(* The bits of the random bytes: one per value, after the unused ones. *)
Bits(l) == 0..(l + xess(l) - 1)

inner_cache_bv_rand(vs, buf, nb) ==
  LET x == xess(Len(vs))
      filter == buf \ 0..(x - 1)
      on == SelectSeq([i \in DOMAIN vs |-> i], LAMBDA i : x + i - 1 \in filter)
      ratio == Len(on) \div nb
      kept == SelectSeq([k \in DOMAIN on |-> k], LAMBDA k : k - 1 < nb /\ (k - 1) % ratio = 0)
  IN IF ratio = 0 THEN <<>> ELSE [k \in DOMAIN kept |-> vs[on[kept[k]]]]

(* One turn of the loop of next_random_values. *)
Rolled(queried_nb, filt, buf) ==
  LET vs == strict_fold_c(filt)  nb == RandNb(Len(vs), queried_nb)
      r == inner_cache_bv_rand(vs, buf, nb)
  IN IF vs = <<>> \/ queried_nb = 0 THEN [done |-> TRUE, r |-> <<>>]
     ELSE [done |-> Len(r) = nb, r |-> r]

(* Mutant: what was picked before is picked again. *)
Filled_again(r, nb, pos) ==
  LET clen == Len(ccache)
      want == Min({nb, clen})
      Missing(s, S) == SelectSeq([i \in 1..clen |-> i], LAMBDA i : i \in S)
      Take(s, S) == LET m == Missing(s, S)
                    IN s \o [k \in 1..Min({Len(m), want - Len(s)}) |-> ccache[m[k]]]
      r1 == IF pos < clen - 1 THEN Take(r, {i \in 1..clen : pos < i - 1}) ELSE r
  IN Take(r1, {i \in 1..clen : pos >= i - 1})

(* SimpleCache::get_next_vals fills what is missing from a random position   *)
(* to the end, then from the start.                                          *)
Filled(r, nb, pos) ==
  LET clen == Len(ccache)
      want == Min({nb, clen})
      Missing(s, S) == SelectSeq([i \in 1..clen |-> i], LAMBDA i : i \in S /\ ccache[i] \notin ToSet(s))
      Take(s, S) == LET m == Missing(s, S)
                    IN s \o [k \in 1..Min({Len(m), want - Len(s)}) |-> ccache[m[k]]]
      r1 == IF pos < clen - 1 THEN Take(r, {i \in 1..clen : pos < i - 1}) ELSE r
  IN Take(r1, {i \in 1..clen : pos >= i - 1})

next_random_values(nb, filt) ==
  /\ casked = CIdle
  /\ casked' = [CIdle EXCEPT !.op = "next_random_values", !.nb = nb, !.filt = filt]
  /\ cres' = <<>>
  /\ UNCHANGED ccache

get_next_vals(nb) ==
  /\ casked = CIdle
  /\ casked' = [CIdle EXCEPT !.op = "get_next_vals", !.nb = nb]
  /\ cres' = <<>>
  /\ UNCHANGED ccache

(* A turn of the loop: the result, or rerolling. *)
Roll ==
  /\ casked /= CIdle /\ ~casked.done
  /\ \E buf \in SUBSET Bits(len_where_c(casked.filt)) :
       LET x == Rolled(casked.nb, casked.filt, buf)
       IN IF ~x.done THEN UNCHANGED <<casked, cres>>
          ELSE /\ casked' = [casked EXCEPT !.done = TRUE]
               /\ IF casked.op = "get_next_vals" /\ ccache /= <<>>
                  THEN \E pos \in 0..(Len(ccache) - 1) :
                         cres' = IF Len(x.r) < casked.nb /\ Len(x.r) < Len(ccache)
                                 THEN Filled(x.r, casked.nb, pos) ELSE x.r
                  ELSE cres' = x.r
  /\ UNCHANGED ccache

(* RandCache::exact_rand: rounds of min_no_repeat draws, each round without  *)
(* repetition: a draw goes to the end of the positions.                      *)
Draws(c_len, min_no_repeat, n) ==
  LET D[k \in 0..n] ==
        IF k = 0 THEN {[pos2 |-> [i \in 1..c_len |-> i], pos |-> <<>>]}
        ELSE {LET end == c_len - ((k - 1) % min_no_repeat)
              IN [pos2 |-> [d.pos2 EXCEPT ![i] = d.pos2[end], ![end] = d.pos2[i]],
                  pos |-> Append(d.pos, d.pos2[i])] :
                d \in D[k - 1], i \in 1..(c_len - ((k - 1) % min_no_repeat))}
  IN D[n]

exact_rand(min_no_repeat, nb_tot) ==
  /\ casked = CIdle
  /\ LET c_len == Len(ccache)
         nb_ret == Min({nb_tot, c_len})
         mult_nb_ret == (nb_ret \div min_no_repeat) * min_no_repeat
     IN /\ c_len >= min_no_repeat
        /\ casked' = [op |-> "exact_rand", nb |-> nb_tot, filt |-> FALSE, rep |-> min_no_repeat, done |-> TRUE]
        /\ \E d \in Draws(c_len, min_no_repeat, mult_nb_ret) :
             cres' = [k \in 1..mult_nb_ret |-> ccache[d.pos[k]]]
  /\ UNCHANGED ccache

Taken ==
  /\ casked.done
  /\ casked' = CIdle /\ cres' = <<>>
  /\ UNCHANGED ccache

CNext ==
  \/ \E v \in CVal : add_val_c(v) \/ remove_val_c(v)
  \/ \E nb \in 0..CNb : get_next_vals(nb) \/ \E filt \in BOOLEAN : next_random_values(nb, filt)
  \/ \E nb \in 1..CNb, rep \in 1..CNb : exact_rand(rep, nb)
  \/ Roll \/ Taken

CSpec == CInit /\ [][CNext]_cvars

-----------------------------------------------------------------------------
CTypeOK ==
  /\ ccache \in Seq(CVal) /\ cres \in Seq(CVal)
  /\ casked.nb \in 0..CNb /\ casked.rep \in 1..CNb

(* A selection holds different values of the cache, that pass the filter,   *)
(* and as many as were asked for: all of them or all that there are from    *)
(* get_next_vals, at least one and at most two thirds from                  *)
(* next_random_values, and from exact_rand whole rounds, the values of each *)
(* different.  The loop of next_random_values can always end.               *)
Chosen ==
  LET l == len_where_c(casked.filt)
  IN /\ casked.done =>
          /\ ToSet(cres) \subseteq ToSet(strict_fold_c(casked.filt))
          /\ \A i, j \in DOMAIN cres :
               i /= j /\ (casked.op = "exact_rand" => (i - 1) \div casked.rep = (j - 1) \div casked.rep)
               => cres[i] /= cres[j]
          /\ CASE casked.op = "get_next_vals" -> Len(cres) = Min({casked.nb, l})
               [] casked.op = "next_random_values" ->
                    /\ Len(cres) <= casked.nb
                    /\ Len(cres) > 1 => 3 * Len(cres) <= 2 * l
                    /\ casked.nb > 0 /\ l > 0 => Len(cres) > 0
                    /\ 3 * casked.nb <= 2 * l => Len(cres) = casked.nb
               [] OTHER -> Len(cres) % casked.rep = 0 /\ Len(cres) <= casked.nb
                           /\ casked.nb <= l => casked.nb - Len(cres) < casked.rep
     /\ casked /= CIdle /\ ~casked.done =>
          \E buf \in SUBSET Bits(l) : Rolled(casked.nb, casked.filt, buf).done
=============================================================================
