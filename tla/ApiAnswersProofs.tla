--------------------------- MODULE ApiAnswersProofs ---------------------------
(***************************************************************************)
(* Proof that the api accounts for every answer a command is owed, for any *)
(* threads, commands and configurations.                                   *)
(***************************************************************************)
EXTENDS ApiProofs, WellFoundedInduction

(* The messages each channel may hold.  A command that wants a reply has   *)
(* its query id from the time it is dispatched.                            *)
MlMsg(k, ids) == {m \in Msg :
  /\ m.t \in MainLoopCommand
  /\ m.t = "ProxyGlobal" => k.kind[m.c] = "Global"
  /\ m.t = "PeerStore" => k.kind[m.c] \in {"Find", "FindLocally"}
  /\ k.reply[m.c] /\ m.t /= "ForwardApi" => ids[m.c] /= None}
SvcMsg(k, ids) == {m \in MlMsg(k, ids) : m.t \in {"ProxyGlobal", "PeerStore"}}
ApiMsg == {m \in Msg : m.t \in ApiCommand /\ (m.t = "Adjust" => m.n >= 1)}

MsgInv ==
  /\ mlq \in Seq(MlMsg(conf, qid)) /\ apiq \in Seq(ApiMsg) /\ svcs \subseteq SvcMsg(conf, qid)
  /\ \A c \in Call : conf.reply[c] /\ flight[c] > 0 => qid[c] /= None

(* A service holds a command once. *)
HeldOnce == \A m1, m2 \in svcs : conf.reply[m1.c] /\ m1.c = m2.c => m1 = m2

SentInv == \A t \in Client : sent[t] <= Len(conf.prog[t])

(* A call is owed nothing before it is sent. *)
SentCall(c) == \E t \in Client : \E i \in 1..sent[t] : conf.prog[t][i] = c
OwedInv ==
  \A c \in Call : conf.reply[c] => Owed(c) = IF SentCall(c) THEN Total(conf, c) ELSE 0

-----------------------------------------------------------------------------
(* Sums of sequences. *)

(* A set of naturals has a least element. *)
LEMMA Least ==
  ASSUME NEW T, T \subseteq Nat, T # {}
  PROVE  \E x \in T : \A y \in T : ~(y < x)
<1>1. PICK R : R = OpToRel(<, Nat)
  BY Zenon
<1>2. IsWellFoundedOn(R, Nat)
  BY <1>1, NatLessThanWellFounded, Zenon
<1>3. PICK x \in T : \A y \in T : ~(<<y, x>> \in R)
  BY <1>2, WFMin, Zenon
<1>4. \A u, v \in Nat : v < u => <<v, u>> \in R
  BY <1>1 DEF OpToRel
<1>5. \A y \in T : ~(y < x)
  BY <1>3, <1>4, Zenon
<1> QED
  BY <1>3, <1>5

(* Induction, for a set rather than a predicate. *)
LEMMA Ind ==
  ASSUME NEW S, 0 \in S, \A n \in Nat : n \in S => n + 1 \in S
  PROVE  Nat \subseteq S
<1> SUFFICES ASSUME ~(Nat \subseteq S) PROVE FALSE
  OBVIOUS
<1> DEFINE T == Nat \ S
<1>1. PICK x \in T : \A y \in T : ~(y < x)
  BY Least, Zenon
<1>2. x - 1 \in Nat /\ x - 1 \in S
  BY <1>1
<1> QED
  BY <1>2

(* f holds the sums of the beginnings of w. *)
PartialSums(f, w) ==
  f \in [0..Len(w) -> Nat] /\ f[0] = 0 /\ \A i \in 1..Len(w) : f[i] = f[i - 1] + w[i]

LEMMA SumsExist ==
  ASSUME NEW w \in Seq(Nat)
  PROVE  \E f : PartialSums(f, w)
<1> DEFINE P(n) == \E f \in [0..n -> Nat] : f[0] = 0 /\ \A i \in 1..n : f[i] = f[i - 1] + w[i]
<1> DEFINE S == {n \in Nat : n <= Len(w) => P(n)}
<1>1. 0 \in S
  <2> DEFINE f == [i \in 0..0 |-> 0]
  <2>1. f \in [0..0 -> Nat] /\ f[0] = 0 /\ \A i \in 1..0 : f[i] = f[i - 1] + w[i]
    OBVIOUS
  <2> HIDE DEF f
  <2>2. P(0)
    BY <2>1
  <2> QED
    BY <2>2
<1>2. ASSUME NEW n \in Nat, n \in S PROVE n + 1 \in S
  <2> SUFFICES ASSUME n + 1 <= Len(w) PROVE P(n + 1)
    <3> HIDE DEF P
    <3> QED
      OBVIOUS
  <2>1. PICK f \in [0..n -> Nat] : f[0] = 0 /\ \A i \in 1..n : f[i] = f[i - 1] + w[i]
    <3>1. n <= Len(w)
      OBVIOUS
    <3>2. P(n)
      <4> HIDE DEF P
      <4> QED
        BY <1>2, <3>1
    <3> QED
      BY <3>2, Zenon
  <2>2. w[n + 1] \in Nat /\ f[n] \in Nat
    OBVIOUS
  <2> DEFINE g == [i \in 0..(n + 1) |-> IF i <= n THEN f[i] ELSE f[n] + w[n + 1]]
  <2>3. g \in [0..(n + 1) -> Nat]
    BY <2>2
  <2>4. g[0] = 0
    BY <2>1
  <2>5. ASSUME NEW i \in 1..(n + 1) PROVE g[i] = g[i - 1] + w[i]
    <3>1. CASE i <= n
      <4>1. i \in 1..n /\ i - 1 <= n /\ i \in 0..(n + 1) /\ i - 1 \in 0..(n + 1)
        BY <3>1
      <4>2. g[i] = f[i] /\ g[i - 1] = f[i - 1]
        BY <3>1, <4>1
      <4> QED
        BY <2>1, <4>1, <4>2
    <3>2. CASE i = n + 1
      <4>1. g[n + 1] = f[n] + w[n + 1] /\ g[n] = f[n] /\ i - 1 = n
        BY <3>2
      <4> QED
        BY <3>2, <4>1
    <3> QED
      BY <3>1, <3>2
  <2> HIDE DEF g
  <2> QED
    BY <2>3, <2>4, <2>5, Zenon
<1>3. Nat \subseteq S
  <2> HIDE DEF S
  <2> QED
    BY <1>1, <1>2, Ind, Zenon
<1>4. P(Len(w))
  BY <1>3
<1> QED
  BY <1>4 DEF PartialSums

(* The sum of a sequence is the last of its partial sums. *)
LEMMA SumIs ==
  ASSUME NEW w \in Seq(Nat), NEW f, PartialSums(f, w)
  PROVE  SumSeq(w) = f[Len(w)] /\ SumSeq(w) \in Nat
<1> DEFINE E(g) == g = [i \in 0..Len(w) |-> IF i = 0 THEN 0 ELSE g[i - 1] + w[i]]
<1> DEFINE h == CHOOSE g : E(g)
<1>0. Len(w) \in Nat /\ f \in [0..Len(w) -> Nat] /\ f[0] = 0 /\ \A i \in 1..Len(w) : f[i] = f[i - 1] + w[i]
  BY DEF PartialSums
<1>1. E(f)
  BY <1>0
<1>2. E(h)
  <2> HIDE DEF E
  <2> QED
    BY <1>1
<1>3. SumSeq(w) = h[Len(w)]
  BY Zenon DEF SumSeq
<1>4. h[0] = 0 /\ \A i \in 1..Len(w) : h[i] = h[i - 1] + w[i]
  <2> HIDE DEF h
  <2> QED
    BY <1>0, <1>2
<1> HIDE DEF h, E
<1> DEFINE S == {n \in Nat : n <= Len(w) => h[n] = f[n]}
<1>5. 0 \in S
  BY <1>0, <1>4
<1>6. ASSUME NEW n \in Nat, n \in S PROVE n + 1 \in S
  BY <1>0, <1>4, <1>6
<1>7. Nat \subseteq S
  <2> HIDE DEF S
  <2> QED
    BY <1>5, <1>6, Ind, Zenon
<1>8. h[Len(w)] = f[Len(w)]
  BY <1>0, <1>7
<1>9. f[Len(w)] \in Nat
  BY <1>0
<1> QED
  BY <1>3, <1>8, <1>9

LEMMA SumConcat ==
  ASSUME NEW v \in Seq(Nat), NEW w \in Seq(Nat)
  PROVE  /\ SumSeq(v \o w) = SumSeq(v) + SumSeq(w)
         /\ SumSeq(v) \in Nat /\ SumSeq(w) \in Nat
<1>1. PICK f : PartialSums(f, v)
  BY SumsExist
<1>2. PICK g : PartialSums(g, w)
  BY SumsExist
<1>3. PICK a \in Nat, b \in Nat : a = Len(v) /\ b = Len(w)
  OBVIOUS
<1>4. PICK u : u = v \o w
  BY Zenon
<1>5. /\ u \in Seq(Nat) /\ Len(u) = a + b
      /\ \A i \in 1..(a + b) : u[i] = IF i <= a THEN v[i] ELSE w[i - a]
      /\ \A i \in 1..a : v[i] \in Nat
      /\ \A i \in 1..b : w[i] \in Nat
  BY <1>3, <1>4
<1>6. /\ f \in [0..a -> Nat] /\ f[0] = 0 /\ \A i \in 1..a : f[i] = f[i - 1] + v[i]
      /\ g \in [0..b -> Nat] /\ g[0] = 0 /\ \A i \in 1..b : g[i] = g[i - 1] + w[i]
  BY <1>1, <1>2, <1>3 DEF PartialSums
<1> DEFINE h == [i \in 0..(a + b) |-> IF i <= a THEN f[i] ELSE f[a] + g[i - a]]
<1>7. h \in [0..(a + b) -> Nat] /\ h[0] = 0
  BY SMTT(30), <1>6
<1>8. \A i \in 0..(a + b) : h[i] = IF i <= a THEN f[i] ELSE f[a] + g[i - a]
  OBVIOUS
<1> HIDE DEF h
<1>9. ASSUME NEW i \in 1..(a + b) PROVE h[i] = h[i - 1] + u[i]
  <2>0. /\ i \in 0..(a + b) /\ i - 1 \in 0..(a + b)
        /\ h[i] = IF i <= a THEN f[i] ELSE f[a] + g[i - a]
        /\ h[i - 1] = IF i - 1 <= a THEN f[i - 1] ELSE f[a] + g[i - 1 - a]
        /\ u[i] = IF i <= a THEN v[i] ELSE w[i - a]
    BY <1>5, <1>8
  <2>1. CASE i <= a
    <3>1. i \in 1..a /\ i - 1 <= a
      BY <2>1
    <3> QED
      BY <1>6, <2>0, <2>1, <3>1
  <2>2. CASE i = a + 1
    <3>1. ~(i <= a) /\ i - 1 <= a /\ i - a = 1 /\ i - 1 = a /\ 1 \in 1..b
      BY <2>2
    <3>2. g[1] = g[0] + w[1] /\ w[1] \in Nat /\ g[0] = 0
      <4>1. g[1] = g[1 - 1] + w[1] /\ w[1] \in Nat /\ g[0] = 0
        BY <1>5, <1>6, <3>1, Zenon
      <4> QED
        BY <4>1
    <3> QED
      BY <2>0, <3>1, <3>2
  <2>3. CASE i > a + 1
    <3>1. ~(i <= a) /\ ~(i - 1 <= a) /\ i - a \in 1..b /\ i - a - 1 = i - 1 - a /\ i - 1 - a \in 0..b /\ a \in 0..a
      BY <2>3
    <3>2. g[i - a] = g[i - 1 - a] + w[i - a]
      BY <1>6, <3>1
    <3>3. f[a] \in Nat /\ g[i - 1 - a] \in Nat /\ w[i - a] \in Nat
      BY <1>5, <1>6, <3>1, Zenon
    <3> QED
      BY SMTT(30), <2>0, <3>1, <3>2, <3>3
  <2> QED
    BY <2>1, <2>2, <2>3
<1>10. h[a + b] = f[a] + g[b]
  <2>1. a + b \in 0..(a + b) /\ a + b - a = b /\ a \in 0..a /\ (a + b <= a => b = 0 /\ a + b = a)
    OBVIOUS
  <2>2. f[a] \in Nat
    BY <1>6, <2>1
  <2>3. h[a + b] = IF a + b <= a THEN f[a + b] ELSE f[a] + g[a + b - a]
    BY <1>8, <2>1
  <2>4. CASE a + b <= a
    <3>1. h[a + b] = f[a] /\ b = 0
      BY <2>1, <2>3, <2>4
    <3> QED
      BY <1>6, <2>2, <3>1
  <2>5. CASE ~(a + b <= a)
    BY <2>1, <2>3, <2>5
  <2> QED
    BY <2>4, <2>5
<1>11. PartialSums(h, u)
  BY <1>5, <1>7, <1>9 DEF PartialSums
<1>12. SumSeq(u) = h[a + b]
  BY <1>5, <1>11, SumIs, Zenon
<1>13. SumSeq(v) = f[a] /\ SumSeq(w) = g[b] /\ SumSeq(v) \in Nat /\ SumSeq(w) \in Nat
  BY <1>1, <1>2, <1>3, SumIs
<1> QED
  BY <1>4, <1>10, <1>12, <1>13

LEMMA SumOne ==
  ASSUME NEW x \in Nat
  PROVE  SumSeq(<<x>>) = x
<1> DEFINE f == [i \in 0..1 |-> IF i = 0 THEN 0 ELSE x]
<1>1. <<x>> \in Seq(Nat) /\ Len(<<x>>) = 1
  OBVIOUS
<1>2. PartialSums(f, <<x>>)
  BY <1>1 DEF PartialSums
<1>3. f[1] = x
  OBVIOUS
<1> HIDE DEF f
<1> QED
  BY <1>1, <1>2, <1>3, SumIs, Zenon

LEMMA SumEmpty == SumSeq(<<>>) = 0
<1> DEFINE f == [i \in 0..0 |-> 0]
<1> DEFINE w == <<>>
<1>1. w \in Seq(Nat) /\ Len(w) = 0
  OBVIOUS
<1>2. PartialSums(f, w)
  BY <1>1 DEF PartialSums
<1>3. f[0] = 0
  OBVIOUS
<1> HIDE DEF f, w
<1>4. SumSeq(w) = 0
  BY <1>1, <1>2, <1>3, SumIs, Zenon
<1> QED
  BY <1>4 DEF w

LEMMA SumSame ==
  ASSUME NEW n \in Nat, NEW x \in {0, 1}
  PROVE  SumSeq([i \in 1..n |-> x]) = IF x = 1 THEN n ELSE 0
<1> DEFINE f == [i \in 0..n |-> IF x = 1 THEN i ELSE 0]
<1> DEFINE w == [i \in 1..n |-> x]
<1>1. w \in Seq(Nat) /\ Len(w) = n /\ \A i \in 1..n : w[i] = x
  OBVIOUS
<1>2. /\ f \in [0..n -> Nat] /\ f[0] = 0 /\ f[n] = (IF x = 1 THEN n ELSE 0)
      /\ \A i \in 1..n : f[i] = f[i - 1] + x
  OBVIOUS
<1> HIDE DEF f, w
<1>3. PartialSums(f, w)
  BY <1>1, <1>2 DEF PartialSums
<1>4. SumSeq(w) = IF x = 1 THEN n ELSE 0
  BY <1>1, <1>2, <1>3, SumIs
<1> QED
  BY <1>4 DEF w

-----------------------------------------------------------------------------
(* What messages and channels stand for. *)

LEMMA WeightType ==
  ASSUME NEW k \in Confs, NEW c \in Call, NEW m \in Msg
  PROVE  /\ Total(k, c) \in Nat /\ Weight(k, m) \in Nat /\ WeightFor(k, c, m) \in Nat
         /\ k.kind[c] \in MCCommand /\ k.nb_for[c] \in Nat
<1>1. k.kind \in [Call -> MCCommand] /\ k.nb_for \in [Call -> Nat]
  BY ApiAssumption
<1>2. m.c \in Call /\ m.n \in Nat
  BY DEF Msg
<1>3. \A d \in Call : Total(k, d) \in Nat
  BY <1>1 DEF Total
<1>4. Weight(k, m) \in Nat
  BY <1>2, <1>3 DEF Weight
<1> QED
  BY <1>1, <1>3, <1>4 DEF WeightFor

LEMMA ConcatFacts ==
  ASSUME NEW S, NEW v \in Seq(S), NEW w \in Seq(S)
  PROVE  /\ v \o w \in Seq(S) /\ Len(v) \in Nat /\ Len(w) \in Nat
         /\ Len(v \o w) = Len(v) + Len(w)
         /\ \A i \in 1..(Len(v) + Len(w)) :
              (v \o w)[i] = IF i <= Len(v) THEN v[i] ELSE w[i - Len(v)]
OBVIOUS

LEMMA PendConcat ==
  ASSUME NEW k \in Confs, NEW c \in Call, NEW p \in Seq(Msg), NEW q \in Seq(Msg)
  PROVE  /\ Pending(k, c, p \o q) = Pending(k, c, p) + Pending(k, c, q)
         /\ Pending(k, c, p) \in Nat /\ Pending(k, c, q) \in Nat
<1> DEFINE Ws(s) == [i \in DOMAIN s |-> WeightFor(k, c, s[i])]
<1>1. \A m \in Msg : WeightFor(k, c, m) \in Nat
  BY WeightType
<1>2. ASSUME NEW s \in Seq(Msg)
      PROVE  Ws(s) \in Seq(Nat) /\ Len(Ws(s)) = Len(s) /\ DOMAIN Ws(s) = 1..Len(s)
  BY <1>1
<1>3. Ws(p \o q) = Ws(p) \o Ws(q)
  <2>0. PICK r : r = p \o q
    BY Zenon
  <2>1. r = p \o q /\ r \in Seq(Msg)
    BY <2>0, ConcatFacts, Zenon
  <2>a. PICK a \in Nat : a = Len(p)
    OBVIOUS
  <2>b. PICK b \in Nat : b = Len(q)
    OBVIOUS
  <2>2. a = Len(p) /\ b = Len(q)
    BY <2>a, <2>b
  <2>3. Len(r) = a + b /\ \A i \in 1..(a + b) : r[i] = IF i <= a THEN p[i] ELSE q[i - a]
    BY <2>1, <2>2
  <2>4. PICK u \in Seq(Nat) : u = Ws(p)
    BY <1>2, Zenon
  <2>5. PICK v \in Seq(Nat) : v = Ws(q)
    BY <1>2, Zenon
  <2>6. PICK w \in Seq(Nat) : w = Ws(r)
    BY <1>2, <2>1, Zenon
  <2>7. Len(u) = a /\ Len(v) = b /\ Len(w) = a + b
    <3>1. Len(Ws(p)) = Len(p) /\ Len(Ws(q)) = Len(q) /\ Len(Ws(r)) = Len(r)
      BY <1>2, <2>1, Zenon
    <3> HIDE DEF Ws
    <3> QED
      BY <2>2, <2>3, <2>4, <2>5, <2>6, <3>1, Zenon
  <2>8. \A i \in 1..a : u[i] = WeightFor(k, c, p[i])
    BY <2>2, <2>4
  <2>9. \A i \in 1..b : v[i] = WeightFor(k, c, q[i])
    BY <2>2, <2>5
  <2>10. \A i \in 1..(a + b) : w[i] = WeightFor(k, c, r[i])
    BY <2>3, <2>6
  <2> HIDE DEF Ws
  <2>11. PICK x : x = u \o v
    BY Zenon
  <2>12. /\ x \in Seq(Nat) /\ Len(x) = a + b
         /\ \A i \in 1..(a + b) : x[i] = IF i <= a THEN u[i] ELSE v[i - a]
    BY <2>7, <2>11, ConcatFacts, Zenon
  <2>13. ASSUME NEW i \in 1..(a + b) PROVE w[i] = x[i]
    <3>1. CASE i <= a
      <4>1. i \in 1..a
        BY <3>1
      <4> QED
        BY <2>3, <2>8, <2>10, <2>12, <3>1, <4>1, Zenon
    <3>2. CASE ~(i <= a)
      <4>1. i - a \in 1..b
        BY <3>2
      <4> QED
        BY <2>3, <2>9, <2>10, <2>12, <3>2, <4>1, Zenon
    <3> QED
      BY <3>1, <3>2
  <2>14. w = x
    BY <2>7, <2>12, <2>13
  <2> QED
    BY <2>1, <2>4, <2>5, <2>6, <2>11, <2>14
<1>4. \A s : Pending(k, c, s) = SumSeq(Ws(s))
  BY Zenon DEF Pending
<1>5. Ws(p) \in Seq(Nat) /\ Ws(q) \in Seq(Nat)
  BY <1>2
<1> HIDE DEF Ws
<1> QED
  BY <1>3, <1>4, <1>5, SumConcat, Zenon

LEMMA PendOne ==
  ASSUME NEW k \in Confs, NEW c \in Call, NEW m \in Msg
  PROVE  Pending(k, c, <<m>>) = WeightFor(k, c, m)
<1>1. PICK x \in Nat : x = WeightFor(k, c, m)
  BY WeightType
<1>2. [i \in DOMAIN <<m>> |-> WeightFor(k, c, <<m>>[i])] = <<x>>
  BY <1>1
<1> QED
  BY <1>1, <1>2, SumOne DEF Pending

LEMMA PendEmpty ==
  ASSUME NEW k, NEW c
  PROVE  Pending(k, c, <<>>) = 0
<1>1. [i \in DOMAIN <<>> |-> WeightFor(k, c, <<>>[i])] = <<>>
  OBVIOUS
<1> QED
  BY <1>1, SumEmpty DEF Pending

LEMMA PendAppend ==
  ASSUME NEW k \in Confs, NEW c \in Call, NEW q \in Seq(Msg), NEW m \in Msg
  PROVE  /\ Pending(k, c, Append(q, m)) = Pending(k, c, q) + WeightFor(k, c, m)
         /\ Pending(k, c, <<m>> \o q) = WeightFor(k, c, m) + Pending(k, c, q)
<1>1. Append(q, m) = q \o <<m>> /\ <<m>> \in Seq(Msg)
  OBVIOUS
<1> QED
  BY <1>1, PendConcat, PendOne, Zenon

LEMMA PendHead ==
  ASSUME NEW k \in Confs, NEW c \in Call, NEW q \in Seq(Msg), q /= <<>>
  PROVE  Pending(k, c, q) = WeightFor(k, c, Head(q)) + Pending(k, c, Tail(q))
<1>1. q = <<Head(q)>> \o Tail(q) /\ Head(q) \in Msg /\ Tail(q) \in Seq(Msg)
  OBVIOUS
<1>2. PICK m, r : m = Head(q) /\ r = Tail(q)
  BY Zenon
<1>3. Pending(k, c, <<m>> \o r) = WeightFor(k, c, m) + Pending(k, c, r)
  BY <1>1, <1>2, PendAppend, Zenon
<1> QED
  BY <1>1, <1>2, <1>3, Zenon

-----------------------------------------------------------------------------
(* The messages in the channels. *)

LEMMA SeqMono ==
  ASSUME NEW S, NEW T, S \subseteq T, NEW q \in Seq(S)
  PROVE  q \in Seq(T)
OBVIOUS

LEMMA SeqSteps ==
  ASSUME NEW S, NEW q \in Seq(S), NEW m \in S
  PROVE  Append(q, m) \in Seq(S) /\ <<m>> \o q \in Seq(S)
OBVIOUS

LEMMA SeqHead ==
  ASSUME NEW S, NEW q \in Seq(S), q /= <<>>
  PROVE  Head(q) \in S /\ Tail(q) \in Seq(S)
OBVIOUS

LEMMA CmdFields ==
  ASSUME NEW t, NEW c, NEW n
  PROVE  Cmd(t, c, n).t = t /\ Cmd(t, c, n).c = c /\ Cmd(t, c, n).n = n
BY DEF Cmd

LEMMA DispatchFacts ==
  ASSUME conf \in Confs, NEW c \in Call
  PROVE  /\ dispatch(c) \in Msg /\ dispatch(c).c = c
         /\ dispatch(c).t \in MainLoopCommand /\ dispatch(c).t /= "ForwardApi"
         /\ dispatch(c).t = "ProxyGlobal" => conf.kind[c] = "Global"
         /\ dispatch(c).t = "PeerStore" => conf.kind[c] \in {"Find", "FindLocally"}
         /\ Weight(conf, dispatch(c)) = Total(conf, c)
<1>1. dispatch(c) \in Msg
  BY DispatchType
<1>2. conf.kind[c] \in MCCommand
  BY <1>1, WeightType
<1>3. CASE conf.kind[c] = "Local"
  <2>1. dispatch(c) = [t |-> "ForwardService", c |-> c, n |-> conf.nb_for[c]]
    BY <1>3 DEF dispatch, Cmd
  <2> QED
    BY <1>1, <1>3, <2>1 DEF Weight, Total, MainLoopCommand
<1>4. CASE conf.kind[c] = "Global"
  <2>1. dispatch(c) = [t |-> "ProxyGlobal", c |-> c, n |-> 0]
    BY <1>4 DEF dispatch, Cmd
  <2> QED
    BY <1>1, <1>4, <2>1 DEF Weight, MainLoopCommand
<1>5. CASE conf.kind[c] = "TryConnect"
  <2>1. dispatch(c) = [t |-> "TryConnect", c |-> c, n |-> 0]
    BY <1>5 DEF dispatch, Cmd
  <2> QED
    BY <1>1, <1>5, <2>1 DEF Weight, Total, MainLoopCommand
<1>6. CASE conf.kind[c] \in {"Find", "FindLocally"}
  <2>1. dispatch(c) = [t |-> "PeerStore", c |-> c, n |-> 0]
    BY <1>6 DEF dispatch, Cmd
  <2> QED
    BY <1>1, <1>6, <2>1 DEF Weight, MainLoopCommand
<1> QED
  BY <1>2, <1>3, <1>4, <1>5, <1>6 DEF MCCommand

(* The answer of a service goes to one of the channels. *)
LEMMA AnswerCases ==
  ASSUME NEW d
  PROVE  LET q == answer(Queues, d) IN
         /\ q = [api |-> q.api, ml |-> q.ml]
         /\ \/ qid[d] = None /\ q.api = apiq /\ q.ml = mlq
            \/ qid[d] /= None /\ q.ml = mlq
               /\ q.api = Append(apiq, Cmd("ServiceReply", d, 0))
            \/ qid[d] /= None /\ q.api = apiq
               /\ q.ml = Append(mlq, Cmd("ProxyApiReply", d, 0))
BY Zenon DEF answer, Queues, MCReply

(* The steps of the services and of the peers on the channels. *)
LEMMA ServiceCases ==
  ASSUME TypeOK, Service
  PROVE  \E m \in svcs :
           /\ svcs' = svcs \ {m} /\ flight' = flight /\ lost' = lost
           /\ LET q == answer(Queues, m.c) IN apiq' = q.api /\ mlq' = q.ml \o GlobalReply(m)
<1>1. PICK m \in svcs :
        /\ svcs' = svcs \ {m} /\ UNCHANGED <<flight, lost>>
        /\ LET q == answer(Queues, m.c) IN SetQueues([q EXCEPT !.ml = @ \o GlobalReply(m)])
  BY Zenon DEF Service
<1> DEFINE q == answer(Queues, m.c)
<1> DEFINE fw == GlobalReply(m)
<1>2. q = [api |-> q.api, ml |-> q.ml]
  BY AnswerCases
<1>3. SetQueues([q EXCEPT !.ml = @ \o fw])
  BY <1>1, Zenon
<1> HIDE DEF q, fw
<1>4. [q EXCEPT !.ml = @ \o fw].api = q.api /\ [q EXCEPT !.ml = @ \o fw].ml = q.ml \o fw
  BY <1>2
<1>5. apiq' = q.api /\ mlq' = q.ml \o fw
  BY <1>3, <1>4, Zenon DEF SetQueues
<1> QED
  BY <1>1, <1>5, Zenon DEF q, fw

LEMMA MlMsgIntro ==
  ASSUME NEW k, NEW ids, NEW c \in Call, NEW n \in Nat, k.reply[c] => ids[c] /= None
  PROVE  /\ Cmd("ProxyApiReply", c, n) \in MlMsg(k, ids)
         /\ Cmd("ForwardService", c, n) \in MlMsg(k, ids)
BY CmdType, CmdFields DEF MlMsg, MsgType, MainLoopCommand

LEMMA ForwardApiMsg ==
  ASSUME NEW k, NEW ids, NEW c \in Call
  PROVE  Cmd("ForwardApi", c, 0) \in MlMsg(k, ids)
BY CmdType, CmdFields DEF MlMsg, MsgType, MainLoopCommand

LEMMA ApiMsgIntro ==
  ASSUME NEW c \in Call, NEW n \in Nat
  PROVE  /\ Cmd("ServiceCommand", c, 0) \in ApiMsg /\ Cmd("ServiceReply", c, 0) \in ApiMsg
         /\ Cmd("Failure", c, 0) \in ApiMsg /\ (n >= 1 => Cmd("Adjust", c, n) \in ApiMsg)
BY CmdType, CmdFields DEF ApiMsg, MsgType, ApiCommand

LEMMA DispatchMsg ==
  ASSUME conf \in Confs, NEW ids, NEW c \in Call, conf.reply[c] => ids[c] /= None
  PROVE  dispatch(c) \in MlMsg(conf, ids)
BY DispatchFacts DEF MlMsg

LEMMA MlMsgMono ==
  ASSUME NEW k, NEW ids, NEW jds, \A c \in Call : ids[c] /= None => jds[c] /= None
  PROVE  MlMsg(k, ids) \subseteq MlMsg(k, jds) /\ SvcMsg(k, ids) \subseteq SvcMsg(k, jds)
<1>1. \A m \in Msg : m.c \in Call
  BY DEF Msg
<1> QED
  BY <1>1 DEF MlMsg, SvcMsg

(* Steps that leave the query ids alone. *)
LEMMA MsgQuiet ==
  ASSUME TypeOK, MsgInv, Next, ~ServiceCommand, conf' = conf, qid' = qid
  PROVE  MsgInv'
<1> DEFINE ML == MlMsg(conf, qid)
<1> DEFINE SV == SvcMsg(conf, qid)
<1>t. /\ conf \in Confs /\ mlq \in Seq(Msg) /\ apiq \in Seq(Msg) /\ svcs \subseteq Msg
      /\ sent \in [Client -> Nat] /\ flight \in [Call -> Nat] /\ qid \in [Call -> Nat]
  BY DEF TypeOK
<1>m. /\ mlq \in Seq(ML) /\ apiq \in Seq(ApiMsg) /\ svcs \subseteq SV
      /\ \A c \in Call : conf.reply[c] /\ flight[c] > 0 => qid[c] /= None
  BY Zenon DEF MsgInv
<1>s. SV \subseteq ML /\ SV \subseteq Msg /\ ML \subseteq Msg
  BY DEF SvcMsg, MlMsg
<1>g. SUFFICES /\ mlq' \in Seq(ML) /\ apiq' \in Seq(ApiMsg) /\ svcs' \subseteq SV
               /\ \A c \in Call : conf.reply[c] /\ flight'[c] > 0 => qid[c] /= None
  BY Zenon DEF MsgInv
<1> DEFINE Goal == /\ mlq' \in Seq(ML) /\ apiq' \in Seq(ApiMsg) /\ svcs' \subseteq SV
                   /\ \A c \in Call : conf.reply[c] /\ flight'[c] > 0 => qid[c] /= None
<1>a. ASSUME mlq /= <<>>
      PROVE  /\ Head(mlq) \in ML /\ Tail(mlq) \in Seq(ML)
             /\ Head(mlq).c \in Call /\ Head(mlq).n \in Nat
             /\ conf.reply[Head(mlq).c] /\ Head(mlq).t /= "ForwardApi"
                  => qid[Head(mlq).c] /= None
  <2>1. Head(mlq) \in ML /\ Tail(mlq) \in Seq(ML)
    BY <1>m, <1>a, SeqHead
  <2> QED
    BY <2>1 DEF MlMsg, Msg
<1>b. ASSUME apiq /= <<>>
      PROVE  /\ Head(apiq) \in ApiMsg /\ Tail(apiq) \in Seq(ApiMsg)
             /\ Head(apiq).c \in Call /\ Head(apiq).n \in Nat
  <2>1. Head(apiq) \in ApiMsg /\ Tail(apiq) \in Seq(ApiMsg)
    BY <1>m, <1>b, SeqHead
  <2> QED
    BY <2>1 DEF ApiMsg, Msg
<1> HIDE DEF ML, SV
<1>1. ASSUME NEW t \in Client, DHTIn_send(t) PROVE Goal
  <2> DEFINE c == conf.prog[t][sent[t] + 1]
  <2>1. c \in Call
    <3>1. conf.prog[t] \in Seq(Call) /\ sent[t] \in Nat /\ sent[t] < Len(conf.prog[t])
      BY <1>t, <1>1, ConfType DEF DHTIn_send
    <3> QED
      BY <3>1
  <2>2. Cmd("ForwardApi", c, 0) \in ML
    BY <2>1, ForwardApiMsg DEF ML
  <2>3. ~conf.reply[c] => dispatch(c) \in ML
    BY <1>t, <2>1, DispatchMsg DEF ML
  <2>4. /\ \/ mlq' = Append(mlq, Cmd("ForwardApi", c, 0))
           \/ ~conf.reply[c] /\ mlq' = Append(mlq, dispatch(c))
        /\ apiq' = apiq /\ svcs' = svcs /\ flight' = flight
    BY <1>1 DEF DHTIn_send
  <2> HIDE DEF c
  <2> QED
    BY <1>m, <2>2, <2>3, <2>4, SeqSteps, Zenon
<1>2. ASSUME NEW t \in Client, clone_wait(t) \/ Notified(t) \/ Spurious(t) PROVE Goal
  BY <1>m, <1>2 DEF clone_wait, Notified, Spurious
<1>3. CASE ForwardApi
  <2> DEFINE c == Head(mlq).c
  <2>1. /\ mlq /= <<>> /\ svcs' = svcs /\ flight' = flight
        /\ \/ /\ conf.reply[c] /\ mlq' = Tail(mlq)
              /\ \/ apiq' = Append(apiq, Cmd("ServiceReply", c, 0))
                 \/ apiq' = Append(apiq, Cmd("ServiceCommand", c, 0))
           \/ ~conf.reply[c] /\ apiq' = apiq /\ mlq' = <<dispatch(c)>> \o Tail(mlq)
    BY <1>3 DEF ForwardApi, MCReply
  <2>2. c \in Call
    BY <1>a, <2>1
  <2>3. ~conf.reply[c] => dispatch(c) \in ML
    BY <1>t, <2>2, DispatchMsg DEF ML
  <2>4. Cmd("ServiceReply", c, 0) \in ApiMsg /\ Cmd("ServiceCommand", c, 0) \in ApiMsg
    BY <2>2, ApiMsgIntro
  <2> HIDE DEF c
  <2>5. Tail(mlq) \in Seq(ML)
    BY <1>a, <2>1
  <2>6. mlq' \in Seq(ML)
    BY <2>1, <2>3, <2>5, SeqSteps, Zenon
  <2>7. apiq' \in Seq(ApiMsg)
    BY <1>m, <2>1, <2>4, SeqSteps, Zenon
  <2> QED
    BY <1>m, <2>1, <2>6, <2>7
<1>4. CASE ForwardService
  <2> DEFINE m == Head(mlq)
  <2> DEFINE nb_ok == IF m.n < conf.peers THEN m.n ELSE conf.peers
  <2>1. mlq /= <<>> /\ m.t = "ForwardService" /\ mlq' = Tail(mlq) /\ svcs' = svcs
    BY <1>4 DEF ForwardService, FromMl
  <2>2. /\ m.n \in Nat /\ m.c \in Call /\ conf.peers \in Nat
        /\ conf.reply[m.c] => qid[m.c] /= None
    BY <1>t, <1>a, <2>1, ConfType
  <2>3. nb_ok < m.n => m.n - nb_ok \in Nat /\ m.n - nb_ok >= 1
    BY <2>2
  <2> DEFINE q == IF nb_ok < m.n /\ qid[m.c] /= None
                  THEN Append(apiq, Cmd("Adjust", m.c, m.n - nb_ok)) ELSE apiq
  <2>4. Cmd("Failure", m.c, 0) \in ApiMsg
        /\ (nb_ok < m.n => Cmd("Adjust", m.c, m.n - nb_ok) \in ApiMsg)
    BY <2>2, <2>3, ApiMsgIntro
  <2>5. q \in Seq(ApiMsg)
    BY <1>m, <2>4, SeqSteps
  <2>6. Append(q, Cmd("Failure", m.c, 0)) \in Seq(ApiMsg)
    BY <2>4, <2>5, SeqSteps
  <2>7. apiq' = q \/ apiq' = Append(q, Cmd("Failure", m.c, 0))
    BY <1>4, Zenon DEF ForwardService
  <2>8. apiq' \in Seq(ApiMsg)
    <3> HIDE DEF q, nb_ok, m
    <3> QED
      BY <2>5, <2>6, <2>7, Zenon
  <2>9. \E v : flight' = [flight EXCEPT ![m.c] = v]
    BY <1>4, Zenon DEF ForwardService
  <2>10. \A c \in Call : c /= m.c => flight'[c] = flight[c]
    BY <1>t, <2>9
  <2> HIDE DEF q, nb_ok
  <2>11. \A c \in Call : conf.reply[c] /\ flight'[c] > 0 => qid[c] /= None
    BY <1>m, <2>2, <2>10
  <2> QED
    BY SMTT(30), <1>m, <1>a, <2>1, <2>8, <2>11
<1>5. CASE ToService
  <2>1. /\ mlq /= <<>> /\ mlq' = Tail(mlq) /\ apiq' = apiq /\ svcs' = svcs \cup {Head(mlq)}
        /\ flight' = flight /\ Head(mlq).t \in {"ProxyGlobal", "PeerStore"}
    BY <1>5 DEF ToService, FromMl
  <2>2. Head(mlq) \in SV
    BY <1>a, <2>1 DEF SV, ML, SvcMsg
  <2> QED
    BY <1>m, <1>a, <2>1, <2>2
<1>6. CASE TryConnect
  <2>1. /\ mlq /= <<>> /\ Head(mlq).t = "TryConnect" /\ mlq' = Tail(mlq)
        /\ apiq' = apiq /\ svcs' = svcs
        /\ flight' = flight \/ \E v : flight' = [flight EXCEPT ![Head(mlq).c] = v]
    BY <1>6, Zenon DEF TryConnect, FromMl
  <2>2. \A c \in Call : c /= Head(mlq).c => flight'[c] = flight[c]
    BY <1>t, <2>1
  <2>3. \A c \in Call : conf.reply[c] /\ flight'[c] > 0 => qid[c] /= None
    BY <1>m, <1>a, <2>1, <2>2
  <2> QED
    BY <1>m, <1>a, <2>1, <2>3
<1>7. CASE ProxyApiReply
  <2>1. /\ mlq /= <<>> /\ mlq' = Tail(mlq) /\ svcs' = svcs /\ flight' = flight
        /\ apiq' = Append(apiq, Cmd("ServiceReply", Head(mlq).c, 0))
    BY <1>7 DEF ProxyApiReply, FromMl, MCReply
  <2>2. Cmd("ServiceReply", Head(mlq).c, 0) \in ApiMsg
    BY <1>a, <2>1, ApiMsgIntro
  <2> QED
    BY <1>m, <1>a, <2>1, <2>2, SeqSteps
<1>8. CASE ServiceReply \/ Failure
  <2>1. apiq /= <<>> /\ apiq' = Tail(apiq) /\ mlq' = mlq /\ svcs' = svcs /\ flight' = flight
    BY <1>8 DEF ServiceReply, Failure, FromApi, give
  <2> QED
    BY <1>m, <1>b, <2>1
<1>9. CASE Adjust
  <2> DEFINE m == Head(apiq)
  <2>1. /\ apiq /= <<>> /\ mlq' = mlq /\ svcs' = svcs /\ flight' = flight
        /\ apiq' = IF m.n <= 1 THEN Tail(apiq)
                   ELSE <<Cmd("Adjust", m.c, m.n - 1)>> \o Tail(apiq)
    BY <1>9 DEF Adjust, FromApi, give
  <2>2. ~(m.n <= 1) => m.n - 1 \in Nat /\ m.n - 1 >= 1
    BY <1>b, <2>1
  <2>3. ~(m.n <= 1) => Cmd("Adjust", m.c, m.n - 1) \in ApiMsg
    BY <1>b, <2>1, <2>2, ApiMsgIntro
  <2>4. apiq' \in Seq(ApiMsg)
    BY <1>b, <2>1, <2>3, SeqSteps
  <2> QED
    BY <1>m, <2>1, <2>4
<1>10. CASE Service
  <2>1. PICK m \in svcs :
          /\ svcs' = svcs \ {m} /\ flight' = flight /\ lost' = lost
          /\ LET q == answer(Queues, m.c) IN apiq' = q.api /\ mlq' = q.ml \o GlobalReply(m)
    BY <1>10, ServiceCases
  <2> DEFINE q == answer(Queues, m.c)
  <2>2. m.c \in Call /\ (conf.reply[m.c] => qid[m.c] /= None) /\ conf.nb_for[m.c] \in Nat
    <3>1. m.c \in Call /\ m.t \in {"ProxyGlobal", "PeerStore"} /\ m \in ML
      BY <1>m, <1>s, <1>t DEF SV, SvcMsg, ML, Msg
    <3> QED
      BY <1>t, <3>1, ConfType DEF ML, MlMsg
  <2>3. /\ Cmd("ServiceReply", m.c, 0) \in ApiMsg
        /\ Cmd("ProxyApiReply", m.c, 0) \in ML /\ Cmd("ForwardService", m.c, 1) \in ML
    BY <2>2, ApiMsgIntro, MlMsgIntro, Zenon DEF ML
  <2>4. GlobalReply(m) \in Seq(ML)
    <3>1. [i \in 1..conf.nb_for[m.c] |-> Cmd("ForwardService", m.c, 1)] \in Seq(ML)
      BY <2>2, <2>3
    <3>2. <<>> \in Seq(ML)
      OBVIOUS
    <3> QED
      BY <3>1, <3>2, Zenon DEF GlobalReply
  <2>5. \/ q.api = apiq /\ q.ml = mlq
        \/ q.ml = mlq /\ q.api = Append(apiq, Cmd("ServiceReply", m.c, 0))
        \/ q.api = apiq /\ q.ml = Append(mlq, Cmd("ProxyApiReply", m.c, 0))
    BY AnswerCases, Zenon
  <2> HIDE DEF q
  <2>6. q.api \in Seq(ApiMsg) /\ q.ml \in Seq(ML)
    BY <1>m, <2>3, <2>5, SeqSteps, Zenon
  <2>7. apiq' \in Seq(ApiMsg) /\ mlq' \in Seq(ML)
    <3>1. q.ml \o GlobalReply(m) \in Seq(ML)
      BY <2>4, <2>6, ConcatFacts, Zenon
    <3> QED
      BY <2>1, <2>6, <3>1, Zenon DEF q
  <2> QED
    BY <1>m, <2>1, <2>7
<1>11. ASSUME NEW d \in Call, Answer(d) \/ Lose(d) PROVE Goal
  <2> DEFINE q == answer(Queues, d)
  <2>1. /\ flight[d] > 0 /\ flight' = [flight EXCEPT ![d] = @ - 1] /\ svcs' = svcs
        /\ \/ apiq' = Append(apiq, Cmd("ServiceReply", d, 0)) /\ mlq' = mlq
           \/ apiq' = q.api /\ mlq' = q.ml
           \/ apiq' = apiq /\ mlq' = mlq
    BY <1>11, Zenon DEF Answer, Lose, SetQueues, MCReply
  <2>2. conf.reply[d] => qid[d] /= None
    BY <1>m, <2>1
  <2>3. Cmd("ServiceReply", d, 0) \in ApiMsg /\ Cmd("ProxyApiReply", d, 0) \in ML
    BY <2>2, ApiMsgIntro, MlMsgIntro DEF ML
  <2>4. \/ q.api = apiq /\ q.ml = mlq
        \/ q.ml = mlq /\ q.api = Append(apiq, Cmd("ServiceReply", d, 0))
        \/ q.api = apiq /\ q.ml = Append(mlq, Cmd("ProxyApiReply", d, 0))
    BY AnswerCases, Zenon
  <2> HIDE DEF q
  <2>5. apiq' \in Seq(ApiMsg) /\ mlq' \in Seq(ML)
    BY <1>m, <2>1, <2>3, <2>4, SeqSteps, Zenon
  <2>6. \A c \in Call : conf.reply[c] /\ flight'[c] > 0 => qid[c] /= None
    BY <1>t, <1>m, <2>1, <2>2
  <2> QED
    BY <1>m, <2>1, <2>5, <2>6
<1> QED
  BY <1>1, <1>2, <1>3, <1>4, <1>5, <1>6, <1>7, <1>8, <1>9, <1>10, <1>11, Zenon
     DEF Next, MainLoop, ApiService

(* Only the Api service gives query ids. *)
LEMMA SameIds == Next /\ ~ServiceCommand => conf' = conf /\ qid' = qid
<1> SUFFICES ASSUME Next, ~ServiceCommand PROVE conf' = conf /\ qid' = qid
  OBVIOUS
<1>1. ASSUME NEW t \in Client, DHTIn_send(t) \/ clone_wait(t) \/ Notified(t) \/ Spurious(t)
      PROVE  conf' = conf /\ qid' = qid
  BY <1>1 DEF DHTIn_send, clone_wait, Notified, Spurious
<1>2. CASE MainLoop
  BY <1>2, Zenon DEF MainLoop, ForwardApi, ForwardService, ToService, TryConnect, ProxyApiReply,
              MlUnchanged
<1>3. CASE ServiceReply \/ Failure \/ Adjust
  BY <1>3 DEF ServiceReply, Failure, Adjust, give
<1>4. CASE Service
  BY <1>4 DEF Service, SvcUnchanged
<1>5. ASSUME NEW c \in Call, Answer(c) \/ Lose(c) PROVE conf' = conf /\ qid' = qid
  BY <1>5 DEF Answer, Lose, SvcUnchanged
<1> QED
  BY <1>1, <1>2, <1>3, <1>4, <1>5, Zenon DEF Next, ApiService

LEMMA MsgStep == TypeOK /\ MsgInv /\ [Next]_vars => MsgInv'
<1> SUFFICES ASSUME TypeOK, MsgInv, [Next]_vars PROVE MsgInv'
  OBVIOUS
<1>1. CASE UNCHANGED vars
  BY <1>1 DEF MsgInv, vars
<1>2. CASE Next /\ ~ServiceCommand
  BY <1>2, SameIds, MsgQuiet
<1>3. CASE ServiceCommand
  <2> DEFINE c == Head(apiq).c
  <2>1. /\ apiq /= <<>> /\ apiq' = Tail(apiq) /\ svcs' = svcs /\ flight' = flight /\ conf' = conf
        /\ qid' = [qid EXCEPT ![c] = counter + 1] /\ mlq' = Append(mlq, dispatch(c))
    BY <1>3 DEF ServiceCommand, FromApi
  <2>2. /\ conf \in Confs /\ qid \in [Call -> Nat] /\ counter \in Nat
    BY DEF TypeOK
  <2>3. /\ mlq \in Seq(MlMsg(conf, qid)) /\ apiq \in Seq(ApiMsg)
        /\ svcs \subseteq SvcMsg(conf, qid)
        /\ \A d \in Call : conf.reply[d] /\ flight[d] > 0 => qid[d] /= None
    BY Zenon DEF MsgInv
  <2>4. Head(apiq) \in ApiMsg /\ Tail(apiq) \in Seq(ApiMsg)
    BY <2>1, <2>3, SeqHead
  <2>5. c \in Call
    BY <2>4 DEF ApiMsg, Msg
  <2> HIDE DEF c
  <2>6. qid'[c] /= None /\ \A d \in Call : qid[d] /= None => qid'[d] /= None
    BY <2>1, <2>2, <2>5 DEF None
  <2> DEFINE ML == MlMsg(conf, qid')
  <2>7. MlMsg(conf, qid) \subseteq ML /\ SvcMsg(conf, qid) \subseteq SvcMsg(conf, qid')
    BY <2>6, MlMsgMono, Zenon
  <2>8. dispatch(c) \in ML
    BY <2>2, <2>5, <2>6, DispatchMsg
  <2> HIDE DEF ML
  <2>9. mlq \in Seq(ML)
    BY <2>3, <2>7, SeqMono
  <2>10. mlq' \in Seq(ML)
    BY <2>1, <2>8, <2>9, SeqSteps
  <2>11. svcs' \subseteq SvcMsg(conf, qid')
    BY <2>1, <2>3, <2>7, Zenon
  <2>12. \A d \in Call : conf.reply[d] /\ flight'[d] > 0 => qid'[d] /= None
    BY <2>1, <2>3, <2>6
  <2> QED
    BY <2>1, <2>4, <2>10, <2>11, <2>12, Zenon DEF MsgInv, ML
<1> QED
  BY <1>1, <1>2, <1>3

-----------------------------------------------------------------------------
(* What is owed. *)

(* The commands by what they stand for. *)
LEMMA CmdWeight ==
  ASSUME NEW k, NEW c, NEW d, NEW n
  PROVE  /\ WeightFor(k, c, Cmd("ForwardService", d, n)) = IF d = c THEN n ELSE 0
         /\ WeightFor(k, c, Cmd("Adjust", d, n)) = IF d = c THEN n ELSE 0
         /\ WeightFor(k, c, Cmd("ForwardApi", d, n)) = IF d = c THEN Total(k, d) ELSE 0
         /\ WeightFor(k, c, Cmd("ServiceCommand", d, n)) = IF d = c THEN Total(k, d) ELSE 0
         /\ WeightFor(k, c, Cmd("ServiceReply", d, n)) = IF d = c THEN 1 ELSE 0
         /\ WeightFor(k, c, Cmd("ProxyApiReply", d, n)) = IF d = c THEN 1 ELSE 0
         /\ WeightFor(k, c, Cmd("Failure", d, n)) = IF d = c THEN 1 ELSE 0
<1>1. ASSUME NEW t \in {"ForwardService", "Adjust"}
      PROVE  WeightFor(k, c, Cmd(t, d, n)) = IF d = c THEN n ELSE 0
  BY <1>1, CmdFields DEF WeightFor, Weight
<1>2. ASSUME NEW t \in {"ForwardApi", "ServiceCommand"}
      PROVE  WeightFor(k, c, Cmd(t, d, n)) = IF d = c THEN Total(k, d) ELSE 0
  BY <1>2, CmdFields DEF WeightFor, Weight
<1>3. ASSUME NEW t \in {"ServiceReply", "ProxyApiReply", "Failure"}
      PROVE  WeightFor(k, c, Cmd(t, d, n)) = IF d = c THEN 1 ELSE 0
  BY <1>3, CmdFields DEF WeightFor, Weight
<1> QED
  BY <1>1, <1>2, <1>3

(* The messages at the head of a channel. *)
LEMMA HeadWeight ==
  ASSUME NEW k, NEW c, NEW m
  PROVE  /\ m.c /= c => WeightFor(k, c, m) = 0
         /\ m.c = c /\ m.t \in {"ForwardService", "Adjust"} => WeightFor(k, c, m) = m.n
         /\ m.c = c /\ m.t \in {"ForwardApi", "ProxyGlobal", "PeerStore", "ServiceCommand"}
              => WeightFor(k, c, m) = Total(k, c)
         /\ m.c = c /\ m.t \in {"TryConnect", "ProxyApiReply", "ServiceReply", "Failure"}
              => WeightFor(k, c, m) = 1
<1>1. m.c /= c => WeightFor(k, c, m) = 0
  BY DEF WeightFor
<1>2. m.c = c => WeightFor(k, c, m) = Weight(k, m)
  BY DEF WeightFor
<1>3. m.t \in {"ForwardService", "Adjust"} => Weight(k, m) = m.n
  BY DEF Weight
<1>4. m.c = c /\ m.t \in {"ForwardApi", "ProxyGlobal", "PeerStore", "ServiceCommand"}
        => Weight(k, m) = Total(k, c)
  BY DEF Weight
<1>5. m.t \in {"TryConnect", "ProxyApiReply", "ServiceReply", "Failure"} => Weight(k, m) = 1
  BY DEF Weight
<1> QED
  BY <1>1, <1>2, <1>3, <1>4, <1>5, Zenon

(* What a command for call e is worth to c. *)
ShareOf(e, c, n) == IF e = c THEN n ELSE 0

LEMMA PendForwards ==
  ASSUME NEW k \in Confs, NEW c \in Call, NEW d \in Call, NEW n \in Nat
  PROVE  /\ [i \in 1..n |-> Cmd("ForwardService", d, 1)] \in Seq(Msg)
         /\ Pending(k, c, [i \in 1..n |-> Cmd("ForwardService", d, 1)]) = ShareOf(d, c, n)
<1>1. PICK m : m = Cmd("ForwardService", d, 1)
  OBVIOUS
<1>2. m \in Msg
  BY <1>1, CmdType DEF MsgType, MainLoopCommand
<1> DEFINE q == [i \in 1..n |-> m]
<1>3. q \in Seq(Msg) /\ DOMAIN q = 1..n /\ \A i \in 1..n : q[i] = m
  BY <1>2
<1>4. PICK x : x = IF d = c THEN 1 ELSE 0
  OBVIOUS
<1>5. WeightFor(k, c, m) = x /\ x \in {0, 1} /\ (x = 1 <=> d = c)
  BY <1>1, <1>4, CmdWeight
<1>6. [i \in DOMAIN q |-> WeightFor(k, c, q[i])] = [i \in 1..n |-> x]
  BY <1>3, <1>5
<1>7. Pending(k, c, q) = SumSeq([i \in DOMAIN q |-> WeightFor(k, c, q[i])])
  BY Zenon DEF Pending
<1>8. SumSeq([i \in 1..n |-> x]) = IF x = 1 THEN n ELSE 0
  BY <1>5, SumSame, Zenon
<1>9. Pending(k, c, q) = IF x = 1 THEN n ELSE 0
  <2> HIDE DEF q
  <2> QED
    BY <1>6, <1>7, <1>8, Zenon
<1>10. Pending(k, c, q) = ShareOf(d, c, n)
  BY <1>5, <1>9, Zenon DEF ShareOf
<1> QED
  BY <1>1, <1>3, <1>10, Zenon

(* An answer that the command's query id carries adds one. *)
LEMMA AnswerPend ==
  ASSUME conf \in Confs, mlq \in Seq(Msg), apiq \in Seq(Msg), NEW c \in Call, NEW d \in Call,
         d = c => qid[d] /= None
  PROVE  LET q == answer(Queues, d) IN
         /\ q.ml \in Seq(Msg) /\ q.api \in Seq(Msg)
         /\ Pending(conf, c, q.ml) + Pending(conf, c, q.api)
              = Pending(conf, c, mlq) + Pending(conf, c, apiq) + IF d = c THEN 1 ELSE 0
         /\ Pending(conf, c, q.ml) \in Nat /\ Pending(conf, c, q.api) \in Nat
<1> DEFINE q == answer(Queues, d)
<1>1. PICK x \in Nat : x = IF d = c THEN 1 ELSE 0
  OBVIOUS
<1>2. q.ml \in Seq(Msg) /\ q.api \in Seq(Msg)
  BY AnswerType
<1>3. /\ Pending(conf, c, mlq) \in Nat /\ Pending(conf, c, apiq) \in Nat
      /\ Pending(conf, c, q.ml) \in Nat /\ Pending(conf, c, q.api) \in Nat
  BY <1>2, PendConcat, Zenon
<1>4. /\ Cmd("ServiceReply", d, 0) \in Msg /\ Cmd("ProxyApiReply", d, 0) \in Msg
      /\ WeightFor(conf, c, Cmd("ServiceReply", d, 0)) = x
      /\ WeightFor(conf, c, Cmd("ProxyApiReply", d, 0)) = x
  BY <1>1, CmdType, CmdWeight DEF MsgType, MainLoopCommand, ApiCommand
<1>5. \/ qid[d] = None /\ q.api = apiq /\ q.ml = mlq
      \/ q.ml = mlq /\ q.api = Append(apiq, Cmd("ServiceReply", d, 0))
      \/ q.api = apiq /\ q.ml = Append(mlq, Cmd("ProxyApiReply", d, 0))
  BY AnswerCases, Zenon
<1>6. qid[d] = None => x = 0
  BY <1>1
<1>7. /\ Pending(conf, c, Append(apiq, Cmd("ServiceReply", d, 0))) = Pending(conf, c, apiq) + x
      /\ Pending(conf, c, Append(mlq, Cmd("ProxyApiReply", d, 0))) = Pending(conf, c, mlq) + x
  <2>1. PICK r, y : r = Cmd("ServiceReply", d, 0) /\ y = Cmd("ProxyApiReply", d, 0)
    OBVIOUS
  <2>2. r \in Msg /\ y \in Msg /\ WeightFor(conf, c, r) = x /\ WeightFor(conf, c, y) = x
    BY <1>4, <2>1
  <2>3. Pending(conf, c, Append(apiq, r)) = Pending(conf, c, apiq) + WeightFor(conf, c, r)
    BY <2>2, PendAppend, Zenon
  <2>4. Pending(conf, c, Append(mlq, y)) = Pending(conf, c, mlq) + WeightFor(conf, c, y)
    BY <2>2, PendAppend, Zenon
  <2> QED
    BY <2>1, <2>2, <2>3, <2>4
<1> HIDE DEF q
<1>8. PICK a, b : a = Pending(conf, c, mlq) /\ b = Pending(conf, c, apiq)
  OBVIOUS
<1>9. PICK u, v : u = Pending(conf, c, q.ml) /\ v = Pending(conf, c, q.api)
  OBVIOUS
<1>10. \/ u = a /\ v = b /\ x = 0
       \/ u = a /\ v = b + x
       \/ u = a + x /\ v = b
  BY <1>5, <1>6, <1>7, <1>8, <1>9, Zenon
<1>11. u + v = a + b + x
  BY <1>3, <1>8, <1>9, <1>10
<1> QED
  BY <1>1, <1>2, <1>3, <1>8, <1>9, <1>11, Zenon DEF q

(* The counts of what is owed to c, as numbers. *)
Counts(c, d, l, f, p, a, h) ==
  /\ d = done[c] /\ l = lost[c] /\ f = flight[c] /\ p = Pending(conf, c, mlq)
  /\ a = Pending(conf, c, apiq) /\ h = Held(conf, c, svcs)

LEMMA CountsExist ==
  ASSUME TypeOK, NEW c \in Call
  PROVE  \E d, l, f, p, a, h \in Nat : Counts(c, d, l, f, p, a, h)
<1>t. /\ conf \in Confs /\ mlq \in Seq(Msg) /\ apiq \in Seq(Msg)
      /\ done[c] \in Nat /\ lost[c] \in Nat /\ flight[c] \in Nat
  BY DEF TypeOK
<1>1. Pending(conf, c, mlq) \in Nat /\ Pending(conf, c, apiq) \in Nat
  BY <1>t, PendConcat
<1>2. Cmd("ForwardApi", c, 0) \in Msg
  BY CmdType DEF MsgType, MainLoopCommand
<1>3. Total(conf, c) \in Nat
  BY <1>t, <1>2, WeightType
<1>4. Held(conf, c, svcs) \in Nat
  BY <1>3 DEF Held
<1> QED
  BY <1>t, <1>1, <1>4, Zenon DEF Counts

LEMMA CountsOwed ==
  ASSUME NEW c, NEW d, NEW l, NEW f, NEW p, NEW a, NEW h, Counts(c, d, l, f, p, a, h)
  PROVE  Owed(c) = d + l + f + p + a + h
BY Zenon DEF Owed, Counts

(* A main loop's command is taken out of its channel. *)
LEMMA MlTaken ==
  ASSUME TypeOK, MsgInv, NEW c \in Call, mlq /= <<>>
  PROVE  /\ Head(mlq) \in Msg /\ Head(mlq).c \in Call /\ Head(mlq).n \in Nat
         /\ Tail(mlq) \in Seq(Msg) /\ Head(mlq) \in MlMsg(conf, qid)
         /\ Pending(conf, c, mlq) = WeightFor(conf, c, Head(mlq)) + Pending(conf, c, Tail(mlq))
         /\ Pending(conf, c, Tail(mlq)) \in Nat /\ WeightFor(conf, c, Head(mlq)) \in Nat
<1>t. conf \in Confs /\ mlq \in Seq(Msg) /\ mlq \in Seq(MlMsg(conf, qid))
  BY Zenon DEF TypeOK, MsgInv
<1>1. /\ Head(mlq) \in Msg /\ Head(mlq).c \in Call /\ Head(mlq).n \in Nat
      /\ Tail(mlq) \in Seq(Msg)
  BY <1>t, ChannelType
<1>2. Head(mlq) \in MlMsg(conf, qid)
  BY <1>t, SeqHead
<1>3. Pending(conf, c, mlq) = WeightFor(conf, c, Head(mlq)) + Pending(conf, c, Tail(mlq))
  BY <1>t, PendHead
<1>4. Pending(conf, c, Tail(mlq)) \in Nat
  BY <1>t, <1>1, PendConcat, Zenon
<1>5. WeightFor(conf, c, Head(mlq)) \in Nat
  BY <1>t, <1>1, WeightType
<1> QED
  BY <1>1, <1>2, <1>3, <1>4, <1>5, Zenon

LEMMA ApiTaken ==
  ASSUME TypeOK, MsgInv, NEW c \in Call, apiq /= <<>>
  PROVE  /\ Head(apiq) \in Msg /\ Head(apiq).c \in Call /\ Head(apiq).n \in Nat
         /\ Tail(apiq) \in Seq(Msg) /\ Head(apiq) \in ApiMsg
         /\ Pending(conf, c, apiq) = WeightFor(conf, c, Head(apiq)) + Pending(conf, c, Tail(apiq))
         /\ Pending(conf, c, Tail(apiq)) \in Nat /\ WeightFor(conf, c, Head(apiq)) \in Nat
<1>t. conf \in Confs /\ apiq \in Seq(Msg) /\ apiq \in Seq(ApiMsg)
  BY Zenon DEF TypeOK, MsgInv
<1>1. /\ Head(apiq) \in Msg /\ Head(apiq).c \in Call /\ Head(apiq).n \in Nat
      /\ Tail(apiq) \in Seq(Msg)
  BY <1>t, ChannelType
<1>2. Head(apiq) \in ApiMsg
  BY <1>t, SeqHead
<1>3. Pending(conf, c, apiq) = WeightFor(conf, c, Head(apiq)) + Pending(conf, c, Tail(apiq))
  BY <1>t, PendHead
<1>4. Pending(conf, c, Tail(apiq)) \in Nat
  BY <1>t, <1>1, PendConcat, Zenon
<1>5. WeightFor(conf, c, Head(apiq)) \in Nat
  BY <1>t, <1>1, WeightType
<1> QED
  BY <1>1, <1>2, <1>3, <1>4, <1>5, Zenon

LEMMA OwedKept ==
  ASSUME NEW c, NEW d, NEW l, NEW f, NEW p, NEW a, NEW h, Counts(c, d, l, f, p, a, h),
         conf' = conf,
         done'[c] + lost'[c] + flight'[c] + Pending(conf, c, mlq') + Pending(conf, c, apiq')
           + Held(conf, c, svcs') = d + l + f + p + a + h
  PROVE  Owed(c)' = Owed(c)
<1>1. Owed(c) = d + l + f + p + a + h
  BY CountsOwed
<1>2. Owed(c)' = done'[c] + lost'[c] + flight'[c] + Pending(conf', c, mlq')
                   + Pending(conf', c, apiq') + Held(conf', c, svcs')
  BY Zenon DEF Owed
<1> QED
  BY <1>1, <1>2, Zenon

(* What the Api service is told. *)
LEMMA Told ==
  ASSUME conf \in Confs, NEW c \in Call, NEW q \in Seq(Msg), NEW e \in Call
  PROVE  /\ Pending(conf, c, Append(q, Cmd("ServiceReply", e, 0)))
              = Pending(conf, c, q) + IF e = c THEN 1 ELSE 0
         /\ Pending(conf, c, Append(q, Cmd("ServiceCommand", e, 0)))
              = Pending(conf, c, q) + IF e = c THEN Total(conf, e) ELSE 0
         /\ Pending(conf, c, Append(q, Cmd("Failure", e, 0)))
              = Pending(conf, c, q) + IF e = c THEN 1 ELSE 0
<1>1. ASSUME NEW m \in Msg
      PROVE  Pending(conf, c, Append(q, m)) = Pending(conf, c, q) + WeightFor(conf, c, m)
  BY PendAppend, Zenon
<1>2. /\ Cmd("ServiceReply", e, 0) \in Msg /\ Cmd("ServiceCommand", e, 0) \in Msg
      /\ Cmd("Failure", e, 0) \in Msg
  BY CmdType, Zenon DEF MsgType, ApiCommand
<1>3. /\ WeightFor(conf, c, Cmd("ServiceReply", e, 0)) = IF e = c THEN 1 ELSE 0
      /\ WeightFor(conf, c, Cmd("ServiceCommand", e, 0)) = IF e = c THEN Total(conf, e) ELSE 0
      /\ WeightFor(conf, c, Cmd("Failure", e, 0)) = IF e = c THEN 1 ELSE 0
  BY CmdWeight
<1>4. Pending(conf, c, Append(q, Cmd("ServiceReply", e, 0)))
        = Pending(conf, c, q) + WeightFor(conf, c, Cmd("ServiceReply", e, 0))
  BY <1>1, <1>2, Zenon
<1>5. Pending(conf, c, Append(q, Cmd("ServiceCommand", e, 0)))
        = Pending(conf, c, q) + WeightFor(conf, c, Cmd("ServiceCommand", e, 0))
  BY <1>1, <1>2, Zenon
<1>6. Pending(conf, c, Append(q, Cmd("Failure", e, 0)))
        = Pending(conf, c, q) + WeightFor(conf, c, Cmd("Failure", e, 0))
  BY <1>1, <1>2, Zenon
<1> QED
  BY <1>3, <1>4, <1>5, <1>6

LEMMA AdjustWeight ==
  ASSUME NEW k, NEW c, NEW e \in Call, NEW n \in Nat
  PROVE  Cmd("Adjust", e, n) \in Msg /\ WeightFor(k, c, Cmd("Adjust", e, n)) = ShareOf(e, c, n)
BY CmdType, CmdWeight DEF ShareOf, MsgType, ApiCommand

LEMMA OwedForwardApi ==
  ASSUME TypeOK, MsgInv, NEW c \in Call, conf.reply[c], ForwardApi
  PROVE  Owed(c)' = Owed(c)
<1>t. conf \in Confs /\ mlq \in Seq(Msg) /\ apiq \in Seq(Msg)
  BY DEF TypeOK
<1>1. PICK d, l, f, p, a, h \in Nat : Counts(c, d, l, f, p, a, h)
  BY CountsExist
<1> DEFINE e == Head(mlq).c
<1>2. /\ mlq /= <<>> /\ Head(mlq).t = "ForwardApi"
      /\ svcs' = svcs /\ flight' = flight /\ lost' = lost /\ done' = done /\ conf' = conf
  BY DEF ForwardApi, MlUnchanged
<1>3. \/ /\ conf.reply[e] /\ mlq' = Tail(mlq)
         /\ \/ Shortcut(e) /\ apiq' = Append(apiq, Cmd("ServiceReply", e, 0))
            \/ apiq' = Append(apiq, Cmd("ServiceCommand", e, 0))
      \/ ~conf.reply[e] /\ apiq' = apiq /\ mlq' = <<dispatch(e)>> \o Tail(mlq)
  BY DEF ForwardApi, MCReply
<1>4. PICK w, r \in Nat : w = WeightFor(conf, c, Head(mlq)) /\ r = Pending(conf, c, Tail(mlq))
  BY <1>2, MlTaken
<1>5. p = w + r /\ e \in Call /\ Tail(mlq) \in Seq(Msg)
  BY <1>1, <1>2, <1>4, MlTaken DEF Counts
<1>6. w = IF e = c THEN Total(conf, c) ELSE 0
  BY <1>2, <1>4, HeadWeight
<1> HIDE DEF e
<1>7. CASE /\ conf.reply[e] /\ mlq' = Tail(mlq)
           /\ \/ Shortcut(e) /\ apiq' = Append(apiq, Cmd("ServiceReply", e, 0))
              \/ apiq' = Append(apiq, Cmd("ServiceCommand", e, 0))
  <2>1. /\ Pending(conf, c, Append(apiq, Cmd("ServiceReply", e, 0)))
             = Pending(conf, c, apiq) + IF e = c THEN 1 ELSE 0
        /\ Pending(conf, c, Append(apiq, Cmd("ServiceCommand", e, 0)))
             = Pending(conf, c, apiq) + IF e = c THEN Total(conf, e) ELSE 0
    BY <1>t, <1>5, Told, Zenon
  <2>2. Shortcut(e) => Total(conf, e) = 1
    BY DEF Shortcut, Total
  <2>3. /\ (IF e = c THEN Total(conf, e) ELSE 0) = w
        /\ Shortcut(e) => (IF e = c THEN 1 ELSE 0) = w
    BY <1>6, <2>2
  <2>4. Pending(conf, c, apiq') = a + w /\ Pending(conf, c, mlq') = r
    BY <1>1, <1>4, <1>7, <2>1, <2>3, Zenon DEF Counts
  <2>5. d + l + f + r + (a + w) + h = d + l + f + p + a + h
    BY <1>5
  <2>6. done'[c] = d /\ lost'[c] = l /\ flight'[c] = f /\ Held(conf, c, svcs') = h
    BY <1>1, <1>2, Zenon DEF Counts
  <2>7. done'[c] + lost'[c] + flight'[c] + Pending(conf, c, mlq') + Pending(conf, c, apiq')
        + Held(conf, c, svcs') = d + l + f + p + a + h
    BY <2>4, <2>5, <2>6
  <2> QED
    BY <1>1, <1>2, <2>7, OwedKept
<1>8. CASE ~conf.reply[e] /\ apiq' = apiq /\ mlq' = <<dispatch(e)>> \o Tail(mlq)
  <2>1. e /= c
    BY <1>8
  <2>2. dispatch(e) \in Msg /\ dispatch(e).c = e
    BY <1>t, <1>5, DispatchFacts
  <2>3. WeightFor(conf, c, dispatch(e)) = 0
    BY <2>1, <2>2, HeadWeight
  <2>4. Pending(conf, c, <<dispatch(e)>> \o Tail(mlq)) = 0 + r
    BY <1>t, <1>4, <1>5, <2>2, <2>3, PendAppend, Zenon
  <2>5. Pending(conf, c, mlq') = p
    BY <1>5, <1>6, <1>8, <2>1, <2>4
  <2>6. /\ done'[c] = d /\ lost'[c] = l /\ flight'[c] = f /\ Held(conf, c, svcs') = h
        /\ Pending(conf, c, apiq') = a
    BY <1>1, <1>2, <1>8, Zenon DEF Counts
  <2>7. done'[c] + lost'[c] + flight'[c] + Pending(conf, c, mlq') + Pending(conf, c, apiq')
        + Held(conf, c, svcs') = d + l + f + p + a + h
    BY <2>5, <2>6
  <2> QED
    BY <1>1, <1>2, <2>7, OwedKept
<1> QED
  BY <1>3, <1>7, <1>8

LEMMA OwedForwardService ==
  ASSUME TypeOK, MsgInv, NEW c \in Call, conf.reply[c], ForwardService
  PROVE  Owed(c)' = Owed(c)
<1>t. /\ conf \in Confs /\ mlq \in Seq(Msg) /\ apiq \in Seq(Msg) /\ conf.peers \in Nat
      /\ flight \in [Call -> Nat] /\ lost \in [Call -> Nat]
  BY ConfType DEF TypeOK
<1>1. PICK d, l, f, p, a, h \in Nat : Counts(c, d, l, f, p, a, h)
  BY CountsExist
<1> DEFINE m == Head(mlq)
<1> DEFINE nb_ok == IF m.n < conf.peers THEN m.n ELSE conf.peers
<1> DEFINE q == IF nb_ok < m.n /\ qid[m.c] /= None
                THEN Append(apiq, Cmd("Adjust", m.c, m.n - nb_ok)) ELSE apiq
<1>2. /\ mlq /= <<>> /\ m.t = "ForwardService" /\ mlq' = Tail(mlq)
      /\ svcs' = svcs /\ done' = done /\ conf' = conf
  BY Zenon DEF ForwardService, FromMl, MlUnchanged
<1>3. \/ apiq' = q /\ lost' = lost /\ flight' = [flight EXCEPT ![m.c] = @ + nb_ok]
      \/ \E k \in 1..nb_ok :
           /\ apiq' = IF qid[m.c] = None THEN q ELSE Append(q, Cmd("Failure", m.c, 0))
           /\ flight' = [flight EXCEPT ![m.c] = @ + k - 1]
           /\ lost' = [lost EXCEPT ![m.c] = @ + nb_ok - k]
  BY Zenon DEF ForwardService
<1>4. PICK w, r \in Nat : w = WeightFor(conf, c, m) /\ r = Pending(conf, c, Tail(mlq))
  BY <1>2, MlTaken
<1>5. p = w + r /\ m.c \in Call /\ m.n \in Nat /\ m \in MlMsg(conf, qid)
  BY <1>1, <1>2, <1>4, MlTaken DEF Counts
<1>6. w = IF m.c = c THEN m.n ELSE 0
  BY <1>2, <1>4, HeadWeight
<1>7. m.c = c => qid[m.c] /= None
  BY <1>2, <1>5 DEF MlMsg
<1>8. PICK n \in Nat, b \in Nat, e \in Call : n = m.n /\ b = nb_ok /\ e = m.c
  <2>1. nb_ok \in Nat
    BY <1>t, <1>5
  <2> QED
    BY <1>5, <2>1
<1>9. b <= n
  BY <1>t, <1>5, <1>8
<1>q. q = IF b < n /\ qid[e] /= None THEN Append(apiq, Cmd("Adjust", e, n - b)) ELSE apiq
  BY <1>8
<1>s. \/ apiq' = q /\ lost' = lost /\ flight' = [flight EXCEPT ![e] = @ + b]
      \/ \E k \in 1..b :
           /\ apiq' = IF qid[e] = None THEN q ELSE Append(q, Cmd("Failure", e, 0))
           /\ flight' = [flight EXCEPT ![e] = @ + k - 1]
           /\ lost' = [lost EXCEPT ![e] = @ + b - k]
  <2> HIDE DEF q, nb_ok, m
  <2> QED
    BY <1>3, <1>8, Zenon
<1>w. p = w + r /\ w = (IF e = c THEN n ELSE 0) /\ (e = c => qid[e] /= None)
  BY <1>5, <1>6, <1>7, <1>8
<1>h. done'[c] = d /\ Held(conf, c, svcs') = h /\ Pending(conf, c, mlq') = r
  BY <1>1, <1>2, <1>4, Zenon DEF Counts
<1>c. l = lost[c] /\ f = flight[c] /\ a = Pending(conf, c, apiq)
  BY <1>1, Zenon DEF Counts
<1> HIDE DEF q, nb_ok, m
(* What Adjust is told of. *)
<1>10. q \in Seq(Msg) /\ Pending(conf, c, q) = a + IF e = c THEN n - b ELSE 0
  <2>1. b < n => n - b \in Nat
    BY <1>9
  <2>2. CASE b < n /\ qid[e] /= None
    <3>1. PICK x \in Nat : x = n - b
      BY <2>1, <2>2
    <3>2. /\ Append(apiq, Cmd("Adjust", e, x)) \in Seq(Msg)
          /\ Pending(conf, c, Append(apiq, Cmd("Adjust", e, x)))
               = Pending(conf, c, apiq) + ShareOf(e, c, x)
      <4>1. PICK v : v = Cmd("Adjust", e, x)
        OBVIOUS
      <4>2. v \in Msg /\ WeightFor(conf, c, v) = ShareOf(e, c, x)
        BY <4>1, AdjustWeight
      <4>3. /\ Append(apiq, v) \in Seq(Msg)
            /\ Pending(conf, c, Append(apiq, v)) = Pending(conf, c, apiq) + WeightFor(conf, c, v)
        BY <1>t, <4>2, AppendType, PendAppend, Zenon
      <4> QED
        BY <4>1, <4>2, <4>3
    <3>3. q = Append(apiq, Cmd("Adjust", e, x))
      BY <1>q, <2>2, <3>1
    <3> QED
      BY <1>c, <3>1, <3>2, <3>3 DEF ShareOf
  <2>3. CASE ~(b < n /\ qid[e] /= None)
    <3>1. q = apiq
      BY <1>q, <2>3
    <3>2. (IF e = c THEN n - b ELSE 0) = 0
      BY <1>9, <1>w, <2>3
    <3> QED
      BY <1>t, <1>c, <3>1, <3>2
  <2> QED
    BY <2>2, <2>3
<1>y. PICK y : y = IF e = c THEN n - b ELSE 0
  OBVIOUS
<1>11. y \in Nat /\ y = IF e = c THEN n - b ELSE 0
  BY <1>9, <1>y
<1>12. CASE apiq' = q /\ lost' = lost /\ flight' = [flight EXCEPT ![e] = @ + b]
  <2>1. flight'[c] = f + IF e = c THEN b ELSE 0
    BY <1>t, <1>c, <1>12
  <2>2. PICK z \in Nat : z = IF e = c THEN b ELSE 0
    OBVIOUS
  <2>3. z + y = w
    BY <1>9, <1>11, <1>w, <2>2
  <2>4. d + l + (f + z) + r + (a + y) + h = d + l + f + p + a + h
    BY <1>11, <1>w, <2>3
  <2>5. Pending(conf, c, apiq') = a + y /\ lost'[c] = l /\ flight'[c] = f + z
    BY <1>10, <1>11, <1>12, <1>c, <2>1, <2>2, Zenon
  <2>6. done'[c] + lost'[c] + flight'[c] + Pending(conf, c, mlq') + Pending(conf, c, apiq')
        + Held(conf, c, svcs') = d + l + f + p + a + h
    BY <1>h, <2>4, <2>5
  <2> QED
    BY <1>1, <1>2, <2>6, OwedKept
<1>13. CASE \E k \in 1..b :
           /\ apiq' = IF qid[e] = None THEN q ELSE Append(q, Cmd("Failure", e, 0))
           /\ flight' = [flight EXCEPT ![e] = @ + k - 1]
           /\ lost' = [lost EXCEPT ![e] = @ + b - k]
  <2>1. PICK k \in 1..b :
           /\ apiq' = IF qid[e] = None THEN q ELSE Append(q, Cmd("Failure", e, 0))
           /\ flight' = [flight EXCEPT ![e] = @ + k - 1]
           /\ lost' = [lost EXCEPT ![e] = @ + b - k]
    BY <1>13, Zenon
  <2>2. PICK z \in Nat : z = IF e = c THEN 1 ELSE 0
    OBVIOUS
  <2>3. Pending(conf, c, Append(q, Cmd("Failure", e, 0))) = Pending(conf, c, q) + z
    <3>1. Pending(conf, c, Append(q, Cmd("Failure", e, 0)))
            = Pending(conf, c, q) + IF e = c THEN 1 ELSE 0
      BY <1>t, <1>10, Told, Zenon
    <3> QED
      BY <2>2, <3>1
  <2>4. Pending(conf, c, apiq') = a + y + z
    <3>1. CASE qid[e] = None
      <4>1. z = 0 /\ apiq' = q
        BY <1>w, <2>1, <2>2, <3>1
      <4> QED
        BY <1>10, <1>11, <4>1
    <3>2. CASE qid[e] /= None
      BY <1>10, <1>11, <2>1, <2>3, <3>2
    <3> QED
      BY <3>1, <3>2
  <2>u. PICK u : u = IF e = c THEN k - 1 ELSE 0
    OBVIOUS
  <2>v. PICK v : v = IF e = c THEN b - k ELSE 0
    OBVIOUS
  <2>5. u \in Nat /\ u = IF e = c THEN k - 1 ELSE 0
    BY <2>u
  <2>6. v \in Nat /\ v = IF e = c THEN b - k ELSE 0
    BY <2>v
  <2>7. flight'[c] = f + u /\ lost'[c] = l + v
    <3>1. CASE e = c
      BY <1>t, <1>c, <2>1, <2>5, <2>6, <3>1
    <3>2. CASE e /= c
      BY <1>t, <1>c, <2>1, <2>5, <2>6, <3>2
    <3> QED
      BY <3>1, <3>2
  <2>8. u + v + y + z = w
    BY <1>9, <1>11, <1>w, <2>2, <2>5, <2>6
  <2>9. d + (l + v) + (f + u) + r + (a + y + z) + h = d + l + f + p + a + h
    BY SMTT(30), <1>11, <1>w, <2>2, <2>5, <2>6, <2>8
  <2>10. done'[c] + lost'[c] + flight'[c] + Pending(conf, c, mlq') + Pending(conf, c, apiq')
         + Held(conf, c, svcs') = d + l + f + p + a + h
    BY <1>h, <2>4, <2>7, <2>9
  <2> QED
    BY <1>1, <1>2, <2>10, OwedKept
<1> QED
  BY <1>s, <1>12, <1>13

LEMMA OwedTryConnect ==
  ASSUME TypeOK, MsgInv, NEW c \in Call, TryConnect
  PROVE  Owed(c)' = Owed(c)
<1>t. /\ flight \in [Call -> Nat] /\ lost \in [Call -> Nat]
  BY DEF TypeOK
<1>1. PICK d, l, f, p, a, h \in Nat : Counts(c, d, l, f, p, a, h)
  BY CountsExist
<1>2. /\ mlq /= <<>> /\ Head(mlq).t = "TryConnect" /\ mlq' = Tail(mlq)
      /\ svcs' = svcs /\ done' = done /\ conf' = conf /\ apiq' = apiq
  BY DEF TryConnect, FromMl, MlUnchanged
<1> DEFINE e == Head(mlq).c
<1>3. \/ lost' = [lost EXCEPT ![e] = @ + 1] /\ flight' = flight
      \/ flight' = [flight EXCEPT ![e] = @ + 1] /\ lost' = lost
  BY DEF TryConnect
<1>4. PICK w, r \in Nat : w = WeightFor(conf, c, Head(mlq)) /\ r = Pending(conf, c, Tail(mlq))
  BY <1>2, MlTaken
<1>5. p = w + r /\ e \in Call
  BY <1>1, <1>2, <1>4, MlTaken DEF Counts
<1>6. w = IF e = c THEN 1 ELSE 0
  BY <1>2, <1>4, HeadWeight
<1>7. done'[c] = d /\ Held(conf, c, svcs') = h /\ Pending(conf, c, mlq') = r
      /\ Pending(conf, c, apiq') = a
  BY <1>1, <1>2, <1>4, Zenon DEF Counts
<1>8. l = lost[c] /\ f = flight[c]
  BY <1>1, Zenon DEF Counts
<1> HIDE DEF e
<1>9. lost'[c] + flight'[c] = l + f + w /\ lost'[c] \in Nat /\ flight'[c] \in Nat
  BY <1>t, <1>3, <1>5, <1>6, <1>8
<1>10. done'[c] + lost'[c] + flight'[c] + Pending(conf, c, mlq') + Pending(conf, c, apiq')
         + Held(conf, c, svcs') = d + l + f + p + a + h
  BY <1>5, <1>7, <1>9
<1> QED
  BY <1>1, <1>2, <1>10, OwedKept

LEMMA OwedProxyApiReply ==
  ASSUME TypeOK, MsgInv, NEW c \in Call, ProxyApiReply
  PROVE  Owed(c)' = Owed(c)
<1>t. conf \in Confs /\ apiq \in Seq(Msg)
  BY DEF TypeOK
<1>1. PICK d, l, f, p, a, h \in Nat : Counts(c, d, l, f, p, a, h)
  BY CountsExist
<1> DEFINE e == Head(mlq).c
<1>2. /\ mlq /= <<>> /\ Head(mlq).t = "ProxyApiReply" /\ mlq' = Tail(mlq)
      /\ svcs' = svcs /\ done' = done /\ conf' = conf /\ lost' = lost /\ flight' = flight
      /\ apiq' = Append(apiq, Cmd("ServiceReply", e, 0))
  BY DEF ProxyApiReply, FromMl, MlUnchanged, MCReply
<1>4. PICK w, r \in Nat : w = WeightFor(conf, c, Head(mlq)) /\ r = Pending(conf, c, Tail(mlq))
  BY <1>2, MlTaken
<1>5. p = w + r /\ e \in Call
  BY <1>1, <1>2, <1>4, MlTaken DEF Counts
<1>6. w = IF e = c THEN 1 ELSE 0
  BY <1>2, <1>4, HeadWeight
<1>7. /\ done'[c] = d /\ Held(conf, c, svcs') = h /\ Pending(conf, c, mlq') = r
      /\ lost'[c] = l /\ flight'[c] = f
  BY <1>1, <1>2, <1>4, Zenon DEF Counts
<1> HIDE DEF e
<1>8. Pending(conf, c, Append(apiq, Cmd("ServiceReply", e, 0)))
        = Pending(conf, c, apiq) + IF e = c THEN 1 ELSE 0
  BY <1>t, <1>5, Told, Zenon
<1>9. Pending(conf, c, apiq') = a + w
  BY <1>1, <1>2, <1>6, <1>8, Zenon DEF Counts
<1>10. done'[c] + lost'[c] + flight'[c] + Pending(conf, c, mlq') + Pending(conf, c, apiq')
         + Held(conf, c, svcs') = d + l + f + p + a + h
  BY <1>5, <1>7, <1>9
<1> QED
  BY <1>1, <1>2, <1>10, OwedKept

LEMMA OwedServiceCommand ==
  ASSUME TypeOK, MsgInv, NEW c \in Call, ServiceCommand
  PROVE  Owed(c)' = Owed(c)
<1>t. conf \in Confs /\ mlq \in Seq(Msg)
  BY DEF TypeOK
<1>1. PICK d, l, f, p, a, h \in Nat : Counts(c, d, l, f, p, a, h)
  BY CountsExist
<1> DEFINE e == Head(apiq).c
<1>2. /\ apiq /= <<>> /\ Head(apiq).t = "ServiceCommand" /\ apiq' = Tail(apiq)
      /\ svcs' = svcs /\ done' = done /\ conf' = conf /\ lost' = lost /\ flight' = flight
      /\ mlq' = Append(mlq, dispatch(e))
  BY DEF ServiceCommand, FromApi
<1>4. PICK w, r \in Nat : w = WeightFor(conf, c, Head(apiq)) /\ r = Pending(conf, c, Tail(apiq))
  BY <1>2, ApiTaken
<1>5. a = w + r /\ e \in Call
  BY <1>1, <1>2, <1>4, ApiTaken DEF Counts
<1>6. w = IF e = c THEN Total(conf, c) ELSE 0
  BY <1>2, <1>4, HeadWeight
<1>7. /\ done'[c] = d /\ Held(conf, c, svcs') = h /\ Pending(conf, c, apiq') = r
      /\ lost'[c] = l /\ flight'[c] = f
  BY <1>1, <1>2, <1>4, Zenon DEF Counts
<1> HIDE DEF e
<1>8. dispatch(e) \in Msg /\ WeightFor(conf, c, dispatch(e)) = w
  BY <1>t, <1>5, <1>6, DispatchFacts DEF WeightFor
<1>9. Pending(conf, c, Append(mlq, dispatch(e))) = Pending(conf, c, mlq) + w
  BY <1>t, <1>8, PendAppend, Zenon
<1>10. Pending(conf, c, mlq') = p + w
  BY <1>1, <1>2, <1>9, Zenon DEF Counts
<1>11. done'[c] + lost'[c] + flight'[c] + Pending(conf, c, mlq') + Pending(conf, c, apiq')
         + Held(conf, c, svcs') = d + l + f + p + a + h
  BY <1>5, <1>7, <1>10
<1> QED
  BY <1>1, <1>2, <1>11, OwedKept

(* An answer is handled. *)
LEMMA OwedGive ==
  ASSUME TypeOK, MsgInv, NEW c \in Call, ServiceReply \/ Failure \/ Adjust
  PROVE  Owed(c)' = Owed(c)
<1>t. conf \in Confs /\ done \in [Call -> Nat]
  BY DEF TypeOK
<1>1. PICK d, l, f, p, a, h \in Nat : Counts(c, d, l, f, p, a, h)
  BY CountsExist
<1> DEFINE m == Head(apiq)
<1>2. /\ apiq /= <<>>
      /\ svcs' = svcs /\ conf' = conf /\ lost' = lost /\ flight' = flight /\ mlq' = mlq
      /\ done' = [done EXCEPT ![m.c] = @ + 1]
      /\ \/ m.t \in {"ServiceReply", "Failure"} /\ apiq' = Tail(apiq)
         \/ /\ m.t = "Adjust"
            /\ apiq' = IF m.n <= 1 THEN Tail(apiq)
                       ELSE <<Cmd("Adjust", m.c, m.n - 1)>> \o Tail(apiq)
  BY Zenon DEF ServiceReply, Failure, Adjust, FromApi, give
<1>4. PICK w, r \in Nat : w = WeightFor(conf, c, m) /\ r = Pending(conf, c, Tail(apiq))
  BY <1>2, ApiTaken, Zenon
<1>5. a = w + r /\ m.c \in Call /\ m.n \in Nat /\ m \in ApiMsg /\ Tail(apiq) \in Seq(Msg)
  BY <1>1, <1>2, <1>4, ApiTaken DEF Counts
<1>6. m.t = "Adjust" => m.n >= 1
  BY <1>5 DEF ApiMsg
<1>7. /\ Pending(conf, c, mlq') = p /\ Held(conf, c, svcs') = h
      /\ lost'[c] = l /\ flight'[c] = f /\ done[c] = d
  BY <1>1, <1>2, Zenon DEF Counts
<1>8. PICK e \in Call, n \in Nat : e = m.c /\ n = m.n
  BY <1>5
<1>9. PICK x \in Nat : x = IF e = c THEN 1 ELSE 0
  OBVIOUS
<1>10. done'[c] = d + x
  BY <1>t, <1>2, <1>7, <1>8, <1>9
<1>11. Pending(conf, c, apiq') + x = a
  <2>1. CASE m.t \in {"ServiceReply", "Failure"} /\ apiq' = Tail(apiq)
    <3>1. w = x
      BY <1>4, <1>8, <1>9, <2>1, HeadWeight
    <3> QED
      BY <1>4, <1>5, <2>1, <3>1
  <2>2. CASE m.t = "Adjust" /\ n <= 1 /\ apiq' = Tail(apiq)
    <3>1. w = x
      BY <1>4, <1>6, <1>8, <1>9, <2>2, HeadWeight
    <3> QED
      BY <1>4, <1>5, <2>2, <3>1
  <2>3. CASE m.t = "Adjust" /\ ~(n <= 1) /\ apiq' = <<Cmd("Adjust", e, n - 1)>> \o Tail(apiq)
    <3>1. PICK k : k = n - 1
      OBVIOUS
    <3>2. k \in Nat /\ k + 1 = n
      BY <2>3, <3>1
    <3>3. Pending(conf, c, <<Cmd("Adjust", e, k)>> \o Tail(apiq))
            = ShareOf(e, c, k) + Pending(conf, c, Tail(apiq))
      <4>1. PICK v : v = Cmd("Adjust", e, k)
        OBVIOUS
      <4>2. v \in Msg /\ WeightFor(conf, c, v) = ShareOf(e, c, k)
        BY <3>2, <4>1, AdjustWeight
      <4>3. Pending(conf, c, <<v>> \o Tail(apiq))
              = WeightFor(conf, c, v) + Pending(conf, c, Tail(apiq))
        BY <1>t, <1>5, <4>2, PendAppend, Zenon
      <4> QED
        BY <4>1, <4>2, <4>3
    <3>4. w = IF e = c THEN n ELSE 0
      BY <1>4, <1>8, <2>3, HeadWeight
    <3>5. Pending(conf, c, apiq') = (IF e = c THEN k ELSE 0) + r
      BY <1>4, <2>3, <3>1, <3>3 DEF ShareOf
    <3> QED
      BY <1>5, <1>9, <3>2, <3>4, <3>5
  <2> QED
    BY SMTT(30), <1>2, <1>8, <2>1, <2>2, <2>3
<1>12. Pending(conf, c, apiq') \in Nat
  <2>1. TypeOK'
    <3>1. Next
      BY Zenon DEF Next, ApiService
    <3> QED
      BY <3>1, TypeStep
  <2>2. conf' \in Confs /\ apiq' \in Seq(Msg)
    BY <2>1 DEF TypeOK
  <2> QED
    BY <1>t, <2>2, PendConcat
<1>13. done'[c] + lost'[c] + flight'[c] + Pending(conf, c, mlq') + Pending(conf, c, apiq')
         + Held(conf, c, svcs') = d + l + f + p + a + h
  <2>1. PICK v : v = Pending(conf, c, apiq')
    OBVIOUS
  <2>2. v \in Nat /\ v + x = a
    BY <1>11, <1>12, <2>1
  <2>3. (d + x) + l + f + p + v + h = d + l + f + p + a + h
    BY <2>2
  <2> QED
    BY <1>7, <1>10, <2>1, <2>3, Zenon
<1> QED
  BY <1>1, <1>2, <1>13, OwedKept

(* A command for a service is in no service yet: it would be owed twice.   *)
LEMMA NotHeld ==
  ASSUME TypeOK, MsgInv, OwedInv, mlq /= <<>>, conf.reply[Head(mlq).c],
         Head(mlq).t \in {"ProxyGlobal", "PeerStore"}
  PROVE  \A m \in svcs : m.c /= Head(mlq).c
<1> DEFINE e == Head(mlq).c
<1>t. conf \in Confs /\ mlq \in Seq(Msg)
  BY DEF TypeOK
<1>1. Head(mlq) \in Msg /\ e \in Call
  BY <1>t, ChannelType
<1>2. PICK d, l, f, p, a, h \in Nat : Counts(e, d, l, f, p, a, h)
  BY SMTT(30), <1>1, CountsExist
<1>3. PICK w, r \in Nat : w = WeightFor(conf, e, Head(mlq)) /\ r = Pending(conf, e, Tail(mlq))
  BY <1>1, MlTaken
<1>4. p = w + r
  BY <1>1, <1>2, <1>3, MlTaken DEF Counts
<1>5. Head(mlq) \in MlMsg(conf, qid)
  BY <1>1, MlTaken
<1>6. w = Total(conf, e)
  BY <1>3, HeadWeight
<1>7. Total(conf, e) \in Nat /\ Total(conf, e) >= 1
  <2>1. conf.kind[e] \in {"Global", "Find", "FindLocally"}
    <3>1. /\ Head(mlq).t = "ProxyGlobal" => conf.kind[e] = "Global"
          /\ Head(mlq).t = "PeerStore" => conf.kind[e] \in {"Find", "FindLocally"}
      BY <1>5, Zenon DEF MlMsg
    <3> QED
      BY <3>1
  <2>2. conf.nb_for[e] \in Nat
    BY <1>t, <1>1, ConfType
  <2>3. CASE conf.kind[e] = "Global"
    <3>1. Total(conf, e) = 1 + conf.nb_for[e]
      BY <2>3 DEF Total
    <3> QED
      BY <2>2, <3>1
  <2>4. CASE conf.kind[e] \in {"Find", "FindLocally"}
    <3>1. Total(conf, e) = 1
      BY <2>4 DEF Total
    <3> QED
      BY <3>1
  <2> QED
    BY <2>1, <2>3, <2>4
<1>8. Owed(e) = IF SentCall(e) THEN Total(conf, e) ELSE 0
  BY <1>1, Zenon DEF OwedInv
<1>9. Owed(e) = d + l + f + p + a + h
  BY <1>2, CountsOwed
<1>10. Owed(e) <= w
  BY <1>6, <1>7, <1>8
<1>11. h = 0
  BY <1>4, <1>9, <1>10
<1>12. h = Held(conf, e, svcs)
  BY <1>2 DEF Counts
<1> HIDE DEF e
<1>13. \A m \in svcs : m.c /= e
  BY <1>7, <1>11, <1>12 DEF Held
<1> QED
  BY <1>13 DEF e

LEMMA OwedToService ==
  ASSUME TypeOK, MsgInv, OwedInv, NEW c \in Call, conf.reply[c], ToService
  PROVE  Owed(c)' = Owed(c)
<1>1. PICK d, l, f, p, a, h \in Nat : Counts(c, d, l, f, p, a, h)
  BY CountsExist
<1> DEFINE m == Head(mlq)
<1>2. /\ mlq /= <<>> /\ m.t \in {"ProxyGlobal", "PeerStore"} /\ mlq' = Tail(mlq)
      /\ svcs' = svcs \cup {m} /\ done' = done /\ conf' = conf /\ apiq' = apiq
      /\ lost' = lost /\ flight' = flight
  BY DEF ToService, FromMl, MlUnchanged
<1>3. PICK w, r \in Nat : w = WeightFor(conf, c, m) /\ r = Pending(conf, c, Tail(mlq))
  BY <1>2, MlTaken, Zenon
<1>4. p = w + r
  BY <1>1, <1>2, <1>3, MlTaken DEF Counts
<1>5. /\ done'[c] = d /\ Pending(conf, c, apiq') = a /\ Pending(conf, c, mlq') = r
      /\ lost'[c] = l /\ flight'[c] = f /\ h = Held(conf, c, svcs)
  BY <1>1, <1>2, <1>3, Zenon DEF Counts
<1>6. Held(conf, c, svcs') = h + w
  <2>1. CASE m.c = c
    <3>1. w = Total(conf, c)
      BY <1>2, <1>3, <2>1, HeadWeight
    <3>2. \A x \in svcs : x.c /= c
      BY <1>2, <2>1, NotHeld
    <3>3. h = 0
      BY <1>5, <3>2 DEF Held
    <3>4. Held(conf, c, svcs') = Total(conf, c)
      BY <1>2, <2>1 DEF Held
    <3> QED
      BY <3>1, <3>3, <3>4
  <2>2. CASE m.c /= c
    <3>1. w = 0
      BY <1>3, <2>2, HeadWeight
    <3>2. (\E x \in svcs' : x.c = c) <=> (\E x \in svcs : x.c = c)
      BY <1>2, <2>2
    <3>3. Held(conf, c, svcs') = h
      BY <1>5, <3>2, Zenon DEF Held
    <3> QED
      BY <3>1, <3>3
  <2> QED
    BY <2>1, <2>2
<1>7. done'[c] + lost'[c] + flight'[c] + Pending(conf, c, mlq') + Pending(conf, c, apiq')
        + Held(conf, c, svcs') = d + l + f + p + a + h
  BY <1>4, <1>5, <1>6
<1> QED
  BY <1>1, <1>2, <1>7, OwedKept, Zenon

LEMMA OwedService ==
  ASSUME TypeOK, MsgInv, HeldOnce, NEW c \in Call, conf.reply[c], Service
  PROVE  Owed(c)' = Owed(c)
<1>t. conf \in Confs /\ mlq \in Seq(Msg) /\ apiq \in Seq(Msg) /\ svcs \subseteq Msg
  BY DEF TypeOK
<1>1. PICK d, l, f, p, a, h \in Nat : Counts(c, d, l, f, p, a, h)
  BY CountsExist
<1>2. PICK m \in svcs :
        /\ svcs' = svcs \ {m} /\ flight' = flight /\ lost' = lost
        /\ LET q == answer(Queues, m.c) IN apiq' = q.api /\ mlq' = q.ml \o GlobalReply(m)
  BY ServiceCases
<1>3. conf' = conf /\ done' = done
  BY DEF Service, SvcUnchanged
<1>4. m \in SvcMsg(conf, qid)
  BY DEF MsgInv
<1>5. PICK e, n : e = m.c /\ n = conf.nb_for[m.c]
  OBVIOUS
<1>6. /\ e \in Call /\ n \in Nat /\ (conf.reply[e] => qid[e] /= None)
      /\ m.t \in {"ProxyGlobal", "PeerStore"}
      /\ m.t = "ProxyGlobal" => Total(conf, e) = 1 + n
      /\ m.t = "PeerStore" => Total(conf, e) = 1
  <2>1. m \in Msg /\ m.c \in Call
    BY <1>t, <1>2 DEF Msg
  <2>2. conf.nb_for[m.c] \in Nat
    BY <1>t, <2>1, ConfType
  <2>3. /\ m.t \in {"ProxyGlobal", "PeerStore"} /\ (conf.reply[m.c] => qid[m.c] /= None)
        /\ m.t = "ProxyGlobal" => conf.kind[m.c] = "Global"
        /\ m.t = "PeerStore" => conf.kind[m.c] \in {"Find", "FindLocally"}
    BY <1>4 DEF SvcMsg, MlMsg
  <2> QED
    BY <1>5, <2>1, <2>2, <2>3 DEF Total
<1> DEFINE q == answer(Queues, e)
<1>7. apiq' = q.api /\ mlq' = q.ml \o GlobalReply(m)
  BY <1>2, <1>5
<1>8. PICK x \in Nat : x = IF e = c THEN 1 ELSE 0
  OBVIOUS
<1>9. /\ q.ml \in Seq(Msg) /\ q.api \in Seq(Msg)
      /\ Pending(conf, c, q.ml) + Pending(conf, c, q.api)
           = Pending(conf, c, mlq) + Pending(conf, c, apiq) + IF e = c THEN 1 ELSE 0
      /\ Pending(conf, c, q.ml) \in Nat /\ Pending(conf, c, q.api) \in Nat
  BY <1>t, <1>6, AnswerPend, Zenon
<1> HIDE DEF q
<1>10. PICK u, v \in Nat : u = Pending(conf, c, q.ml) /\ v = Pending(conf, c, q.api)
  BY <1>9
<1>11. u + v = p + a + x
  BY <1>1, <1>8, <1>9, <1>10 DEF Counts
<1>y. PICK y : y = IF e = c /\ m.t = "ProxyGlobal" THEN n ELSE 0
  OBVIOUS
<1>12. y \in Nat /\ GlobalReply(m) \in Seq(Msg) /\ Pending(conf, c, GlobalReply(m)) = y
  <2>1. CASE m.t = "ProxyGlobal"
    <3>1. GlobalReply(m) = [i \in 1..n |-> Cmd("ForwardService", e, 1)]
      BY <1>5, <2>1 DEF GlobalReply
    <3>2. /\ [i \in 1..n |-> Cmd("ForwardService", e, 1)] \in Seq(Msg)
          /\ Pending(conf, c, [i \in 1..n |-> Cmd("ForwardService", e, 1)]) = ShareOf(e, c, n)
      BY <1>t, <1>6, PendForwards
    <3>3. y = ShareOf(e, c, n) /\ y \in Nat
      BY <1>6, <1>y, <2>1 DEF ShareOf
    <3> QED
      BY <3>1, <3>2, <3>3, Zenon
  <2>2. CASE m.t /= "ProxyGlobal"
    <3>1. GlobalReply(m) = <<>> /\ y = 0 /\ <<>> \in Seq(Msg)
      BY <1>y, <2>2 DEF GlobalReply
    <3> QED
      BY <3>1, PendEmpty
  <2> QED
    BY <2>1, <2>2
<1>13. Pending(conf, c, mlq') = u + y /\ Pending(conf, c, apiq') = v
  <2>1. PICK s, g : s = q.ml /\ g = GlobalReply(m)
    OBVIOUS
  <2>2. Pending(conf, c, s \o g) = Pending(conf, c, s) + Pending(conf, c, g)
    BY <1>t, <1>9, <1>12, <2>1, PendConcat, Zenon
  <2> QED
    BY <1>7, <1>10, <1>12, <2>1, <2>2, Zenon
<1>14. h = Held(conf, c, svcs) /\ done'[c] = d /\ lost'[c] = l /\ flight'[c] = f
  BY <1>1, <1>2, <1>3, Zenon DEF Counts
<1>15. PICK z : z = Held(conf, c, svcs')
  OBVIOUS
<1>16. z \in Nat /\ z + x + y = h
  <2>1. CASE e = c
    <3>1. h = Total(conf, c)
      BY <1>5, <1>14, <2>1, Zenon DEF Held
    <3>2. \A k \in svcs' : k.c /= c
      BY <1>2, <1>5, <2>1, Zenon DEF HeldOnce
    <3>3. z = 0
      BY <1>15, <3>2 DEF Held
    <3>4. Total(conf, c) = x + y
      BY <1>6, <1>8, <1>y, <2>1
    <3> QED
      BY <1>8, <1>12, <3>1, <3>3, <3>4
  <2>2. CASE e /= c
    <3>1. (\E k \in svcs' : k.c = c) <=> (\E k \in svcs : k.c = c)
      BY <1>2, <1>5, <2>2
    <3>2. z = h
      BY <1>14, <1>15, <3>1, Zenon DEF Held
    <3>3. x = 0 /\ y = 0
      BY <1>8, <1>y, <2>2
    <3> QED
      BY <3>2, <3>3
  <2> QED
    BY <2>1, <2>2
<1>17. d + l + f + (u + y) + v + z = d + l + f + p + a + h
  BY <1>11, <1>12, <1>16
<1>18. done'[c] + lost'[c] + flight'[c] + Pending(conf, c, mlq') + Pending(conf, c, apiq')
         + Held(conf, c, svcs') = d + l + f + p + a + h
  BY <1>13, <1>14, <1>15, <1>17, Zenon
<1> QED
  BY <1>1, <1>3, <1>18, OwedKept, Zenon

LEMMA OwedPeers ==
  ASSUME TypeOK, MsgInv, NEW c \in Call, conf.reply[c], NEW e \in Call, Answer(e) \/ Lose(e)
  PROVE  Owed(c)' = Owed(c)
<1>t. /\ conf \in Confs /\ mlq \in Seq(Msg) /\ apiq \in Seq(Msg)
      /\ flight \in [Call -> Nat] /\ lost \in [Call -> Nat]
  BY DEF TypeOK
<1>1. PICK d, l, f, p, a, h \in Nat : Counts(c, d, l, f, p, a, h)
  BY CountsExist, Zenon
<1> DEFINE q == answer(Queues, e)
<1>2. /\ flight[e] > 0 /\ flight' = [flight EXCEPT ![e] = @ - 1] /\ svcs' = svcs
      /\ conf' = conf /\ done' = done
      /\ \/ lost' = lost /\ apiq' = Append(apiq, Cmd("ServiceReply", e, 0)) /\ mlq' = mlq
         \/ lost' = lost /\ apiq' = q.api /\ mlq' = q.ml
         \/ lost' = [lost EXCEPT ![e] = @ + 1] /\ apiq' = apiq /\ mlq' = mlq
  BY Zenon DEF Answer, Lose, SetQueues, SvcUnchanged, MCReply
<1>3. PICK x \in Nat : x = IF e = c THEN 1 ELSE 0
  OBVIOUS
<1>4. /\ h = Held(conf, c, svcs') /\ done'[c] = d /\ l = lost[c] /\ f = flight[c]
      /\ p = Pending(conf, c, mlq) /\ a = Pending(conf, c, apiq)
  BY <1>1, <1>2, Zenon DEF Counts
<1>5. flight'[c] \in Nat /\ flight'[c] + x = f
  BY SMTT(30), <1>t, <1>2, <1>3, <1>4
<1>6. e = c => qid[e] /= None
  BY <1>2 DEF MsgInv
<1>7. PICK v, u, k : v = lost'[c] /\ u = Pending(conf, c, mlq') /\ k = Pending(conf, c, apiq')
  OBVIOUS
<1>8. v \in Nat /\ u \in Nat /\ k \in Nat /\ v + u + k = l + p + a + x
  <2>1. CASE lost' = lost /\ apiq' = Append(apiq, Cmd("ServiceReply", e, 0)) /\ mlq' = mlq
    <3>1. Pending(conf, c, Append(apiq, Cmd("ServiceReply", e, 0)))
            = Pending(conf, c, apiq) + IF e = c THEN 1 ELSE 0
      BY <1>t, Told, Zenon
    <3>2. k = a + x /\ u = p /\ v = l
      BY <1>3, <1>4, <1>7, <2>1, <3>1
    <3> QED
      BY <3>2
  <2>2. CASE lost' = lost /\ apiq' = q.api /\ mlq' = q.ml
    <3>1. /\ Pending(conf, c, q.ml) + Pending(conf, c, q.api)
               = Pending(conf, c, mlq) + Pending(conf, c, apiq) + IF e = c THEN 1 ELSE 0
          /\ Pending(conf, c, q.ml) \in Nat /\ Pending(conf, c, q.api) \in Nat
      BY <1>t, <1>6, AnswerPend, Zenon
    <3> HIDE DEF q
    <3>2. u + k = p + a + x /\ u \in Nat /\ k \in Nat /\ v = l
      BY <1>3, <1>4, <1>7, <2>2, <3>1, Zenon
    <3> QED
      BY <3>2
  <2>3. CASE lost' = [lost EXCEPT ![e] = @ + 1] /\ apiq' = apiq /\ mlq' = mlq
    <3>1. u = p /\ k = a
      BY <1>4, <1>7, <2>3
    <3>2. v = l + x
      BY <1>t, <1>3, <1>4, <1>7, <2>3
    <3> QED
      BY <3>1, <3>2
  <2> QED
    BY <1>2, <2>1, <2>2, <2>3
<1>9. PICK g : g = flight'[c]
  OBVIOUS
<1>10. d + v + g + u + k + h = d + l + f + p + a + h
  BY <1>5, <1>8, <1>9
<1>11. done'[c] + lost'[c] + flight'[c] + Pending(conf, c, mlq') + Pending(conf, c, apiq')
         + Held(conf, c, svcs') = d + l + f + p + a + h
  BY <1>4, <1>7, <1>9, <1>10, Zenon
<1> QED
  BY <1>1, <1>2, <1>11, OwedKept, Zenon

(* A call is sent once, so its first message is the only one. *)
LEMMA OwedSend ==
  ASSUME TypeOK, MsgInv, SentInv, OwedInv, NEW c \in Call, conf.reply[c],
         NEW t \in Client, DHTIn_send(t)
  PROVE  Owed(c)' = IF SentCall(c)' THEN Total(conf, c)' ELSE 0
<1>t. /\ conf \in Confs /\ mlq \in Seq(Msg) /\ sent \in [Client -> Nat]
      /\ conf.prog \in [Client -> Seq(Call)]
  BY ConfType DEF TypeOK
<1>1. PICK d, l, f, p, a, h \in Nat : Counts(c, d, l, f, p, a, h)
  BY CountsExist
<1> DEFINE j == sent[t] + 1
<1> DEFINE e == conf.prog[t][j]
<1>2. /\ sent[t] < Len(conf.prog[t]) /\ sent' = [sent EXCEPT ![t] = @ + 1]
      /\ svcs' = svcs /\ done' = done /\ conf' = conf /\ lost' = lost /\ flight' = flight
      /\ apiq' = apiq
      /\ \/ mlq' = Append(mlq, Cmd("ForwardApi", e, 0))
         \/ ~conf.reply[e] /\ mlq' = Append(mlq, dispatch(e))
  BY DEF DHTIn_send
<1>3. j \in 1..Len(conf.prog[t]) /\ j \in DOMAIN conf.prog[t] /\ j \in Nat /\ e \in Call
      /\ sent'[t] = j /\ j > sent[t]
  BY <1>t, <1>2
<1> HIDE DEF e
<1>4. Total(conf, c) \in Nat
  <2>1. Cmd("ForwardApi", c, 0) \in Msg
    BY CmdType DEF MsgType, MainLoopCommand
  <2> QED
    BY <1>t, <2>1, WeightType
<1>5. PICK x : x = IF e = c THEN Total(conf, c) ELSE 0
  OBVIOUS
<1>6. x \in Nat
  BY <1>4, <1>5
<1>7. Pending(conf, c, mlq') = p + x
  <2>0. p = Pending(conf, c, mlq)
    BY <1>1, Zenon DEF Counts
  <2>1. ASSUME NEW m, mlq' = Append(mlq, m), m \in Msg, WeightFor(conf, c, m) = x
        PROVE  Pending(conf, c, mlq') = p + x
    <3>1. Pending(conf, c, Append(mlq, m)) = Pending(conf, c, mlq) + WeightFor(conf, c, m)
      BY <1>t, <2>1, PendAppend, Zenon
    <3> QED
      BY <2>0, <2>1, <3>1
  <2>2. CASE mlq' = Append(mlq, Cmd("ForwardApi", e, 0))
    <3>0. "ForwardApi" \in MsgType
      BY DEF MsgType, MainLoopCommand
    <3>1. Cmd("ForwardApi", e, 0) \in Msg
      BY <1>3, <3>0, CmdType
    <3>2. WeightFor(conf, c, Cmd("ForwardApi", e, 0)) = IF e = c THEN Total(conf, e) ELSE 0
      BY CmdWeight
    <3>3. WeightFor(conf, c, Cmd("ForwardApi", e, 0)) = x
      BY <1>5, <3>2
    <3> QED
      BY <2>1, <2>2, <3>1, <3>3, Zenon
  <2>3. CASE ~conf.reply[e] /\ mlq' = Append(mlq, dispatch(e))
    <3>1. dispatch(e) \in Msg /\ dispatch(e).c = e
      BY <1>t, <1>3, DispatchFacts
    <3>2. e /= c
      BY <2>3
    <3>3. WeightFor(conf, c, dispatch(e)) = x
      BY <1>5, <3>1, <3>2, HeadWeight
    <3> QED
      BY <2>1, <2>3, <3>1, <3>3, Zenon
  <2> QED
    BY <1>2, <2>2, <2>3
<1>8. Owed(c)' = Owed(c) + x
  <2>1. Owed(c)' = done'[c] + lost'[c] + flight'[c] + Pending(conf', c, mlq')
                     + Pending(conf', c, apiq') + Held(conf', c, svcs')
    BY Zenon DEF Owed
  <2>2. /\ done'[c] = d /\ lost'[c] = l /\ flight'[c] = f /\ Pending(conf', c, mlq') = p + x
        /\ Pending(conf', c, apiq') = a /\ Held(conf', c, svcs') = h
    BY <1>1, <1>2, <1>7, Zenon DEF Counts
  <2>3. Owed(c) = d + l + f + p + a + h
    BY <1>1, CountsOwed
  <2>4. d + l + f + (p + x) + a + h = d + l + f + p + a + h + x
    BY <1>6
  <2>5. Owed(c)' = d + l + f + (p + x) + a + h
    BY <2>1, <2>2, Zenon
  <2> QED
    BY <2>3, <2>4, <2>5, Zenon
<1>9. Owed(c) = IF SentCall(c) THEN Total(conf, c) ELSE 0
  BY Zenon DEF OwedInv
<1>10. e = c => ~SentCall(c) /\ SentCall(c)'
  <2> SUFFICES ASSUME e = c PROVE ~SentCall(c) /\ SentCall(c)'
    OBVIOUS
  <2>1. ASSUME NEW u \in Client, NEW i \in 1..sent[u], conf.prog[u][i] = c PROVE FALSE
    <3>1. sent[u] \in Nat
      BY <1>t
    <3>2. i \in DOMAIN conf.prog[u]
      <4>1. conf.prog[u] \in Seq(Call) /\ sent[u] <= Len(conf.prog[u])
        BY <1>t DEF SentInv
      <4> QED
        BY <3>1, <4>1
    <3>3. u = t /\ i = j
      BY SMTT(30), <1>t, <1>3, <2>1, <3>2, ApiAssumption DEF e
    <3> QED
      BY <1>3, <2>1, <3>1, <3>3
  <2>2. SentCall(c)'
    <3>1. j \in 1..sent'[t] /\ conf'.prog[t][j] = c
      BY <1>2, <1>3 DEF e
    <3> QED
      BY <3>1 DEF SentCall
  <2> QED
    BY <2>1, <2>2 DEF SentCall
<1>11. e /= c => (SentCall(c)' <=> SentCall(c))
  <2> SUFFICES ASSUME e /= c PROVE SentCall(c)' <=> SentCall(c)
    OBVIOUS
  <2>1. ASSUME NEW u \in Client, NEW i \in 1..sent[u], conf.prog[u][i] = c
        PROVE  SentCall(c)'
    <3>1. i \in 1..sent'[u]
      BY <1>t, <1>2
    <3> QED
      BY <1>2, <2>1, <3>1 DEF SentCall
  <2>2. ASSUME NEW u \in Client, NEW i \in 1..sent'[u], conf'.prog[u][i] = c
        PROVE  SentCall(c)
    <3>1. i \in 1..sent[u] \/ (u = t /\ i = j)
      BY <1>t, <1>2
    <3>2. conf.prog[u][i] = c
      BY <1>2, <2>2
    <3>3. ~(u = t /\ i = j)
      BY <3>2 DEF e
    <3> QED
      BY <3>1, <3>2, <3>3 DEF SentCall
  <2> QED
    BY <2>1, <2>2, Zenon DEF SentCall
<1>12. Total(conf, c)' = Total(conf, c)
  BY <1>2, Zenon
<1> QED
  <2>1. CASE e = c
    <3>1. Owed(c) = 0 /\ x = Total(conf, c)
      BY <1>5, <1>9, <1>10, <2>1
    <3> QED
      BY <1>4, <1>8, <1>10, <1>12, <2>1, <3>1
  <2>2. CASE e /= c
    <3>1. Owed(c) \in Nat /\ x = 0
      BY <1>4, <1>5, <1>9, <2>2
    <3> QED
      BY <1>8, <1>9, <1>11, <1>12, <2>2, <3>1
  <2> QED
    BY <2>1, <2>2

-----------------------------------------------------------------------------
(* The invariant. *)

AnswersInv == MsgInv /\ SentInv /\ HeldOnce /\ OwedInv

(* Only the threads send calls. *)
LEMMA SameSent ==
  ASSUME Next, \A t \in Client : ~DHTIn_send(t)
  PROVE  conf' = conf /\ sent' = sent
<1>1. ASSUME NEW t \in Client, clone_wait(t) \/ Notified(t) \/ Spurious(t)
      PROVE  conf' = conf /\ sent' = sent
  BY <1>1 DEF clone_wait, Notified, Spurious
<1>2. CASE MainLoop
  BY <1>2, Zenon DEF MainLoop, ForwardApi, ForwardService, ToService, TryConnect, ProxyApiReply,
              MlUnchanged
<1>3. CASE ApiService
  BY <1>3, Zenon DEF ApiService, ServiceCommand, ServiceReply, Failure, Adjust, give
<1>4. CASE Service
  BY <1>4 DEF Service, SvcUnchanged
<1>5. ASSUME NEW c \in Call, Answer(c) \/ Lose(c) PROVE conf' = conf /\ sent' = sent
  BY <1>5, Zenon DEF Answer, Lose, SvcUnchanged
<1> QED
  BY <1>1, <1>2, <1>3, <1>4, <1>5, Zenon DEF Next

LEMMA SentStep == TypeOK /\ SentInv /\ [Next]_vars => SentInv'
<1> SUFFICES ASSUME TypeOK, SentInv, [Next]_vars PROVE SentInv'
  OBVIOUS
<1>t. /\ conf \in Confs /\ sent \in [Client -> Nat] /\ conf.prog \in [Client -> Seq(Call)]
  BY ConfType DEF TypeOK
<1>1. CASE UNCHANGED vars
  BY <1>1 DEF SentInv, vars
<1>2. ASSUME NEW t \in Client, DHTIn_send(t) PROVE SentInv'
  <2>1. /\ sent[t] < Len(conf.prog[t]) /\ sent' = [sent EXCEPT ![t] = @ + 1] /\ conf' = conf
    BY <1>2 DEF DHTIn_send
  <2>2. ASSUME NEW u \in Client PROVE sent'[u] <= Len(conf'.prog[u])
    <3>1. Len(conf.prog[u]) \in Nat /\ sent[u] \in Nat /\ sent[u] <= Len(conf.prog[u])
      BY <1>t DEF SentInv
    <3> QED
      BY <1>t, <2>1, <3>1
  <2> QED
    BY <2>2 DEF SentInv
<1>3. CASE Next /\ \A t \in Client : ~DHTIn_send(t)
  <2>1. conf' = conf /\ sent' = sent
    BY <1>3, SameSent, Zenon
  <2> QED
    BY <2>1 DEF SentInv
<1> QED
  BY <1>1, <1>2, <1>3

LEMMA HeldStep == TypeOK /\ MsgInv /\ OwedInv /\ HeldOnce /\ [Next]_vars => HeldOnce'
<1> SUFFICES ASSUME TypeOK, MsgInv, OwedInv, HeldOnce, [Next]_vars PROVE HeldOnce'
  OBVIOUS
<1>1. CASE ToService
  <2>1. /\ mlq /= <<>> /\ Head(mlq).t \in {"ProxyGlobal", "PeerStore"}
        /\ svcs' = svcs \cup {Head(mlq)} /\ conf' = conf
    BY <1>1 DEF ToService, FromMl, MlUnchanged
  <2>2. conf.reply[Head(mlq).c] => \A m \in svcs : m.c /= Head(mlq).c
    BY <2>1, NotHeld
  <2> QED
    BY <2>1, <2>2 DEF HeldOnce
<1>2. ASSUME svcs' \subseteq svcs, conf' = conf PROVE HeldOnce'
  BY <1>2 DEF HeldOnce
<1>3. CASE UNCHANGED vars
  BY <1>2, <1>3 DEF vars
<1>4. ASSUME NEW t \in Client, DHTIn_send(t) \/ clone_wait(t) \/ Notified(t) \/ Spurious(t)
      PROVE  HeldOnce'
  BY <1>2, <1>4 DEF DHTIn_send, clone_wait, Notified, Spurious
<1>5. CASE ForwardApi \/ ForwardService \/ TryConnect \/ ProxyApiReply
  BY <1>2, <1>5, Zenon DEF ForwardApi, ForwardService, TryConnect, ProxyApiReply, MlUnchanged
<1>6. CASE ApiService
  BY <1>2, <1>6, Zenon DEF ApiService, ServiceCommand, ServiceReply, Failure, Adjust, give
<1>7. CASE Service
  BY <1>2, <1>7 DEF Service, SvcUnchanged
<1>8. ASSUME NEW c \in Call, Answer(c) \/ Lose(c) PROVE HeldOnce'
  BY <1>2, <1>8 DEF Answer, Lose, SvcUnchanged
<1> QED
  BY <1>1, <1>3, <1>4, <1>5, <1>6, <1>7, <1>8, Zenon DEF Next, MainLoop

LEMMA OwedStep == TypeOK /\ AnswersInv /\ [Next]_vars => OwedInv'
<1> SUFFICES ASSUME TypeOK, MsgInv, SentInv, HeldOnce, OwedInv, [Next]_vars,
                    NEW c \in Call, conf'.reply[c]
             PROVE  Owed(c)' = IF SentCall(c)' THEN Total(conf, c)' ELSE 0
  BY Zenon DEF OwedInv, AnswersInv
<1>0. conf' = conf
  <2>1. CASE UNCHANGED vars
    BY <2>1 DEF vars
  <2>2. ASSUME NEW t \in Client, DHTIn_send(t) PROVE conf' = conf
    BY <2>2 DEF DHTIn_send
  <2>3. CASE Next /\ \A t \in Client : ~DHTIn_send(t)
    BY <2>3, SameSent, Zenon
  <2> QED
    BY <2>1, <2>2, <2>3
<1>1. conf.reply[c]
  BY <1>0
<1>2. ASSUME NEW t \in Client, DHTIn_send(t)
      PROVE  Owed(c)' = IF SentCall(c)' THEN Total(conf, c)' ELSE 0
  BY <1>1, <1>2, OwedSend
<1>3. ASSUME sent' = sent, Owed(c)' = Owed(c)
      PROVE  Owed(c)' = IF SentCall(c)' THEN Total(conf, c)' ELSE 0
  <2>1. Owed(c) = IF SentCall(c) THEN Total(conf, c) ELSE 0
    BY <1>1, Zenon DEF OwedInv
  <2>2. SentCall(c)' <=> SentCall(c)
    BY <1>0, <1>3 DEF SentCall
  <2>3. Total(conf, c)' = Total(conf, c)
    BY <1>0, Zenon
  <2> QED
    BY <1>3, <2>1, <2>2, <2>3, Zenon
<1>4. CASE UNCHANGED vars
  <2>1. sent' = sent /\ Owed(c)' = Owed(c)
    BY <1>4, Zenon DEF Owed, vars
  <2> QED
    BY <1>3, <2>1
<1>5. ASSUME NEW t \in Client, clone_wait(t) \/ Notified(t) \/ Spurious(t)
      PROVE  Owed(c)' = Owed(c)
  <2>1. /\ done' = done /\ lost' = lost /\ flight' = flight /\ mlq' = mlq /\ apiq' = apiq
        /\ svcs' = svcs
    BY <1>5 DEF clone_wait, Notified, Spurious
  <2> QED
    BY <1>0, <2>1, Zenon DEF Owed
<1>6. ASSUME NEW e \in Call, Answer(e) \/ Lose(e) PROVE Owed(c)' = Owed(c)
  BY <1>1, <1>6, OwedPeers
<1>7. CASE Next /\ \A t \in Client : ~DHTIn_send(t)
  <2>1. sent' = sent
    BY <1>7, SameSent, Zenon
  <2>2. Owed(c)' = Owed(c)
    <3>1. CASE MainLoop
      BY <3>1, OwedForwardApi, OwedForwardService, OwedToService, OwedTryConnect,
         OwedProxyApiReply, <1>1, Zenon DEF MainLoop
    <3>2. CASE ApiService
      BY <3>2, <1>1, OwedServiceCommand, OwedGive, Zenon DEF ApiService
    <3>3. CASE Service
      BY <3>3, <1>1, OwedService
    <3> QED
      BY <1>5, <1>6, <1>7, <3>1, <3>2, <3>3, Zenon DEF Next
  <2> QED
    BY <1>3, <2>1, <2>2
<1> QED
  BY <1>2, <1>4, <1>7

LEMMA AnswersInit == Init => AnswersInv
<1> SUFFICES ASSUME Init PROVE AnswersInv
  OBVIOUS
<1>1. /\ conf \in Confs /\ sent = [t \in Client |-> 0] /\ mlq = <<>> /\ apiq = <<>>
      /\ svcs = {} /\ qid = [c \in Call |-> None] /\ flight = [c \in Call |-> 0]
      /\ done = [c \in Call |-> 0] /\ lost = [c \in Call |-> 0]
  BY DEF Init
<1>2. MsgInv
  <2>1. \A c \in Call : flight[c] = 0
    BY <1>1
  <2> QED
    BY <1>1, <2>1 DEF MsgInv
<1>3. SentInv
  <2>1. ASSUME NEW t \in Client PROVE sent[t] <= Len(conf.prog[t])
    <3>1. conf.prog[t] \in Seq(Call) /\ sent[t] = 0
      BY <1>1, ConfType
    <3> QED
      BY <3>1
  <2> QED
    BY <2>1 DEF SentInv
<1>4. HeldOnce
  BY <1>1 DEF HeldOnce
<1>5. ASSUME NEW c \in Call PROVE Owed(c) = 0 /\ ~SentCall(c)
  <2>1. done[c] = 0 /\ lost[c] = 0 /\ flight[c] = 0
    BY <1>1
  <2>2. Pending(conf, c, mlq) = 0 /\ Pending(conf, c, apiq) = 0
    BY <1>1, PendEmpty
  <2>3. Held(conf, c, svcs) = 0
    BY <1>1 DEF Held
  <2>4. ~SentCall(c)
    BY <1>1 DEF SentCall
  <2> QED
    BY <2>1, <2>2, <2>3, <2>4 DEF Owed
<1>6. OwedInv
  BY <1>5, Zenon DEF OwedInv
<1> QED
  BY <1>2, <1>3, <1>4, <1>6 DEF AnswersInv

LEMMA AnswersStep == TypeOK /\ AnswersInv /\ [Next]_vars => AnswersInv'
BY MsgStep, SentStep, HeldStep, OwedStep, Zenon DEF AnswersInv

LEMMA AnswersAccount == TypeOK /\ AnswersInv => Accounted
<1> SUFFICES ASSUME TypeOK, SentInv, OwedInv, NEW t \in Client, NEW i \in 1..sent[t],
                    conf.reply[conf.prog[t][i]]
             PROVE  Owed(conf.prog[t][i]) = Total(conf, conf.prog[t][i])
  BY Zenon DEF Accounted, AnswersInv
<1>1. PICK c : c = conf.prog[t][i]
  OBVIOUS
<1>2. c \in Call
  <2>1. /\ conf.prog[t] \in Seq(Call) /\ sent[t] \in Nat /\ sent[t] <= Len(conf.prog[t])
    BY ConfType DEF TypeOK, SentInv
  <2> QED
    BY <1>1, <2>1
<1>3. SentCall(c)
  BY <1>1 DEF SentCall
<1>4. Owed(c) = Total(conf, c)
  BY <1>1, <1>2, <1>3, Zenon DEF OwedInv
<1> QED
  BY <1>1, <1>4

(* Every command sent for a reply is owed, at any time, exactly the        *)
(* answers its kind stands for: handled by the Api service, in a channel   *)
(* or a service, at a peer, or lost for a reason the code has.             *)
(* ForwardService's Adjust, the forwards of a global service and the       *)
(* answers that find no query all keep the count.                          *)
THEOREM AnswersAccounted == Spec => []Accounted
<1>1. Init => TypeOK /\ AnswersInv
  BY TypeInit, AnswersInit
<1>2. TypeOK /\ AnswersInv /\ [Next]_vars => (TypeOK /\ AnswersInv)'
  BY TypeStep, AnswersStep
<1>3. TypeOK /\ AnswersInv => Accounted
  BY AnswersAccount
<1> QED
  BY <1>1, <1>2, <1>3, PTL DEF Spec

==============================================================================
