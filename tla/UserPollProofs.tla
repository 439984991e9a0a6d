--------------------------- MODULE UserPollProofs ---------------------------
(***************************************************************************)
(* Proofs about UserPoll, for any registrations, tokens and limits.        *)
(***************************************************************************)
EXTENDS UserPoll, WellFoundedInduction, TLAPS

(* Tokens are numbers other than the 0 that stands for none in the user's  *)
(* table; the limits are sizes.                                            *)
UserPollConstants ==
  /\ UMax \in Nat /\ ULimit \in Nat /\ UMsgs \in Nat /\ UQueue \in Nat
  /\ UToken \subseteq Nat \ {0}

-----------------------------------------------------------------------------
(* Elements of the sequences the events are moved between.                 *)

LEMMA AtFront ==
  ASSUME NEW S, NEW s \in Seq(S), NEW x \in S
  PROVE  /\ <<x>> \o s \in Seq(S) /\ Len(<<x>> \o s) = Len(s) + 1
         /\ Range(<<x>> \o s) = {x} \cup Range(s)
  <1> DEFINE t == <<x>> \o s
  <1>1. /\ t \in Seq(S) /\ Len(t) = Len(s) + 1 /\ t[1] = x
        /\ \A i \in 1..Len(s) : t[i + 1] = s[i]
    OBVIOUS
  <1> HIDE DEF t
  <1>2. ASSUME NEW y \in Range(t) PROVE y \in {x} \cup Range(s)
    <2>1. PICK i \in 1..Len(t) : t[i] = y
      BY <1>1 DEF Range
    <2>2. CASE i = 1
      BY <1>1, <2>1, <2>2
    <2>3. CASE i > 1
      <3>1. i - 1 \in 1..Len(s) /\ i = (i - 1) + 1
        BY <1>1, <2>1, <2>3
      <3>2. s[i - 1] = y
        BY <1>1, <2>1, <3>1
      <3> QED BY <3>1, <3>2 DEF Range
    <2> QED BY <2>1, <2>2, <2>3
  <1>3. ASSUME NEW y \in Range(s) PROVE y \in Range(t)
    <2>1. PICK i \in 1..Len(s) : s[i] = y
      BY DEF Range
    <2>2. i + 1 \in 1..Len(t) /\ t[i + 1] = y
      BY <1>1, <2>1
    <2> QED BY <1>1, <2>2 DEF Range
  <1>4. x \in Range(t)
    BY <1>1 DEF Range
  <1>5. t \in Seq(S) /\ Len(t) = Len(s) + 1 /\ Range(t) = {x} \cup Range(s)
    BY <1>1, <1>2, <1>3, <1>4
  <1> QED BY <1>5 DEF t

LEMMA Split ==
  ASSUME NEW S, NEW s \in Seq(S), NEW k \in 0..Len(s)
  PROVE  /\ SubSeq(s, 1, k) \in Seq(S) /\ Len(SubSeq(s, 1, k)) = k
         /\ SubSeq(s, k + 1, Len(s)) \in Seq(S) /\ Len(SubSeq(s, k + 1, Len(s))) = Len(s) - k
         /\ Range(s) = Range(SubSeq(s, 1, k)) \cup Range(SubSeq(s, k + 1, Len(s)))
  <1>1. PICK a : a = SubSeq(s, 1, k)
    BY Zenon
  <1>2. PICK b : b = SubSeq(s, k + 1, Len(s))
    BY Zenon
  <1>3. /\ a \in Seq(S) /\ Len(a) = k
        /\ \A i \in 1..k : a[i] = s[i]
    BY <1>1
  <1>4. /\ b \in Seq(S) /\ Len(b) = Len(s) - k
        /\ \A i \in 1..(Len(s) - k) : b[i] = s[k + i]
    BY <1>2
  <1>5. ASSUME NEW y \in Range(s) PROVE y \in Range(a) \cup Range(b)
    <2>1. PICK i \in 1..Len(s) : s[i] = y
      BY DEF Range
    <2>2. CASE i <= k
      BY <1>3, <2>1, <2>2 DEF Range
    <2>3. CASE i > k
      <3>1. i - k \in 1..Len(b) /\ b[i - k] = y
        BY <1>4, <2>1, <2>3
      <3> QED BY <1>4, <3>1 DEF Range
    <2> QED BY <2>2, <2>3
  <1>6. \A y \in Range(a) : y \in Range(s)
    BY <1>3 DEF Range
  <1>7. ASSUME NEW y \in Range(b) PROVE y \in Range(s)
    <2>1. PICK i \in 1..Len(b) : b[i] = y
      BY <1>4 DEF Range
    <2>2. k + i \in 1..Len(s) /\ s[k + i] = y
      BY <1>4, <2>1
    <2> QED BY <2>2 DEF Range
  <1>8. Range(s) = Range(a) \cup Range(b)
    BY <1>5, <1>6, <1>7
  <1> QED BY <1>1, <1>2, <1>3, <1>4, <1>8

LEMMA FrontLast ==
  ASSUME NEW S, NEW s \in Seq(S), s # <<>>
  PROVE  /\ SubSeq(s, 1, Len(s) - 1) \in Seq(S) /\ Len(SubSeq(s, 1, Len(s) - 1)) = Len(s) - 1 /\ s[Len(s)] \in S
         /\ Range(s) = Range(SubSeq(s, 1, Len(s) - 1)) \cup {s[Len(s)]}
  <1>1. PICK a : a = SubSeq(s, 1, Len(s) - 1)
    BY Zenon
  <1>2. Len(s) \in Nat /\ Len(s) > 0 /\ s[Len(s)] = s[Len(s)] /\ s[Len(s)] \in S
    OBVIOUS
  <1>3. /\ a \in Seq(S) /\ Len(a) = Len(s) - 1
        /\ \A i \in 1..(Len(s) - 1) : a[i] = s[i]
    <2>1. PICK k : k = Len(s) - 1
      OBVIOUS
    <2>2. k \in 0..Len(s) /\ a = SubSeq(s, 1, k)
      BY <1>1, <1>2, <2>1
    <2>3. a \in Seq(S) /\ Len(a) = k /\ \A i \in 1..k : a[i] = s[i]
      BY <2>2
    <2> QED BY <2>1, <2>3
  <1>4. ASSUME NEW y \in Range(s) PROVE y \in Range(a) \cup {s[Len(s)]}
    <2>1. PICK i \in 1..Len(s) : s[i] = y
      BY DEF Range
    <2>2. CASE i < Len(s)
      BY <1>3, <2>1, <2>2 DEF Range
    <2>3. CASE i = Len(s)
      BY <1>2, <2>1, <2>3
    <2> QED BY <1>2, <2>1, <2>2, <2>3
  <1>5. \A y \in Range(a) : y \in Range(s)
    BY <1>2, <1>3 DEF Range
  <1>6. s[Len(s)] \in Range(s)
    BY <1>2 DEF Range
  <1>7. Range(s) = Range(a) \cup {s[Len(s)]}
    BY <1>4, <1>5, <1>6
  <1> QED BY <1>1, <1>2, <1>3, <1>7

-----------------------------------------------------------------------------
UEvent == [kind : Ready, token : UToken]
UItem == [token : UToken, topics : (SUBSET Ready) \ {{}}]

UTypes ==
  /\ ufd \in [UReg -> 0..UMax] /\ ulast \in 0..UMax
  /\ utok \in [UReg -> UToken \cup {0}] /\ unread \in [UReg -> 0..UMsgs] /\ umoved \subseteq UReg
  /\ uqueue \in Seq(UEvent) /\ Len(uqueue) <= UQueue
  /\ ucontent \in Seq(UEvent) /\ Len(ucontent) <= ULimit
  /\ DOMAIN uitems \subseteq 1..UMax /\ \A f \in DOMAIN uitems : uitems[f] \in UItem

(* Each registered object has a descriptor and a token of its own, and the *)
(* item of the descriptor has its token unless reregister changed it.      *)
UOwners ==
  /\ \A c \in UReg : ufd[c] = FD_UNDEFINED <=> utok[c] = 0
  /\ \A c \in UReg : ufd[c] # FD_UNDEFINED => ufd[c] \in DOMAIN uitems
  /\ \A c, d \in UReg : ufd[c] = ufd[d] /\ ufd[c] # FD_UNDEFINED => c = d
  /\ \A c, d \in UReg : utok[c] = utok[d] /\ utok[c] # 0 => c = d
  /\ \A c \in UReg \ umoved : utok[c] # 0 => uitems[ufd[c]].token = utok[c]

UAnnounced ==
  \A c \in UReg :
    (utok[c] # 0 /\ unread[c] > 0 /\ c \notin umoved /\ uitems[ufd[c]].topics = {"Readable"})
    => [kind |-> "Readable", token |-> utok[c]] \in Range(uqueue) \cup Range(ucontent)

UInv == UTypes /\ UOwners /\ UAnnounced

(* A set of numbers that is not empty has a least element. *)
LEMMA Least ==
  ASSUME NEW T, T \subseteq Nat, T # {}
  PROVE  \E x \in T : \A y \in T : x <= y
  <1>1. PICK R : R = OpToRel(<, Nat)
    BY Zenon
  <1>2. IsWellFoundedOn(R, Nat)
    BY <1>1, NatLessThanWellFounded, Zenon
  <1>3. PICK x \in T : \A y \in T : ~(<<y, x>> \in R)
    BY <1>2, WFMin, Zenon
  <1>4. \A u, v \in Nat : v < u => <<v, u>> \in R
    BY <1>1 DEF OpToRel
  <1>5. \A y \in T : ~(y < x)
    BY <1>3, <1>4, Zenon
  <1>6. \A y \in T : x <= y
    BY <1>3, <1>5
  <1> QED BY <1>3, <1>6

(* new_fd gives a descriptor that is not in use. *)
LEMMA NewFd ==
  ASSUME UserPollConstants, ulast \in 0..UMax, ~Full
  PROVE  new_fd \in 1..UMax /\ new_fd \notin DOMAIN uitems
  <1>1. FreeFd # {} /\ FreeFd \subseteq 1..(UMax - 1)
    BY DEF Full, FreeFd, Tried
  <1>2. \E i \in FreeFd : \A j \in FreeFd : i <= j
    <2>1. FreeFd \subseteq Nat
      BY <1>1 DEF UserPollConstants
    <2> QED BY <1>1, <2>1, Least, Zenon
  <1>3. PICK i \in FreeFd : new_fd = Tried[i]
    BY <1>2, Zenon DEF new_fd
  <1>4. i \in 1..(UMax - 1) /\ new_fd = inc_l(ulast, i) /\ new_fd \notin DOMAIN uitems
    BY <1>1, <1>3 DEF FreeFd, Tried
  <1> QED BY <1>4 DEF inc_l, UserPollConstants

-----------------------------------------------------------------------------
(* One step of the poll keeps the invariant.                               *)

LEMMA UInitial == ASSUME UserPollConstants, UInit PROVE UInv
  <1>1. UTypes
    BY DEF UInit, UTypes, UserPollConstants, FD_UNDEFINED
  <1>2. UOwners /\ UAnnounced
    BY DEF UInit, UOwners, UAnnounced
  <1> QED BY <1>1, <1>2 DEF UInv

(* What trigger_event adds to the queue. *)
LEMMA Triggered ==
  ASSUME UTypes, NEW items, NEW f, NEW r \in Ready,
         \A g \in DOMAIN items : items[g] \in UItem
  PROVE  /\ trigger_event(items, f, r) \in Seq(UEvent)
         /\ Len(trigger_event(items, f, r)) <= Len(uqueue) + 1
         /\ Range(uqueue) \subseteq Range(trigger_event(items, f, r))
         /\ f \in DOMAIN items /\ r \in items[f].topics =>
              [kind |-> r, token |-> items[f].token] \in Range(trigger_event(items, f, r))
  <1>1. CASE f \in DOMAIN items /\ r \in items[f].topics
    <2>1. PICK x : x = [kind |-> r, token |-> items[f].token]
      BY Zenon
    <2>2. x \in UEvent /\ uqueue \in Seq(UEvent)
      BY <1>1, <2>1 DEF UEvent, UItem, UTypes
    <2>3. trigger_event(items, f, r) = <<x>> \o uqueue
      BY <1>1, <2>1 DEF trigger_event
    <2>4. /\ <<x>> \o uqueue \in Seq(UEvent) /\ Len(<<x>> \o uqueue) = Len(uqueue) + 1
          /\ Range(<<x>> \o uqueue) = {x} \cup Range(uqueue)
      BY <2>2, AtFront
    <2>5. Len(uqueue) \in Nat
      BY <2>2
    <2> QED BY <2>1, <2>3, <2>4, <2>5
  <1>2. CASE ~(f \in DOMAIN items /\ r \in items[f].topics)
    <2>1. trigger_event(items, f, r) = uqueue
      BY <1>2 DEF trigger_event
    <2> QED BY <1>2, <2>1 DEF UTypes
  <1> QED BY <1>1, <1>2

LEMMA StepRegister ==
  ASSUME UserPollConstants, UInv, Len(uqueue) < UQueue,
         NEW c \in UReg, NEW t \in UToken, NEW r \in Ready, register(c, t, r)
  PROVE  UInv'
  <1>1. /\ utok[c] = 0 /\ ufd[c] = 0 /\ ~Full /\ \A d \in UReg : utok[d] # t
        /\ t # 0
    BY DEF register, UInv, UOwners, FD_UNDEFINED, UserPollConstants
  <1>2. PICK f : f = new_fd
    OBVIOUS
  <1>3. f \in 1..UMax /\ f \notin DOMAIN uitems
    BY <1>1, <1>2, NewFd DEF UInv, UTypes
  <1>4. /\ ufd' = [ufd EXCEPT ![c] = f] /\ ulast' = f
        /\ uitems' = [g \in DOMAIN uitems \cup {f} |->
                        IF g = f THEN [token |-> t, topics |-> {r}] ELSE uitems[g]]
        /\ utok' = [utok EXCEPT ![c] = t]
        /\ uqueue' = trigger_event(uitems', ufd'[c], r)
        /\ UNCHANGED <<ucontent, unread, umoved>>
    BY <1>1, <1>2 DEF register, ctl_add, FD_UNDEFINED
  <1>5. /\ DOMAIN uitems' = DOMAIN uitems \cup {f}
        /\ uitems'[f] = [token |-> t, topics |-> {r}]
        /\ \A g \in DOMAIN uitems : uitems'[g] = uitems[g]
    BY <1>3, <1>4
  <1>6. /\ ufd'[c] = f /\ utok'[c] = t
        /\ \A d \in UReg \ {c} : ufd'[d] = ufd[d] /\ utok'[d] = utok[d]
        /\ ufd' \in [UReg -> 0..UMax] /\ utok' \in [UReg -> UToken \cup {0}]
    BY <1>3, <1>4 DEF UInv, UTypes
  <1>7. \A g \in DOMAIN uitems' : uitems'[g] \in UItem
    <2>1. [token |-> t, topics |-> {r}] \in UItem
      BY DEF UItem
    <2>2. \A g \in DOMAIN uitems : uitems[g] \in UItem
      BY DEF UInv, UTypes
    <2> QED BY <1>5, <2>1, <2>2
  <1>8. /\ uqueue' \in Seq(UEvent) /\ Len(uqueue') <= Len(uqueue) + 1
        /\ Range(uqueue) \subseteq Range(uqueue')
        /\ [kind |-> r, token |-> t] \in Range(uqueue')
    <2>1. PICK items : items = uitems'
      OBVIOUS
    <2> QED BY <1>4, <1>5, <1>6, <1>7, <2>1, Triggered, Zenon DEF UInv
  <1>9. UTypes'
    <2>1. /\ uqueue \in Seq(UEvent) /\ DOMAIN uitems \subseteq 1..UMax
          /\ unread \in [UReg -> 0..UMsgs] /\ umoved \subseteq UReg
          /\ ucontent \in Seq(UEvent) /\ Len(ucontent) <= ULimit
      BY DEF UInv, UTypes
    <2>2. Len(uqueue') <= UQueue
      <3>1. Len(uqueue) \in Nat /\ Len(uqueue') \in Nat
        BY <2>1, <1>8
      <3> QED BY <3>1, <1>8 DEF UserPollConstants
    <2>3. ulast' \in 0..UMax /\ DOMAIN uitems' \subseteq 1..UMax
      BY <2>1, <1>3, <1>4, <1>5
    <2> QED BY <2>1, <2>2, <2>3, <1>4, <1>6, <1>7, <1>8, Zenon DEF UTypes
  <1>10. UOwners'
    <2>1. \A d \in UReg \ {c} : ufd[d] # 0 => ufd[d] \in DOMAIN uitems /\ ufd[d] # f
      BY <1>3 DEF UInv, UOwners, FD_UNDEFINED
    <2>2. \A d \in UReg : ufd'[d] = 0 <=> utok'[d] = 0
      BY <1>1, <1>3, <1>6 DEF UInv, UOwners, FD_UNDEFINED
    <2>3. \A d \in UReg : ufd'[d] # 0 => ufd'[d] \in DOMAIN uitems'
      BY <1>5, <1>6, <2>1
    <2>4. \A d, e \in UReg : ufd'[d] = ufd'[e] /\ ufd'[d] # 0 => d = e
      BY <1>6, <2>1 DEF UInv, UOwners, FD_UNDEFINED
    <2>5. \A d, e \in UReg : utok'[d] = utok'[e] /\ utok'[d] # 0 => d = e
      BY <1>1, <1>6 DEF UInv, UOwners
    <2>6. \A d \in UReg \ umoved' : utok'[d] # 0 => uitems'[ufd'[d]].token = utok'[d]
      BY <1>4, <1>5, <1>6, <2>1 DEF UInv, UOwners, FD_UNDEFINED
    <2> QED BY <2>2, <2>3, <2>4, <2>5, <2>6 DEF UOwners, FD_UNDEFINED
  <1>11. UAnnounced'
    <2> SUFFICES ASSUME NEW d \in UReg, utok'[d] # 0, unread'[d] > 0, d \notin umoved',
                        uitems'[ufd'[d]].topics = {"Readable"}
                 PROVE  [kind |-> "Readable", token |-> utok'[d]] \in Range(uqueue') \cup Range(ucontent')
      BY DEF UAnnounced
    <2>1. CASE d = c
      <3>0. ufd'[d] = f
        BY <2>1, <1>6
      <3>1. uitems'[f].topics = {r}
        BY <1>5
      <3>2. r = "Readable"
        BY <3>0, <3>1
      <3> QED BY <2>1, <3>2, <1>6, <1>8
    <2>2. CASE d # c
      <3>1. ufd[d] # 0 /\ ufd[d] \in DOMAIN uitems
        BY <2>2, <1>6 DEF UInv, UOwners, FD_UNDEFINED
      <3>2. [kind |-> "Readable", token |-> utok[d]] \in Range(uqueue) \cup Range(ucontent)
        BY <2>2, <3>1, <1>4, <1>5, <1>6 DEF UInv, UAnnounced
      <3> QED BY <2>2, <3>2, <1>4, <1>6, <1>8, Zenon
    <2> QED BY <2>1, <2>2
  <1> QED BY <1>9, <1>10, <1>11 DEF UInv

LEMMA StepReregister ==
  ASSUME UserPollConstants, UInv,
         NEW c \in UReg, NEW t \in UToken, NEW r \in Ready, reregister(c, t, r)
  PROVE  UInv'
  <1>1. /\ utok[c] # 0 /\ ufd[c] # 0 /\ ufd[c] \in DOMAIN uitems
        /\ \A d \in UReg \ {c} : utok[d] # t
        /\ t # 0
    BY DEF reregister, UInv, UOwners, FD_UNDEFINED, UserPollConstants
  <1>2. PICK f : f = ufd[c]
    OBVIOUS
  <1>3. /\ uitems' = [uitems EXCEPT ![f].topics = @ \cup {r}]
        /\ utok' = [utok EXCEPT ![c] = t]
        /\ umoved' = IF t = utok[c] THEN umoved ELSE umoved \cup {c}
        /\ UNCHANGED <<ufd, ulast, uqueue, ucontent, unread>>
    BY <1>1, <1>2 DEF reregister, ctl_add, FD_UNDEFINED
  <1>4. uitems[f] \in UItem
    BY <1>1, <1>2 DEF UInv, UTypes
  <1>5. /\ DOMAIN uitems' = DOMAIN uitems
        /\ uitems'[f].token = uitems[f].token /\ uitems'[f].topics = uitems[f].topics \cup {r}
        /\ uitems'[f] \in UItem
        /\ \A g \in DOMAIN uitems \ {f} : uitems'[g] = uitems[g]
    BY <1>1, <1>2, <1>3, <1>4 DEF UItem
  <1>6. /\ utok'[c] = t /\ \A d \in UReg \ {c} : utok'[d] = utok[d]
        /\ utok' \in [UReg -> UToken \cup {0}]
    BY <1>3 DEF UInv, UTypes
  <1>7. UTypes'
    <2>1. \A g \in DOMAIN uitems' : uitems'[g] \in UItem
      BY <1>5, Zenon DEF UInv, UTypes
    <2>2. umoved' \subseteq UReg
      BY <1>3 DEF UInv, UTypes
    <2> QED BY <2>1, <2>2, <1>3, <1>5, <1>6, Zenon DEF UInv, UTypes
  <1>8. \A d \in UReg \ {c} : ufd[d] # f
    BY <1>1, <1>2 DEF UInv, UOwners, FD_UNDEFINED
  <1>9. UOwners'
    <2>1. \A d \in UReg : ufd'[d] = 0 <=> utok'[d] = 0
      BY <1>1, <1>2, <1>3, <1>6 DEF UInv, UOwners, FD_UNDEFINED
    <2>2. /\ \A d \in UReg : ufd'[d] # 0 => ufd'[d] \in DOMAIN uitems'
          /\ \A d, e \in UReg : ufd'[d] = ufd'[e] /\ ufd'[d] # 0 => d = e
      BY <1>3, <1>5 DEF UInv, UOwners, FD_UNDEFINED
    <2>3. \A d, e \in UReg : utok'[d] = utok'[e] /\ utok'[d] # 0 => d = e
      BY <1>1, <1>6 DEF UInv, UOwners
    <2>4. ASSUME NEW d \in UReg \ umoved', utok'[d] # 0
          PROVE  uitems'[ufd'[d]].token = utok'[d]
      <3>1. CASE d = c
        <4>1. t = utok[c] /\ c \notin umoved
          BY <2>4, <3>1, <1>3
        <4>2. uitems[f].token = utok[c]
          BY <4>1, <1>1, <1>2 DEF UInv, UOwners
        <4> QED BY <3>1, <4>1, <4>2, <1>2, <1>3, <1>5, <1>6
      <3>2. CASE d # c
        <4>1. d \notin umoved /\ utok[d] # 0 /\ ufd[d] \in DOMAIN uitems \ {f}
          BY <2>4, <3>2, <1>3, <1>6, <1>8 DEF UInv, UOwners
        <4>2. uitems[ufd[d]].token = utok[d]
          BY <4>1 DEF UInv, UOwners
        <4> QED BY <3>2, <4>1, <4>2, <1>3, <1>5, <1>6
      <3> QED BY <3>1, <3>2
    <2> QED BY <2>1, <2>2, <2>3, <2>4 DEF UOwners, FD_UNDEFINED
  <1>10. UAnnounced'
    <2> SUFFICES ASSUME NEW d \in UReg, utok'[d] # 0, unread'[d] > 0, d \notin umoved',
                        uitems'[ufd'[d]].topics = {"Readable"}
                 PROVE  [kind |-> "Readable", token |-> utok'[d]] \in Range(uqueue') \cup Range(ucontent')
      BY DEF UAnnounced
    <2>1. d \notin umoved /\ utok'[d] = utok[d] /\ unread[d] > 0
      BY <1>3, <1>6
    <2>2. uitems[ufd[d]].topics = {"Readable"}
      <3>1. CASE d = c
        <4>1. uitems[f].topics # {} /\ uitems[f].topics \cup {r} = {"Readable"}
          BY <3>1, <1>2, <1>3, <1>4, <1>5 DEF UItem
        <4> QED BY <3>1, <4>1, <1>2
      <3>2. CASE d # c
        <4>1. ufd[d] \in DOMAIN uitems \ {f}
          BY <2>1, <3>2, <1>8 DEF UInv, UOwners
        <4> QED BY <4>1, <1>3, <1>5
      <3> QED BY <3>1, <3>2
    <2> QED BY <2>1, <2>2, <1>3 DEF UInv, UAnnounced
  <1> QED BY <1>7, <1>9, <1>10 DEF UInv

LEMMA StepDeregister ==
  ASSUME UserPollConstants, UInv, NEW c \in UReg, deregister(c)
  PROVE  UInv'
  <1>1. PICK f : f = ufd[c]
    OBVIOUS
  <1>2. /\ utok[c] # 0 /\ f # 0
        /\ ufd' = [ufd EXCEPT ![c] = 0]
        /\ uitems' = [g \in DOMAIN uitems \ {f} |-> uitems[g]]
        /\ utok' = [utok EXCEPT ![c] = 0] /\ umoved' = umoved \ {c}
        /\ UNCHANGED <<ulast, uqueue, ucontent, unread>>
    BY <1>1 DEF deregister, ctl_rem, FD_UNDEFINED, UInv, UOwners
  <1>3. /\ DOMAIN uitems' = DOMAIN uitems \ {f}
        /\ \A g \in DOMAIN uitems \ {f} : uitems'[g] = uitems[g]
    BY <1>2
  <1>4. /\ ufd'[c] = 0 /\ utok'[c] = 0
        /\ \A d \in UReg \ {c} : ufd'[d] = ufd[d] /\ utok'[d] = utok[d]
        /\ ufd' \in [UReg -> 0..UMax] /\ utok' \in [UReg -> UToken \cup {0}]
    BY <1>2 DEF UInv, UTypes, UserPollConstants
  <1>5. \A d \in UReg \ {c} : ufd[d] # 0 => ufd[d] \in DOMAIN uitems \ {f}
    BY <1>1, <1>2 DEF UInv, UOwners, FD_UNDEFINED
  <1>6. UTypes'
    BY <1>2, <1>3, <1>4 DEF UInv, UTypes
  <1>7. UOwners'
    <2>1. \A d \in UReg : ufd'[d] = 0 <=> utok'[d] = 0
      BY <1>4 DEF UInv, UOwners, FD_UNDEFINED
    <2>2. \A d \in UReg : ufd'[d] # 0 => ufd'[d] \in DOMAIN uitems'
      BY <1>3, <1>4, <1>5
    <2>3. \A d, e \in UReg : ufd'[d] = ufd'[e] /\ ufd'[d] # 0 => d = e
      BY <1>4 DEF UInv, UOwners, FD_UNDEFINED
    <2>4. \A d, e \in UReg : utok'[d] = utok'[e] /\ utok'[d] # 0 => d = e
      BY <1>4 DEF UInv, UOwners
    <2>5. \A d \in UReg \ umoved' : utok'[d] # 0 => uitems'[ufd'[d]].token = utok'[d]
      BY <1>2, <1>3, <1>4, <1>5 DEF UInv, UOwners, FD_UNDEFINED
    <2> QED BY <2>1, <2>2, <2>3, <2>4, <2>5 DEF UOwners, FD_UNDEFINED
  <1>8. UAnnounced'
    BY <1>2, <1>3, <1>4, <1>5, Zenon DEF UInv, UOwners, UAnnounced, FD_UNDEFINED
  <1> QED BY <1>6, <1>7, <1>8 DEF UInv

LEMMA StepSetReadiness ==
  ASSUME UserPollConstants, UInv, Len(uqueue) < UQueue, NEW c \in UReg, set_readiness(c)
  PROVE  UInv'
  <1>1. /\ unread[c] < UMsgs /\ unread' = [unread EXCEPT ![c] = @ + 1]
        /\ uqueue' = trigger_event(uitems, ufd[c], "Readable")
        /\ UNCHANGED <<uitems, ufd, ulast, ucontent, utok, umoved>>
    BY DEF set_readiness
  <1>2. "Readable" \in Ready /\ UTypes /\ \A g \in DOMAIN uitems : uitems[g] \in UItem
    BY DEF Ready, UInv, UTypes
  <1>3. /\ uqueue' \in Seq(UEvent) /\ Len(uqueue') <= Len(uqueue) + 1
        /\ Range(uqueue) \subseteq Range(uqueue')
        /\ ufd[c] \in DOMAIN uitems /\ "Readable" \in uitems[ufd[c]].topics =>
             [kind |-> "Readable", token |-> uitems[ufd[c]].token] \in Range(uqueue')
    BY <1>1, <1>2, Triggered
  <1>4. UTypes'
    <2>1. Len(uqueue') <= UQueue
      <3>1. Len(uqueue) \in Nat /\ Len(uqueue') \in Nat
        BY <1>2, <1>3 DEF UTypes
      <3> QED BY <3>1, <1>3 DEF UserPollConstants
    <2>2. unread' \in [UReg -> 0..UMsgs]
      BY <1>1, <1>2 DEF UTypes, UserPollConstants
    <2> QED BY <2>1, <2>2, <1>1, <1>2, <1>3 DEF UTypes
  <1>5. UOwners'
    BY <1>1 DEF UInv, UOwners
  <1>6. UAnnounced'
    <2> SUFFICES ASSUME NEW d \in UReg, utok[d] # 0, unread'[d] > 0, d \notin umoved,
                        uitems[ufd[d]].topics = {"Readable"}
                 PROVE  [kind |-> "Readable", token |-> utok[d]] \in Range(uqueue') \cup Range(ucontent)
      BY <1>1 DEF UAnnounced
    <2>1. CASE d = c
      <3>1. ufd[c] \in DOMAIN uitems /\ uitems[ufd[c]].token = utok[c]
        BY <2>1 DEF UInv, UOwners
      <3> QED BY <2>1, <3>1, <1>3
    <2>2. CASE d # c
      <3>1. unread[d] > 0
        BY <2>2, <1>1, <1>2 DEF UTypes
      <3>2. [kind |-> "Readable", token |-> utok[d]] \in Range(uqueue) \cup Range(ucontent)
        BY <3>1 DEF UInv, UAnnounced
      <3> QED BY <3>2, <1>3
    <2> QED BY <2>1, <2>2
  <1> QED BY <1>4, <1>5, <1>6 DEF UInv

LEMMA StepPoll ==
  ASSUME UserPollConstants, UInv, poll
  PROVE  UInv'
  <1>1. PICK s : s = uqueue
    OBVIOUS
  <1>2. s \in Seq(UEvent) /\ Len(s) \in Nat /\ Len(s) <= UQueue
    BY <1>1 DEF UInv, UTypes
  <1>3. PICK k : k = Len(s) - (IF ULimit < Len(s) THEN ULimit ELSE Len(s))
    OBVIOUS
  <1>4. k \in 0..Len(s) /\ Len(s) - k <= ULimit
    BY <1>2, <1>3 DEF UserPollConstants
  <1>5. /\ ucontent = <<>> /\ ucontent' = SubSeq(s, k + 1, Len(s)) /\ uqueue' = SubSeq(s, 1, k)
        /\ UNCHANGED <<uitems, ufd, ulast, utok, unread, umoved>>
    BY <1>1, <1>3 DEF poll
  <1>6. /\ uqueue' \in Seq(UEvent) /\ Len(uqueue') = k
        /\ ucontent' \in Seq(UEvent) /\ Len(ucontent') = Len(s) - k
        /\ Range(s) = Range(uqueue') \cup Range(ucontent')
    BY <1>2, <1>4, <1>5, Split
  <1>7. UTypes'
    <2>1. Len(uqueue') <= UQueue
      BY <1>2, <1>4, <1>6 DEF UserPollConstants
    <2> QED BY <2>1, <1>4, <1>5, <1>6 DEF UInv, UTypes
  <1>8. UOwners'
    BY <1>5 DEF UInv, UOwners
  <1>9. Range(ucontent) = {}
    BY <1>5 DEF Range
  <1>10. UAnnounced'
    BY <1>1, <1>5, <1>6, <1>9, Zenon DEF UInv, UAnnounced
  <1> QED BY <1>7, <1>8, <1>10 DEF UInv

LEMMA StepNext ==
  ASSUME UserPollConstants, UInv, next
  PROVE  UInv'
  <1>1. PICK s : s = ucontent
    OBVIOUS
  <1>2. PICK x : x = s[Len(s)]
    OBVIOUS
  <1>3. /\ s # <<>> /\ ucontent' = SubSeq(s, 1, Len(s) - 1)
        /\ unread' = [c \in UReg |-> IF utok[c] = x.token /\ x.kind = "Readable" THEN 0 ELSE unread[c]]
        /\ UNCHANGED <<uitems, ufd, ulast, uqueue, utok, umoved>>
    BY <1>1, <1>2 DEF next
  <1>4. s \in Seq(UEvent) /\ Len(s) \in Nat /\ Len(s) <= ULimit
    BY <1>1 DEF UInv, UTypes
  <1>5. /\ ucontent' \in Seq(UEvent) /\ Len(ucontent') = Len(s) - 1
        /\ Range(s) = Range(ucontent') \cup {x}
    BY <1>2, <1>3, <1>4, FrontLast
  <1>6. UTypes'
    <2>1. Len(ucontent') <= ULimit
      BY <1>4, <1>5 DEF UserPollConstants
    <2>2. unread' \in [UReg -> 0..UMsgs]
      BY <1>3 DEF UInv, UTypes, UserPollConstants
    <2> QED BY <2>1, <2>2, <1>3, <1>5 DEF UInv, UTypes
  <1>7. UOwners'
    BY <1>3 DEF UInv, UOwners
  <1>8. UAnnounced'
    <2> SUFFICES ASSUME NEW d \in UReg, utok[d] # 0, unread'[d] > 0, d \notin umoved,
                        uitems[ufd[d]].topics = {"Readable"}
                 PROVE  [kind |-> "Readable", token |-> utok[d]] \in Range(uqueue) \cup Range(ucontent')
      BY <1>3 DEF UAnnounced
    <2>1. ~(utok[d] = x.token /\ x.kind = "Readable") /\ unread[d] > 0
      BY <1>3
    <2>2. [kind |-> "Readable", token |-> utok[d]] # x
      BY <2>1
    <2>3. [kind |-> "Readable", token |-> utok[d]] \in Range(uqueue) \cup Range(s)
      BY <2>1, <1>1 DEF UInv, UAnnounced
    <2> QED BY <2>2, <2>3, <1>5
  <1> QED BY <1>6, <1>7, <1>8 DEF UInv

LEMMA UStep == ASSUME UserPollConstants, UInv, [UNext]_uvars PROVE UInv'
  <1>1. CASE UNext
    BY <1>1, StepRegister, StepReregister, StepSetReadiness, StepDeregister, StepPoll, StepNext
    DEF UNext
  <1>2. CASE UNCHANGED uvars
    BY <1>2, Zenon DEF uvars, UInv, UTypes, UOwners, UAnnounced
  <1> QED BY <1>1, <1>2

(* The events, the descriptors and the user's table have their types, and  *)
(* the queues respect the limits: a poll hands out at most size_limit.     *)
THEOREM UserPollTypes == ASSUME UserPollConstants PROVE USpec => []UTypeOK
  <1>1. UInv => UTypeOK
    BY DEF UInv, UTypes, UItem, UTypeOK
  <1> QED BY <1>1, UInitial, UStep, PTL DEF USpec

(* No wake-up is lost in UserPoll, whatever the number of registrations,   *)
(* tokens and events: what set_readiness announced for a registration, or  *)
(* register found waiting for it, has an event under its token among those *)
(* the poll still has to hand out, and descriptors are not shared.         *)
THEOREM UserPollWakesUp == ASSUME UserPollConstants PROVE USpec => []NoLostWakeup
  <1>1. UInv => NoLostWakeup
    BY DEF UInv, UOwners, UAnnounced, NoLostWakeup
  <1> QED BY <1>1, UInitial, UStep, PTL DEF USpec
=============================================================================
