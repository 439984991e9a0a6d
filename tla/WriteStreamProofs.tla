-------------------------- MODULE WriteStreamProofs --------------------------
(***************************************************************************)
(* Proofs about WriteStream, for any set of service commands, any role of  *)
(* the stream and any SEND_NB_ITER.                                        *)
(***************************************************************************)
EXTENDS WriteStream, TLAPS

-----------------------------------------------------------------------------
(* Elements and repetitions of the sequences the queues are built with.    *)

(* The elements of a concatenation are those of its parts. *)
LEMMA ToSetConcat ==
  ASSUME NEW S, NEW a \in Seq(S), NEW b \in Seq(S)
  PROVE  /\ a \o b \in Seq(S)
         /\ Range(a \o b) = Range(a) \cup Range(b)
<1>1. /\ a \o b \in Seq(S)
      /\ Len(a \o b) = Len(a) + Len(b)
      /\ \A i \in 1..Len(a) : (a \o b)[i] = a[i]
      /\ \A i \in 1..Len(b) : (a \o b)[Len(a) + i] = b[i]
  OBVIOUS
<1>2. ASSUME NEW x \in Range(a \o b) PROVE x \in Range(a) \cup Range(b)
  <2>1. PICK i \in 1..(Len(a) + Len(b)) : x = (a \o b)[i]
    BY <1>1 DEF Range
  <2>2. CASE i <= Len(a)
    BY <1>1, <2>1, <2>2 DEF Range
  <2>3. CASE i > Len(a)
    <3>1. /\ i - Len(a) \in 1..Len(b)
          /\ i = Len(a) + (i - Len(a))
      BY <2>1, <2>3
    <3> QED
      BY <1>1, <2>1, <3>1 DEF Range
  <2> QED
    BY <2>2, <2>3
<1>3. ASSUME NEW x \in Range(a) \cup Range(b) PROVE x \in Range(a \o b)
  <2>1. CASE x \in Range(a)
    BY <1>1, <2>1 DEF Range
  <2>2. CASE x \in Range(b)
    <3>1. PICK i \in 1..Len(b) : x = b[i]
      BY <2>2 DEF Range
    <3>2. Len(a) + i \in DOMAIN (a \o b) /\ (a \o b)[Len(a) + i] = x
      BY <1>1, <3>1
    <3> QED
      BY <3>2 DEF Range
  <2> QED
    BY <2>1, <2>2
<1> QED
  BY <1>1, <1>2, <1>3

(* A concatenation repeats nothing exactly when neither part does and the  *)
(* parts have no element in common.                                        *)
LEMMA NoRepeatConcat ==
  ASSUME NEW S, NEW a \in Seq(S), NEW b \in Seq(S)
  PROVE  NoRepeat(a \o b) <=>
           NoRepeat(a) /\ NoRepeat(b) /\ Range(a) \cap Range(b) = {}
<1>1. /\ DOMAIN (a \o b) = 1..(Len(a) + Len(b))
      /\ \A i \in 1..Len(a) : (a \o b)[i] = a[i]
      /\ \A i \in 1..Len(b) : (a \o b)[Len(a) + i] = b[i]
      /\ DOMAIN a = 1..Len(a) /\ DOMAIN b = 1..Len(b)
      /\ Len(a) \in Nat /\ Len(b) \in Nat
  OBVIOUS
<1>2. ASSUME NoRepeat(a \o b) PROVE NoRepeat(a) /\ NoRepeat(b)
  <2>1. NoRepeat(a)
    BY <1>1, <1>2 DEF NoRepeat
  <2>2. ASSUME NEW i \in 1..Len(b), NEW j \in 1..Len(b), b[i] = b[j] PROVE i = j
    <3>1. /\ Len(a) + i \in DOMAIN (a \o b)
          /\ Len(a) + j \in DOMAIN (a \o b)
      BY <1>1
    <3>2. Len(a) + i = Len(a) + j
      BY <1>1, <1>2, <2>2, <3>1, Zenon DEF NoRepeat
    <3> QED
      BY <1>1, <3>2
  <2> QED
    BY <1>1, <2>1, <2>2 DEF NoRepeat
<1>3. ASSUME NoRepeat(a \o b) PROVE Range(a) \cap Range(b) = {}
  <2> SUFFICES ASSUME NEW i \in 1..Len(a), NEW j \in 1..Len(b), a[i] = b[j] PROVE FALSE
    BY <1>1 DEF Range
  <2>1. /\ i \in DOMAIN (a \o b)
        /\ Len(a) + j \in DOMAIN (a \o b)
        /\ (a \o b)[i] = (a \o b)[Len(a) + j]
    BY <1>1
  <2>2. i = Len(a) + j
    BY <1>3, <2>1, Zenon DEF NoRepeat
  <2> QED
    BY <1>1, <2>2
<1>4. ASSUME NoRepeat(a), NoRepeat(b), Range(a) \cap Range(b) = {},
             NEW i \in DOMAIN (a \o b), NEW j \in DOMAIN (a \o b),
             (a \o b)[i] = (a \o b)[j]
      PROVE  i = j
  <2>1. CASE i <= Len(a) /\ j <= Len(a)
    BY <1>1, <1>4, <2>1 DEF NoRepeat
  <2>2. CASE i > Len(a) /\ j > Len(a)
    <3>1. /\ i - Len(a) \in 1..Len(b) /\ i = Len(a) + (i - Len(a))
          /\ j - Len(a) \in 1..Len(b) /\ j = Len(a) + (j - Len(a))
      BY <1>1, <2>2
    <3>2. b[i - Len(a)] = b[j - Len(a)]
      BY <1>1, <1>4, <3>1
    <3>3. i - Len(a) = j - Len(a)
      BY <1>1, <1>4, <3>1, <3>2 DEF NoRepeat
    <3> QED
      BY <1>1, <3>1, <3>3
  <2>3. ASSUME NEW k \in 1..Len(a), NEW l \in (Len(a) + 1)..(Len(a) + Len(b)),
               (a \o b)[k] = (a \o b)[l]
        PROVE  FALSE
    <3>1. l - Len(a) \in 1..Len(b) /\ l = Len(a) + (l - Len(a))
      BY <1>1
    <3>2. a[k] = b[l - Len(a)]
      BY <1>1, <2>3, <3>1
    <3> QED
      BY <1>1, <1>4, <3>1, <3>2, Zenon DEF Range
  <2> QED
    BY <1>1, <1>4, <2>1, <2>2, <2>3
<1> QED
  BY <1>2, <1>3, <1>4 DEF NoRepeat

(* A sequence of one element. *)
LEMMA Singleton ==
  ASSUME NEW S, NEW x \in S
  PROVE  <<x>> \in Seq(S) /\ Range(<<x>>) = {x} /\ NoRepeat(<<x>>)
BY DEF Range, NoRepeat

(* Adding at the end of a queue. *)
LEMMA AppendFacts ==
  ASSUME NEW S, NEW a \in Seq(S), NEW x \in S
  PROVE  /\ Append(a, x) \in Seq(S)
         /\ Range(Append(a, x)) = Range(a) \cup {x}
         /\ NoRepeat(Append(a, x)) <=> NoRepeat(a) /\ x \notin Range(a)
<1>1. PICK u \in Seq(S) : u = <<x>> /\ Range(u) = {x} /\ NoRepeat(u)
  BY Singleton, Zenon
<1>2. Append(a, x) = a \o u
  BY <1>1
<1>3. a \o u \in Seq(S) /\ Range(a \o u) = Range(a) \cup Range(u)
  BY ToSetConcat
<1>4. NoRepeat(a \o u) <=> NoRepeat(a) /\ NoRepeat(u) /\ Range(a) \cap Range(u) = {}
  BY NoRepeatConcat
<1> QED
  BY <1>1, <1>2, <1>3, <1>4, Zenon

(* Putting an element before a queue. *)
LEMMA ConsFacts ==
  ASSUME NEW S, NEW a \in Seq(S), NEW x \in S
  PROVE  /\ <<x>> \o a \in Seq(S)
         /\ Range(<<x>> \o a) = {x} \cup Range(a)
         /\ NoRepeat(<<x>> \o a) <=> NoRepeat(a) /\ x \notin Range(a)
<1>1. PICK u \in Seq(S) : u = <<x>> /\ Range(u) = {x} /\ NoRepeat(u)
  BY Singleton, Zenon
<1>2. u \o a \in Seq(S) /\ Range(u \o a) = Range(u) \cup Range(a)
  BY ToSetConcat
<1>3. NoRepeat(u \o a) <=> NoRepeat(u) /\ NoRepeat(a) /\ Range(u) \cap Range(a) = {}
  BY NoRepeatConcat
<1> QED
  BY <1>1, <1>2, <1>3, Zenon

(* Taking the oldest element of a queue. *)
LEMMA HeadTailFacts ==
  ASSUME NEW S, NEW a \in Seq(S), a /= <<>>
  PROVE  /\ Head(a) \in S /\ Tail(a) \in Seq(S)
         /\ Range(a) = {Head(a)} \cup Range(Tail(a))
         /\ NoRepeat(a) <=> NoRepeat(Tail(a)) /\ Head(a) \notin Range(Tail(a))
<1>1. Head(a) \in S /\ Tail(a) \in Seq(S) /\ a = <<Head(a)>> \o Tail(a)
  OBVIOUS
<1>2. PICK h \in S, t \in Seq(S) : h = Head(a) /\ t = Tail(a)
  BY <1>1, Zenon
<1>3. a = <<h>> \o t
  BY <1>1, <1>2
<1>4. Range(a) = {h} \cup Range(t) /\ (NoRepeat(a) <=> NoRepeat(t) /\ h \notin Range(t))
  BY <1>3, ConsFacts
<1> QED
  BY <1>1, <1>2, <1>4, Zenon

-----------------------------------------------------------------------------
(* No step changes the configuration of the stream. *)
LEMMA ConfStep ==
  ASSUME [Next]_vars PROVE role' = role /\ nb_iter' = nb_iter /\ once' = once
BY Zenon DEF Next, vars, conf, call, write_stream_send, connected, iterate, ping, pong,
   service, return, write_error

(* TypeOK in two parts: the provers treat Booleans apart from the rest.    *)
BoolOK == conn \in BOOLEAN /\ shut \in BOOLEAN /\ with \in BOOLEAN

DataOK ==
  /\ chan \in Seq(Command) /\ buff \in Seq(Command)
  /\ wire \in Seq(Command) /\ sent \in Seq(Command)
  /\ svc \in {"none", "run", "end", "fail", "panic"}
  /\ nb_iter \in Nat /\ left \in 0..nb_iter
  /\ lost \subseteq Command /\ reported \subseteq Command
  /\ spawnAt \in Nat

(* The two parts make up TypeOK. *)
LEMMA TypeParts == TypeOK <=> BoolOK /\ DataOK
BY DEF TypeOK, BoolOK, DataOK

-----------------------------------------------------------------------------
(* The buffer splits into the messages a written by an interrupted flush,  *)
(* those of B lost in it and the messages z it has not reached.            *)
Flushed(a, B, z) ==
  /\ Range(buff) = Range(a) \cup B \cup Range(z)
  /\ NoRepeat(buff) =>
       /\ NoRepeat(a) /\ NoRepeat(z)
       /\ Range(a) \cap Range(z) = {} /\ Range(a) \cap B = {} /\ B \cap Range(z) = {}
  /\ \A x, y : Before(a, x, y) \/ Before(z, x, y) \/ (x \in Range(a) /\ y \in Range(z))
                => Before(buff, x, y)

(* A flush interrupted at the i-th buffered message. *)
LEMMA FlushedTo ==
  ASSUME buff \in Seq(Command), NEW i \in DOMAIN buff
  PROVE  LET a == SubSeq(buff, 1, i - 1)
             z == SubSeq(buff, i + 1, Len(buff))
         IN  a \in Seq(Command) /\ z \in Seq(Command) /\ Flushed(a, {buff[i]}, z)
<1> DEFINE a == SubSeq(buff, 1, i - 1)
           z == SubSeq(buff, i + 1, Len(buff))
<1>1. /\ a \in Seq(Command) /\ z \in Seq(Command)
      /\ Len(buff) \in Nat /\ DOMAIN buff = 1..Len(buff) /\ i \in 1..Len(buff)
      /\ DOMAIN a = 1..(i - 1) /\ DOMAIN z = 1..(Len(buff) - i)
      /\ \A k \in 1..(i - 1) : a[k] = buff[k]
      /\ \A k \in 1..(Len(buff) - i) : z[k] = buff[i + k]
  OBVIOUS
<1> HIDE DEF a, z
<1>2. \A k \in (i + 1)..Len(buff) : k - i \in DOMAIN z /\ z[k - i] = buff[k]
  <2> SUFFICES ASSUME NEW k \in (i + 1)..Len(buff)
               PROVE  k - i \in DOMAIN z /\ z[k - i] = buff[k]
    OBVIOUS
  <2>1. k - i \in 1..(Len(buff) - i) /\ i + (k - i) = k
    BY <1>1
  <2> QED
    BY <1>1, <2>1
<1>3. ASSUME NEW x \in Range(a) PROVE \E k \in 1..(i - 1) : x = buff[k] /\ x = a[k]
  BY <1>1 DEF Range
<1>4. ASSUME NEW x \in Range(z)
      PROVE  \E k \in 1..(Len(buff) - i) : x = buff[i + k] /\ x = z[k] /\ i + k \in DOMAIN buff
  BY <1>1 DEF Range
<1>5. Range(buff) = Range(a) \cup {buff[i]} \cup Range(z)
  <2>1. ASSUME NEW x \in Range(buff) PROVE x \in Range(a) \cup {buff[i]} \cup Range(z)
    <3>1. PICK k \in 1..Len(buff) : x = buff[k]
      BY <1>1 DEF Range
    <3>2. CASE k \in 1..(i - 1)
      BY <1>1, <3>1, <3>2 DEF Range
    <3>3. CASE k \in (i + 1)..Len(buff)
      BY <1>2, <3>1, <3>3 DEF Range
    <3> QED
      BY <1>1, <3>1, <3>2, <3>3
  <2>2. Range(a) \subseteq Range(buff)
    BY <1>1, <1>3 DEF Range
  <2>3. Range(z) \subseteq Range(buff) /\ buff[i] \in Range(buff)
    BY <1>1, <1>4 DEF Range
  <2> QED
    BY <2>1, <2>2, <2>3
<1>6. ASSUME NoRepeat(buff)
      PROVE  /\ NoRepeat(a) /\ NoRepeat(z)
             /\ Range(a) \cap Range(z) = {} /\ Range(a) \cap {buff[i]} = {}
             /\ {buff[i]} \cap Range(z) = {}
  <2>0. \A j, k \in 1..Len(buff) : buff[j] = buff[k] => j = k
    BY <1>1, <1>6 DEF NoRepeat
  <2>1. NoRepeat(a)
    BY <1>1, <2>0 DEF NoRepeat
  <2>2. NoRepeat(z)
    <3> SUFFICES ASSUME NEW j \in 1..(Len(buff) - i), NEW k \in 1..(Len(buff) - i), z[j] = z[k]
                 PROVE  j = k
      BY <1>1 DEF NoRepeat
    <3>1. i + j \in 1..Len(buff) /\ i + k \in 1..Len(buff) /\ buff[i + j] = buff[i + k]
      BY <1>1
    <3>2. i + j = i + k
      BY <2>0, <3>1
    <3> QED
      BY <1>1, <3>2
  <2>3. ASSUME NEW x \in Range(a) PROVE x /= buff[i] /\ x \notin Range(z)
    <3>1. PICK k \in 1..(i - 1) : x = buff[k]
      BY <1>3
    <3>2. x /= buff[i]
      BY <1>1, <2>0, <3>1
    <3>3. ASSUME x \in Range(z) PROVE FALSE
      <4>1. PICK l \in 1..(Len(buff) - i) : x = buff[i + l]
        BY <1>4, <3>3
      <4>2. k \in 1..Len(buff) /\ i + l \in 1..Len(buff) /\ k /= i + l
        BY <1>1, <3>1, <4>1
      <4> QED
        BY <2>0, <3>1, <4>1, <4>2
    <3> QED
      BY <3>2, <3>3
  <2>4. buff[i] \notin Range(z)
    <3> SUFFICES ASSUME buff[i] \in Range(z) PROVE FALSE
      OBVIOUS
    <3>1. PICK l \in 1..(Len(buff) - i) : buff[i] = buff[i + l]
      BY <1>4
    <3> QED
      BY <1>1, <2>0, <3>1
  <2> QED
    BY <2>1, <2>2, <2>3, <2>4
<1>7. ASSUME NEW x, NEW y, Before(a, x, y) PROVE Before(buff, x, y)
  BY <1>1, <1>7 DEF Before
<1>8. ASSUME NEW x, NEW y, Before(z, x, y) PROVE Before(buff, x, y)
  <2>1. PICK j, k \in 1..(Len(buff) - i) : z[j] = x /\ z[k] = y /\ j < k
    BY <1>1, <1>8 DEF Before
  <2>2. /\ i + j \in DOMAIN buff /\ i + k \in DOMAIN buff /\ i + j < i + k
        /\ buff[i + j] = x /\ buff[i + k] = y
    BY <1>1, <2>1
  <2> QED
    BY <2>2 DEF Before
<1>9. ASSUME NEW x \in Range(a), NEW y \in Range(z) PROVE Before(buff, x, y)
  <2>1. PICK j \in 1..(i - 1) : x = buff[j]
    BY <1>3
  <2>2. PICK k \in 1..(Len(buff) - i) : y = buff[i + k]
    BY <1>4
  <2>3. j \in DOMAIN buff /\ i + k \in DOMAIN buff /\ j < i + k
    BY <1>1, <2>1, <2>2
  <2> QED
    BY <2>1, <2>2, <2>3 DEF Before
<1>10. Flushed(a, {buff[i]}, z)
  BY <1>5, <1>6, <1>7, <1>8, <1>9, Zenon DEF Flushed
<1> QED
  BY <1>1, <1>10 DEF a, z

(* A flush that is not begun, and one that is completed. *)
LEMMA FlushedAtEnds ==
  Flushed(<<>>, {}, buff) /\ Flushed(buff, {}, <<>>)
<1>1. Range(<<>>) = {} /\ NoRepeat(<<>>) /\ \A x, y : ~Before(<<>>, x, y)
  BY DEF Range, NoRepeat, Before
<1> QED
  BY <1>1, Zenon DEF Flushed

(* What a write error writes, loses and keeps: the stream is w, with the   *)
(* pong when that is what was sent, followed by a part of the buffer.      *)
LEMMA WriteErrorCases ==
  ASSUME DataOK, write_error
  PROVE  /\ iterate /\ svc' = "fail" /\ with' = (with \/ Head(chan) = "Pong")
         /\ \E a, z \in Seq(Command), B \in SUBSET Command, w \in Seq(Command) :
              /\ \/ w = wire /\ lost' = lost \cup B \cup {Head(chan)}
                 \/ w = Append(wire, Head(chan)) /\ Head(chan) = "Pong" /\ lost' = lost \cup B
              /\ Range(a) = {} \/ w /= wire \/ authenticated
              /\ wire' = w \o a /\ buff' = z
              /\ Flushed(a, B, z)
<1> DEFINE c == Head(chan)
           P(a, z, B, w) ==
             /\ \/ w = wire /\ lost' = lost \cup B \cup {c}
                \/ w = Append(wire, c) /\ c = "Pong" /\ lost' = lost \cup B
             /\ Range(a) = {} \/ w /= wire \/ authenticated
             /\ wire' = w \o a /\ buff' = z
             /\ Flushed(a, B, z)
<1>s. buff \in Seq(Command) /\ wire \in Seq(Command) /\ c \in Command
  BY DEF DataOK, write_error, iterate
<1>p. c = "Pong" => c \notin Svc
  BY WriteStreamAssumption
<1>e. <<>> \in Seq(Command) /\ {} \in SUBSET Command
  OBVIOUS
<1>1. ASSUME /\ c \in Svc => authenticated
             /\ wire' = IF c \in Svc THEN wire \o buff ELSE wire
             /\ buff' = IF c \in Svc THEN <<>> ELSE buff
             /\ lost' = lost \cup {c}
      PROVE  \E a, z \in Seq(Command), B \in SUBSET Command, w \in Seq(Command) : P(a, z, B, w)
  <2>1. CASE c \in Svc
    <3>1. P(buff, <<>>, {}, wire)
      BY <1>1, <2>1, FlushedAtEnds, Zenon
    <3> QED
      BY <1>s, <1>e, <3>1, Zenon
  <2>2. CASE c \notin Svc
    <3>1. wire' = wire \o <<>> /\ Range(<<>>) = {}
      BY <1>s, <1>1, <2>2 DEF Range
    <3>2. P(<<>>, buff, {}, wire)
      BY <1>1, <2>2, <3>1, FlushedAtEnds, Zenon
    <3> QED
      BY <1>s, <1>e, <3>2, Zenon
  <2> QED
    BY <2>1, <2>2
<1>2. ASSUME /\ c = "Pong" \/ (c \in Svc /\ authenticated)
             /\ \E i \in DOMAIN buff :
                  /\ wire' = (IF c = "Pong" THEN Append(wire, c) ELSE wire) \o SubSeq(buff, 1, i - 1)
                  /\ buff' = SubSeq(buff, i + 1, Len(buff))
                  /\ lost' = lost \cup {buff[i]} \cup (IF c \in Svc THEN {c} ELSE {})
      PROVE  \E a, z \in Seq(Command), B \in SUBSET Command, w \in Seq(Command) : P(a, z, B, w)
  <2>1. PICK i \in DOMAIN buff :
          /\ wire' = (IF c = "Pong" THEN Append(wire, c) ELSE wire) \o SubSeq(buff, 1, i - 1)
          /\ buff' = SubSeq(buff, i + 1, Len(buff))
          /\ lost' = lost \cup {buff[i]} \cup (IF c \in Svc THEN {c} ELSE {})
    BY <1>2, Zenon
  <2>2. PICK a, z \in Seq(Command) :
          /\ a = SubSeq(buff, 1, i - 1) /\ z = SubSeq(buff, i + 1, Len(buff))
          /\ Flushed(a, {buff[i]}, z)
    BY <1>s, FlushedTo, Zenon
  <2>3. {buff[i]} \in SUBSET Command
    BY <1>s
  <2>4. CASE c = "Pong"
    <3>1. Append(wire, c) /= wire /\ Append(wire, c) \in Seq(Command)
      BY <1>s
    <3>2. P(a, z, {buff[i]}, Append(wire, c))
      BY <1>p, <2>1, <2>2, <2>4, <3>1, Zenon
    <3> QED
      BY <2>3, <3>1, <3>2, Zenon
  <2>5. CASE c /= "Pong"
    <3>1. P(a, z, {buff[i]}, wire)
      BY <1>2, <2>1, <2>2, <2>5, Zenon
    <3> QED
      BY <1>s, <2>3, <3>1, Zenon
  <2> QED
    BY <2>4, <2>5
<1>3. iterate /\ svc' = "fail" /\ with' = (with \/ c = "Pong")
  BY DEF write_error
<1>4. \E a, z \in Seq(Command), B \in SUBSET Command, w \in Seq(Command) : P(a, z, B, w)
  BY <1>1, <1>2, Zenon DEF write_error
<1> QED
  BY <1>3, <1>4, Zenon

(* The state variables of the write entry and its service keep their types *)
(* in every step of the main loop and of the write service.                *)
THEOREM TypeCorrect == Spec => []TypeOK
<1>1. Init => TypeOK
  <2>1. Init => BoolOK
    BY WriteStreamAssumption, Zenon DEF Init, BoolOK
  <2>2. Init => DataOK
    BY WriteStreamAssumption DEF Init, DataOK
  <2> QED
    BY <2>1, <2>2, TypeParts
<1>2. ASSUME BoolOK, [Next]_vars PROVE BoolOK'
  BY <1>2, Zenon DEF BoolOK, Next, vars, call, write_stream_send, connected,
     iterate, ping, pong, service, return, write_error
<1>3. ASSUME DataOK, [Next]_vars PROVE DataOK'
  <2>0. nb_iter' = nb_iter
    BY <1>3, ConfStep
  <2> USE <1>3, <2>0 DEF DataOK
  <2>1. ASSUME NEW c \in Command, write_stream_send(c) PROVE DataOK'
    <3>1. Append(sent, c) \in Seq(Command) /\ Append(chan, c) \in Seq(Command)
      OBVIOUS
    <3>2. <<c>> \o chan \in Seq(Command)
      OBVIOUS
    <3>3. sent' \in Seq(Command) /\ Len(sent') \in Nat
      BY <2>1, <3>1 DEF write_stream_send
    <3>4. spawnAt' \in Nat
      BY <2>1, <3>3, Zenon DEF write_stream_send, spawn
    <3>5. chan' \in Seq(Command) /\ svc' \in {"none", "run", "end", "fail", "panic"}
      BY <2>1, <3>1, <3>2, Zenon DEF write_stream_send, spawn
    <3>6. left' \in 0..nb_iter
      <4>1. left' = left \/ left' = nb_iter
        BY <2>1, Zenon DEF write_stream_send, spawn
      <4> QED
        BY <4>1
    <3>7. reported' \subseteq Command
      BY <2>1, Zenon DEF write_stream_send
    <3>8. UNCHANGED <<buff, wire, lost>>
      BY <2>1 DEF write_stream_send
    <3> QED
      BY <3>3, <3>4, <3>5, <3>6, <3>7, <3>8
  <2>2. CASE connected
    <3>1. chan /= <<>> => Append(Tail(chan), Head(chan)) \in Seq(Command)
      OBVIOUS
    <3>2. sent' = sent /\ Len(sent) \in Nat
      BY <2>2 DEF connected
    <3>3. chan' \in Seq(Command) /\ svc' \in {"none", "run", "end", "fail", "panic"}
      BY <2>2, <3>1, Zenon DEF connected, spawn
    <3>4. left' = left \/ left' = nb_iter
      BY <2>2, Zenon DEF connected, spawn
    <3>5. spawnAt' \in Nat
      BY <2>2, <3>2, Zenon DEF connected, spawn
    <3>6. UNCHANGED <<buff, wire, sent, lost, reported>>
      BY <2>2 DEF connected
    <3> QED
      BY <3>3, <3>4, <3>5, <3>6
  <2>3. ASSUME iterate
        PROVE  /\ Head(chan) \in Command /\ chan' \in Seq(Command)
               /\ left' \in 0..nb_iter
               /\ UNCHANGED <<sent, reported, spawnAt>>
    BY <2>3 DEF iterate
  <2>4. CASE ping
    BY <2>3, <2>4 DEF ping
  <2>5. CASE pong
    BY <2>3, <2>5 DEF pong
  <2>6. CASE service
    <3>1. iterate
      BY <2>6 DEF service
    <3>2. /\ Append(buff, Head(chan)) \in Seq(Command)
          /\ Append(wire \o buff, Head(chan)) \in Seq(Command)
          /\ <<>> \in Seq(Command)
      BY <2>3, <3>1
    <3>3. /\ buff' \in Seq(Command) /\ wire' \in Seq(Command) /\ lost' = lost
          /\ svc' = "end" \/ svc' = svc
      BY <2>6, <3>2, Zenon DEF service
    <3> QED
      BY <2>3, <3>1, <3>3
  <2>7. CASE write_error
    <3>1. iterate /\ svc' = "fail"
      BY <2>7 DEF write_error
    <3>2. PICK a, z \in Seq(Command), B \in SUBSET Command, w \in Seq(Command) :
            /\ \/ w = wire /\ lost' = lost \cup B \cup {Head(chan)}
               \/ w = Append(wire, Head(chan)) /\ lost' = lost \cup B
            /\ wire' = w \o a /\ buff' = z
      BY <1>3, <2>7, WriteErrorCases, Zenon
    <3>3. Append(wire, Head(chan)) \in Seq(Command)
      BY <2>3, <3>1
    <3>4. w \in Seq(Command)
      BY <3>2, <3>3, Zenon
    <3>5. wire' \in Seq(Command)
      BY <3>2, <3>4
    <3>6. lost' \subseteq Command
      BY <2>3, <3>1, <3>2, Zenon
    <3> QED
      BY <2>3, <3>1, <3>2, <3>5, <3>6
  <2>8. CASE return
    BY <2>8 DEF return
  <2>9. CASE UNCHANGED vars
    BY <2>9 DEF vars
  <2> QED
    BY <2>1, <2>2, <2>4, <2>5, <2>6, <2>7, <2>8, <2>9, <1>3, Zenon DEF Next, call
<1> QED
  BY <1>1, <1>2, <1>3, TypeParts, PTL DEF Spec

-----------------------------------------------------------------------------
(* Where the commands accepted so far are, place by place.  The part about *)
(* sent is what makes it inductive: a command accepted now is not already  *)
(* in the channel, in the buffer, on the wire or lost.                     *)
Elsewhere == Range(chan) \cup Range(buff) \cup Range(wire) \cup lost

PlacesInv ==
  /\ NoRepeat(chan) /\ NoRepeat(buff) /\ NoRepeat(wire)
  /\ Range(chan) \cap Range(buff) = {}
  /\ Range(chan) \cap Range(wire) = {}
  /\ Range(buff) \cap Range(wire) = {}
  /\ lost \cap (Range(chan) \cup Range(buff) \cup Range(wire)) = {}
  /\ Elsewhere \subseteq Range(sent)
  /\ Range(sent) \subseteq Elsewhere \cup (IF svc = "panic" THEN {sent[Len(sent)]} ELSE {})

(* PlacesInv is EachCommandInOnePlace, told place by place. *)
LEMMA PlacesImplies ==
  ASSUME DataOK, PlacesInv PROVE EachCommandInOnePlace
<1>1. chan \in Seq(Command) /\ buff \in Seq(Command) /\ wire \in Seq(Command)
  BY DEF DataOK
<1>2. PICK q \in Seq(Command) :
        /\ q = chan \o buff
        /\ Range(q) = Range(chan) \cup Range(buff)
        /\ NoRepeat(q)
  <2>1. chan \o buff \in Seq(Command) /\ Range(chan \o buff) = Range(chan) \cup Range(buff)
    BY <1>1, ToSetConcat
  <2>2. NoRepeat(chan \o buff)
    BY <1>1, NoRepeatConcat DEF PlacesInv
  <2> QED
    BY <2>1, <2>2, Zenon
<1>3. Range(q \o wire) = Range(q) \cup Range(wire)
  BY <1>1, ToSetConcat
<1>4. NoRepeat(q \o wire)
  <2>1. Range(q) \cap Range(wire) = {}
    BY <1>2, Zenon DEF PlacesInv
  <2> QED
    BY <1>1, <1>2, <2>1, NoRepeatConcat, Zenon DEF PlacesInv
<1> QED
  BY <1>2, <1>3, <1>4, Zenon DEF EachCommandInOnePlace, PlacesInv, Elsewhere

(* Every step of the main loop and of the write service keeps PlacesInv.   *)
LEMMA PlacesStep ==
  ASSUME DataOK, PlacesInv, [Next]_vars PROVE PlacesInv'
<1>s. chan \in Seq(Command) /\ buff \in Seq(Command) /\ wire \in Seq(Command)
  BY DEF DataOK
<1>a. ASSUME NEW q \in Seq(Command), NEW x \in Command
      PROVE  /\ Append(q, x) \in Seq(Command)
             /\ Range(Append(q, x)) = Range(q) \cup {x}
             /\ NoRepeat(q) /\ x \notin Range(q) => NoRepeat(Append(q, x))
  <2>1. PICK S : S = Command
    OBVIOUS
  <2>2. q \in Seq(S) /\ x \in S
    BY <2>1
  <2>3. /\ Append(q, x) \in Seq(S)
        /\ Range(Append(q, x)) = Range(q) \cup {x}
        /\ NoRepeat(Append(q, x)) <=> NoRepeat(q) /\ x \notin Range(q)
    BY ONLY <2>2, AppendFacts
  <2> QED
    BY <2>1, <2>3, Zenon
<1>b. ASSUME NEW q \in Seq(Command), NEW r \in Seq(Command)
      PROVE  /\ q \o r \in Seq(Command)
             /\ Range(q \o r) = Range(q) \cup Range(r)
             /\ NoRepeat(q) /\ NoRepeat(r) /\ Range(q) \cap Range(r) = {}
                  => NoRepeat(q \o r)
  <2>1. q \o r \in Seq(Command) /\ Range(q \o r) = Range(q) \cup Range(r)
    BY ToSetConcat
  <2>2. NoRepeat(q \o r) <=> NoRepeat(q) /\ NoRepeat(r) /\ Range(q) \cap Range(r) = {}
    BY NoRepeatConcat
  <2> QED
    BY <2>1, <2>2, Zenon
<1>1. ASSUME NEW c \in Command, write_stream_send(c) PROVE PlacesInv'
  <2>1. /\ Range(sent') = Range(sent) \cup {c}
        /\ sent'[Len(sent')] = c
    <3>1. sent' = Append(sent, c)
      BY <1>1 DEF write_stream_send
    <3>2. Range(Append(sent, c)) = Range(sent) \cup {c}
      BY <1>a, Zenon DEF DataOK
    <3>3. Append(sent, c)[Len(Append(sent, c))] = c
      BY DEF DataOK
    <3> QED
      BY <3>1, <3>2, <3>3
  <2>2. UNCHANGED <<buff, wire, lost>>
    BY <1>1 DEF write_stream_send
  <2>3. c \notin Range(sent) /\ c \notin Elsewhere /\ svc /= "panic"
    BY <1>1, Zenon DEF write_stream_send, Addressable, PlacesInv
  <2>4. c \notin Range(chan)
    BY <2>3, Zenon DEF Elsewhere
  <2>5. /\ Range(Append(chan, c)) = Range(chan) \cup {c} /\ NoRepeat(Append(chan, c))
        /\ Range(<<c>> \o chan) = Range(chan) \cup {c} /\ NoRepeat(<<c>> \o chan)
    <3>1. Range(Append(chan, c)) = Range(chan) \cup {c} /\ NoRepeat(Append(chan, c))
      BY <1>s, <1>a, <2>4, Zenon DEF PlacesInv
    <3>2. Range(<<c>> \o chan) = {c} \cup Range(chan) /\ NoRepeat(<<c>> \o chan)
      BY <1>s, <2>4, ConsFacts DEF PlacesInv
    <3> QED
      BY <3>1, <3>2, Zenon
  <2>6. CASE svc' = "panic" /\ chan' = chan
    BY <2>1, <2>2, <2>3, <2>6, Zenon DEF PlacesInv, Elsewhere
  <2>7. CASE svc' /= "panic" /\ (chan' = Append(chan, c) \/ chan' = <<c>> \o chan)
    <3>1. Range(chan') = Range(chan) \cup {c} /\ NoRepeat(chan')
      BY <2>5, <2>7, Zenon
    <3>2. Elsewhere' = Elsewhere \cup {c}
      BY <2>2, <3>1, Zenon DEF Elsewhere
    <3>3. /\ Range(chan') \cap Range(buff') = {} /\ Range(chan') \cap Range(wire') = {}
          /\ lost' \cap (Range(chan') \cup Range(buff') \cup Range(wire')) = {}
      <4>1. Range(chan') \cap Range(buff') = {}
        BY <2>2, <2>3, <3>1, Zenon DEF PlacesInv, Elsewhere
      <4>2. Range(chan') \cap Range(wire') = {}
        BY <2>2, <2>3, <3>1, Zenon DEF PlacesInv, Elsewhere
      <4>3. lost' \cap (Range(chan') \cup Range(buff') \cup Range(wire')) = {}
        BY <2>2, <2>3, <3>1, Zenon DEF PlacesInv, Elsewhere
      <4> QED
        BY <4>1, <4>2, <4>3
    <3>4. /\ Elsewhere' \subseteq Range(sent')
          /\ Range(sent') \subseteq Elsewhere'
      BY <2>1, <2>3, <3>2, Zenon DEF PlacesInv
    <3> QED
      BY <2>2, <2>7, <3>1, <3>3, <3>4, Zenon DEF PlacesInv
  <2> QED
    BY <1>1, <2>6, <2>7, Zenon DEF write_stream_send, spawn
<1>2. CASE connected
  <2>1. UNCHANGED <<buff, wire, sent, lost>> /\ svc /= "panic" /\ svc' /= "panic"
    BY <1>2, Zenon DEF connected, spawn
  <2>2. CASE chan' = chan
    BY <2>1, <2>2, Zenon DEF PlacesInv, Elsewhere
  <2>3. CASE chan /= <<>> /\ chan' = Append(Tail(chan), Head(chan))
    <3>1. /\ Head(chan) \in Command /\ Tail(chan) \in Seq(Command)
          /\ Range(chan) = {Head(chan)} \cup Range(Tail(chan))
          /\ NoRepeat(Tail(chan)) /\ Head(chan) \notin Range(Tail(chan))
      BY <1>s, <2>3, HeadTailFacts DEF PlacesInv
    <3>2. Range(chan') = Range(chan) /\ NoRepeat(chan')
      BY <1>a, <2>3, <3>1, Zenon
    <3> QED
      BY <2>1, <3>2, Zenon DEF PlacesInv, Elsewhere
  <2> QED
    BY <1>2, <2>2, <2>3, Zenon DEF connected, spawn
<1>3. ASSUME iterate
      PROVE  /\ Head(chan) \in Command /\ chan' \in Seq(Command)
             /\ Range(chan) = {Head(chan)} \cup Range(chan')
             /\ NoRepeat(chan') /\ Head(chan) \notin Range(chan')
             /\ sent' = sent /\ svc /= "panic"
  BY <1>s, <1>3, HeadTailFacts DEF iterate, PlacesInv
<1>4. CASE ping
  <2>1. iterate /\ wire' = Append(wire, Head(chan)) /\ UNCHANGED <<svc, buff, lost>>
    BY <1>4 DEF ping
  <2>2. Head(chan) \notin Range(wire)
    BY <1>3, <2>1, Zenon DEF PlacesInv
  <2>3. Range(wire') = Range(wire) \cup {Head(chan)} /\ NoRepeat(wire')
    BY <1>s, <1>a, <1>3, <2>1, <2>2, Zenon DEF PlacesInv
  <2> QED
    BY <1>3, <2>1, <2>3, Zenon DEF PlacesInv, Elsewhere
<1>5. ASSUME iterate, buff' = <<>>, lost' = lost, svc' /= "panic",
             Range(wire') = Range(wire) \cup Range(buff) \cup {Head(chan)},
             NoRepeat(wire')
      PROVE  PlacesInv'
  <2>1. Range(buff') = {} /\ NoRepeat(buff')
    BY <1>5 DEF Range, NoRepeat
  <2> QED
    BY <1>3, <1>5, <2>1, Zenon DEF PlacesInv, Elsewhere
<1>6. CASE pong
  <2>1. /\ iterate /\ wire' = Append(wire, Head(chan)) \o buff
        /\ buff' = <<>> /\ UNCHANGED <<svc, lost>>
    BY <1>6 DEF pong
  <2>2. Head(chan) \notin Range(wire) /\ Head(chan) \notin Range(buff)
    BY <1>3, <2>1, Zenon DEF PlacesInv
  <2>3. PICK u \in Seq(Command) : /\ u = Append(wire, Head(chan)) /\ NoRepeat(u)
                                  /\ Range(u) = Range(wire) \cup {Head(chan)}
    BY <1>s, <1>a, <1>3, <2>1, <2>2, Zenon DEF PlacesInv
  <2>4. Range(u) \cap Range(buff) = {}
    BY <2>2, <2>3, Zenon DEF PlacesInv
  <2>5. Range(u \o buff) = Range(u) \cup Range(buff) /\ NoRepeat(u \o buff)
    BY <1>s, <1>b, <2>3, <2>4, Zenon DEF PlacesInv
  <2> QED
    BY <1>3, <1>5, <2>1, <2>3, <2>5, Zenon
<1>7. CASE service
  <2>1. iterate /\ lost' = lost
    BY <1>7 DEF service
  <2>2. Head(chan) \notin Range(wire) /\ Head(chan) \notin Range(buff)
    BY <1>3, <2>1, Zenon DEF PlacesInv
  <2>3. CASE buff' = Append(buff, Head(chan)) /\ UNCHANGED <<svc, wire>>
    <3>1. Range(buff') = Range(buff) \cup {Head(chan)} /\ NoRepeat(buff')
      BY <1>s, <1>a, <1>3, <2>1, <2>2, <2>3, Zenon DEF PlacesInv
    <3> QED
      BY <1>3, <2>1, <2>3, <3>1, Zenon DEF PlacesInv, Elsewhere
  <2>4. CASE /\ wire' = Append(wire \o buff, Head(chan)) /\ buff' = <<>>
             /\ svc' \in {"end", svc}
    <3>1. PICK u \in Seq(Command) : /\ u = wire \o buff /\ NoRepeat(u)
                                    /\ Range(u) = Range(wire) \cup Range(buff)
      <4>1. Range(wire) \cap Range(buff) = {}
        BY Zenon DEF PlacesInv
      <4> QED
        BY <1>s, <1>b, <4>1, Zenon DEF PlacesInv
    <3>2. Head(chan) \notin Range(u)
      BY <2>2, <3>1, Zenon
    <3>3. /\ Range(Append(u, Head(chan))) = Range(u) \cup {Head(chan)}
          /\ NoRepeat(Append(u, Head(chan)))
      BY <1>a, <1>3, <2>1, <3>1, <3>2, Zenon
    <3>4. svc' /= "panic"
      BY <1>3, <2>1, <2>4
    <3> QED
      BY <1>5, <2>1, <2>4, <3>1, <3>3, <3>4, Zenon
  <2> QED
    BY <1>7, <2>3, <2>4, Zenon DEF service
<1>8. CASE write_error
  <2>1. iterate /\ svc' = "fail"
    BY <1>8 DEF write_error
  <2>2. PICK a, z \in Seq(Command), B \in SUBSET Command, w \in Seq(Command) :
          /\ \/ w = wire /\ lost' = lost \cup B \cup {Head(chan)}
             \/ w = Append(wire, Head(chan)) /\ lost' = lost \cup B
          /\ wire' = w \o a /\ buff' = z
          /\ Flushed(a, B, z)
    BY <1>8, WriteErrorCases, Zenon
  <2>3. Head(chan) \notin Range(wire) /\ Head(chan) \notin Range(buff)
    BY <1>3, <2>1, Zenon DEF PlacesInv
  <2>4. /\ Range(buff) = Range(a) \cup B \cup Range(z)
        /\ NoRepeat(a) /\ NoRepeat(z)
        /\ Range(a) \cap Range(z) = {} /\ Range(a) \cap B = {} /\ B \cap Range(z) = {}
    BY <2>2, Zenon DEF Flushed, PlacesInv
  <2>5. CASE w = wire /\ lost' = lost \cup B \cup {Head(chan)}
    <3>1. Range(wire) \cap Range(a) = {}
      BY <2>4, Zenon DEF PlacesInv
    <3>2. Range(wire \o a) = Range(wire) \cup Range(a) /\ NoRepeat(wire \o a)
      BY <1>s, <1>b, <2>2, <2>4, <3>1, Zenon DEF PlacesInv
    <3> QED
      BY <1>3, <2>1, <2>2, <2>3, <2>4, <2>5, <3>2 DEF PlacesInv, Elsewhere
  <2>6. CASE w = Append(wire, Head(chan)) /\ lost' = lost \cup B
    <3>1. PICK u \in Seq(Command) : /\ u = w /\ NoRepeat(u)
                                    /\ Range(u) = Range(wire) \cup {Head(chan)}
      BY <1>s, <1>a, <1>3, <2>1, <2>3, <2>6, Zenon DEF PlacesInv
    <3>2. Range(u) \cap Range(a) = {}
      BY <2>3, <2>4, <3>1, Zenon DEF PlacesInv
    <3>3. Range(u \o a) = Range(u) \cup Range(a) /\ NoRepeat(u \o a)
      BY <1>s, <1>b, <2>2, <2>4, <3>1, <3>2, Zenon
    <3> QED
      BY <1>3, <2>1, <2>2, <2>3, <2>4, <2>6, <3>1, <3>3 DEF PlacesInv, Elsewhere
  <2> QED
    BY <2>2, <2>5, <2>6
<1>9. CASE return
  BY <1>9, Zenon DEF return, PlacesInv, Elsewhere
<1>10. CASE UNCHANGED vars
  BY <1>10, Zenon DEF vars, PlacesInv, Elsewhere
<1> QED
  BY <1>1, <1>2, <1>4, <1>6, <1>7, <1>8, <1>9, <1>10, Zenon DEF Next, call

(* No command given to write_stream_send is lost or written twice, whoever *)
(* opened the stream and however often its service returns: it waits in    *)
(* the channel, in buff_msgs, or is on the wire, except for the message    *)
(* whose write failed, alone or in the middle of a flush of buff_msgs, the *)
(* command that waited behind it, and the one that found the failed        *)
(* service.                                                                *)
THEOREM CommandsInOnePlace == Spec => []EachCommandInOnePlace
<1>1. Init => PlacesInv
  <2>1. Range(<<>>) = {} /\ NoRepeat(<<>>)
    BY DEF Range, NoRepeat
  <2> QED
    BY <2>1, Zenon DEF Init, PlacesInv, Elsewhere
<1>2. TypeOK => DataOK
  BY TypeParts
<1> QED
  BY <1>1, <1>2, TypeCorrect, PlacesStep, PlacesImplies, PTL DEF Spec

-----------------------------------------------------------------------------
(* ServiceAfterPong of a sequence of frames. *)
Protected(r, w) ==
  \A i \in DOMAIN w :
    /\ w[i] \in Svc => \E j \in 1..(i-1) : w[j] = "Pong"
    /\ w[i] = "Pong" /\ r = "init" => \E j \in 1..(i-1) : w[j] = "Ping"

(* One more frame keeps a stream protected if what must precede it does.   *)
LEMMA ProtectedAppend ==
  ASSUME NEW r, NEW w \in Seq(Command), NEW x \in Command, Protected(r, w),
         x \in Svc => "Pong" \in Range(w),
         x = "Pong" /\ r = "init" => "Ping" \in Range(w)
  PROVE  Protected(r, Append(w, x))
<1> DEFINE v == Append(w, x)
<1>1. /\ Len(w) \in Nat /\ DOMAIN w = 1..Len(w) /\ DOMAIN v = 1..(Len(w) + 1)
      /\ \A i \in 1..Len(w) : v[i] = w[i]
      /\ v[Len(w) + 1] = x
  OBVIOUS
<1> HIDE DEF v
<1>2. ASSUME NEW y, y \in Range(w) PROVE \E j \in 1..Len(w) : v[j] = y
  BY <1>1, <1>2 DEF Range
<1>3. ASSUME NEW i \in 1..Len(w)
      PROVE  /\ v[i] \in Svc => \E j \in 1..(i-1) : v[j] = "Pong"
             /\ v[i] = "Pong" /\ r = "init" => \E j \in 1..(i-1) : v[j] = "Ping"
  <2>1. \A j \in 1..(i-1) : v[j] = w[j]
    BY <1>1
  <2> QED
    BY <1>1, <2>1 DEF Protected
<1>4. /\ x \in Svc => \E j \in 1..((Len(w) + 1) - 1) : v[j] = "Pong"
      /\ x = "Pong" /\ r = "init" => \E j \in 1..((Len(w) + 1) - 1) : v[j] = "Ping"
  <2>1. (Len(w) + 1) - 1 = Len(w)
    BY <1>1
  <2> QED
    BY <1>2, <2>1
<1>5. \A i \in DOMAIN v : i \in 1..Len(w) \/ i = Len(w) + 1
  BY <1>1
<1>6. Protected(r, v)
  BY <1>1, <1>3, <1>4, <1>5, Zenon DEF Protected
<1> QED
  BY <1>6 DEF v

(* Any number of service messages may follow a pong. *)
LEMMA ProtectedConcat ==
  ASSUME NEW r, NEW w \in Seq(Command), NEW b \in Seq(Command), Protected(r, w),
         Range(b) \subseteq Svc, "Pong" \in Range(w)
  PROVE  Protected(r, w \o b)
<1> DEFINE v == w \o b
<1>1. /\ Len(w) \in Nat /\ DOMAIN w = 1..Len(w) /\ DOMAIN v = 1..(Len(w) + Len(b))
      /\ \A i \in 1..Len(w) : v[i] = w[i]
      /\ \A i \in (Len(w) + 1)..(Len(w) + Len(b)) : v[i] = b[i - Len(w)]
      /\ Len(b) \in Nat /\ DOMAIN b = 1..Len(b)
  OBVIOUS
<1> HIDE DEF v
<1>2. PICK k \in 1..Len(w) : v[k] = "Pong"
  BY <1>1 DEF Range
<1>3. ASSUME NEW i \in 1..Len(w)
      PROVE  /\ v[i] \in Svc => \E j \in 1..(i-1) : v[j] = "Pong"
             /\ v[i] = "Pong" /\ r = "init" => \E j \in 1..(i-1) : v[j] = "Ping"
  <2>1. \A j \in 1..(i-1) : v[j] = w[j]
    BY <1>1
  <2> QED
    BY <1>1, <2>1 DEF Protected
<1>4. ASSUME NEW i \in (Len(w) + 1)..(Len(w) + Len(b))
      PROVE  /\ v[i] \in Svc => \E j \in 1..(i-1) : v[j] = "Pong"
             /\ v[i] = "Pong" /\ r = "init" => \E j \in 1..(i-1) : v[j] = "Ping"
  <2>1. i - Len(w) \in DOMAIN b
    BY <1>1
  <2>2. v[i] \in Svc
    BY <1>1, <2>1 DEF Range
  <2>3. v[i] /= "Pong"
    BY <2>2, WriteStreamAssumption
  <2>4. k \in 1..(i-1)
    BY <1>1, <1>2
  <2> QED
    BY <1>2, <2>3, <2>4
<1>5. \A i \in DOMAIN v : i \in 1..Len(w) \/ i \in (Len(w) + 1)..(Len(w) + Len(b))
  BY <1>1
<1>6. Protected(r, v)
  BY <1>3, <1>4, <1>5, Zenon DEF Protected
<1> QED
  BY <1>6 DEF v

(* What makes ServiceAfterPong inductive: only service messages are        *)
(* buffered, a service that knows its peer has written its pong unless it  *)
(* failed, and an initiator is given its pong after its ping was written.  *)
AuthInv ==
  /\ role /= "noauth" => Protected(role, wire)
  /\ Range(buff) \subseteq Svc
  /\ with /\ svc \notin {"fail", "panic"} => "Pong" \in Range(wire)
  /\ role = "init" /\ "Pong" \in Range(chan) => "Ping" \in Range(wire)

(* Every step of the main loop and of the write service keeps AuthInv.     *)
LEMMA AuthStep ==
  ASSUME DataOK, AuthInv, [Next]_vars PROVE AuthInv'
<1>r. role' = role
  BY ConfStep
<1>s. chan \in Seq(Command) /\ buff \in Seq(Command) /\ wire \in Seq(Command)
  BY DEF DataOK
<1>a. ASSUME NEW q \in Seq(Command), NEW x \in Command
      PROVE  Append(q, x) \in Seq(Command) /\ Range(Append(q, x)) = Range(q) \cup {x}
  <2>1. PICK S : S = Command
    OBVIOUS
  <2>2. q \in Seq(S) /\ x \in S
    BY <2>1
  <2>3. Append(q, x) \in Seq(S) /\ Range(Append(q, x)) = Range(q) \cup {x}
    BY ONLY <2>2, AppendFacts
  <2> QED
    BY <2>1, <2>3, Zenon
<1>b. ASSUME NEW q \in Seq(Command), NEW r \in Seq(Command)
      PROVE  q \o r \in Seq(Command) /\ Range(q \o r) = Range(q) \cup Range(r)
  BY ToSetConcat
<1>c. Range(<<>>) = {}
  BY DEF Range
<1>1. ASSUME NEW c \in Command, write_stream_send(c) PROVE AuthInv'
  <2>1. UNCHANGED <<with, buff, wire>> /\ (svc \in {"fail", "panic"} => svc' \in {"fail", "panic"})
    BY <1>1 DEF write_stream_send
  <2>2. role = "init" /\ c = "Pong" => "Ping" \in Range(wire)
    BY <1>1, WriteStreamAssumption, Zenon DEF write_stream_send, Addressable
  <2>3. Range(Append(chan, c)) = Range(chan) \cup {c}
    BY <1>s, <1>a, Zenon
  <2>4. Range(<<c>> \o chan) = {c} \cup Range(chan)
    BY <1>s, ConsFacts
  <2>5. Range(chan') \subseteq Range(chan) \cup {c}
    BY <1>1, <2>3, <2>4, Zenon DEF write_stream_send, spawn
  <2> QED
    BY <1>r, <2>1, <2>2, <2>5, Zenon DEF AuthInv
<1>2. CASE connected
  <2>1. UNCHANGED <<with, buff, wire>> /\ svc \notin {"fail", "panic"}
    BY <1>2 DEF connected
  <2>2. CASE chan' = chan
    BY <1>r, <2>1, <2>2, Zenon DEF AuthInv
  <2>3. CASE chan /= <<>> /\ chan' = Append(Tail(chan), Head(chan))
    <3>1. /\ Head(chan) \in Command /\ Tail(chan) \in Seq(Command)
          /\ Range(chan) = {Head(chan)} \cup Range(Tail(chan))
      BY <1>s, <2>3, HeadTailFacts
    <3>2. Range(chan') = Range(chan)
      BY <1>a, <2>3, <3>1, Zenon
    <3> QED
      BY <1>r, <2>1, <3>2, Zenon DEF AuthInv
  <2> QED
    BY <1>2, <2>2, <2>3, Zenon DEF connected, spawn
<1>3. ASSUME iterate
      PROVE  /\ Head(chan) \in Command /\ Range(chan) = {Head(chan)} \cup Range(chan')
             /\ svc \notin {"fail", "panic"}
  BY <1>s, <1>3, HeadTailFacts DEF iterate
<1>4. CASE ping
  <2>1. /\ iterate /\ Head(chan) = "Ping" /\ wire' = Append(wire, Head(chan))
        /\ UNCHANGED <<with, buff>>
    BY <1>4 DEF ping
  <2>2. Range(wire') = Range(wire) \cup {Head(chan)}
    BY <1>s, <1>a, <1>3, <2>1, Zenon
  <2>3. role /= "noauth" => Protected(role, wire')
    BY <1>s, <1>3, <2>1, ProtectedAppend, WriteStreamAssumption DEF AuthInv
  <2> QED
    BY <1>r, <1>3, <2>1, <2>2, <2>3, Zenon DEF AuthInv
<1>5. CASE pong
  <2>1. /\ iterate /\ Head(chan) = "Pong" /\ wire' = Append(wire, Head(chan)) \o buff
        /\ buff' = <<>>
    BY <1>5 DEF pong
  <2>2. PICK u \in Seq(Command) : /\ u = Append(wire, Head(chan))
                                  /\ Range(u) = Range(wire) \cup {Head(chan)}
    BY <1>s, <1>a, <1>3, <2>1, Zenon
  <2>3. role = "init" => "Ping" \in Range(wire)
    BY <1>r, <1>3, <2>1, Zenon DEF AuthInv
  <2>4. Head(chan) \notin Svc
    BY <2>1, WriteStreamAssumption
  <2>5. role /= "noauth" => Protected(role, u)
    BY <1>s, <1>3, <2>1, <2>2, <2>3, <2>4, ProtectedAppend DEF AuthInv
  <2>6. "Pong" \in Range(u)
    BY <2>1, <2>2, Zenon
  <2>7. role /= "noauth" => Protected(role, u \o buff)
    BY <1>s, <2>5, <2>6, ProtectedConcat DEF AuthInv
  <2>8. wire' = u \o buff /\ Range(wire') = Range(u) \cup Range(buff)
    BY <1>s, <1>b, <2>1, <2>2, Zenon
  <2> QED
    BY <1>r, <1>c, <1>3, <2>1, <2>2, <2>6, <2>7, <2>8, Zenon DEF AuthInv
<1>6. CASE service
  <2>1. iterate /\ Head(chan) \in Svc /\ with' = with
    BY <1>6 DEF service
  <2>2. CASE buff' = Append(buff, Head(chan)) /\ wire' = wire
    <3>1. Range(buff') = Range(buff) \cup {Head(chan)}
      BY <1>s, <1>a, <1>3, <2>1, <2>2, Zenon
    <3> QED
      BY <1>r, <1>3, <2>1, <2>2, <3>1, Zenon DEF AuthInv
  <2>3. CASE authenticated /\ wire' = Append(wire \o buff, Head(chan)) /\ buff' = <<>>
    <3>1. PICK u \in Seq(Command) : u = wire \o buff /\ Range(u) = Range(wire) \cup Range(buff)
      BY <1>s, <1>b, Zenon
    <3>2. Range(wire') = Range(u) \cup {Head(chan)}
      BY <1>a, <1>3, <2>1, <2>3, <3>1, Zenon
    <3>3. ASSUME role /= "noauth" PROVE Protected(role, wire')
      <4>1. "Pong" \in Range(wire)
        BY <1>3, <2>1, <2>3, <3>3, Zenon DEF authenticated, AuthInv
      <4>2. Protected(role, u)
        BY <1>s, <3>1, <3>3, <4>1, ProtectedConcat DEF AuthInv
      <4>3. "Pong" \in Range(u) /\ Head(chan) /= "Pong"
        BY <2>1, <3>1, <4>1, WriteStreamAssumption
      <4>4. Protected(role, Append(u, Head(chan)))
        BY <1>3, <2>1, <4>2, <4>3, ProtectedAppend
      <4> QED
        BY <2>3, <3>1, <4>4, Zenon
    <3> QED
      BY <1>r, <1>c, <1>3, <2>1, <2>3, <3>1, <3>2, <3>3, Zenon DEF AuthInv
  <2> QED
    BY <1>6, <2>2, <2>3, Zenon DEF service
<1>7. CASE write_error
  <2>1. iterate /\ svc' = "fail"
    BY <1>7 DEF write_error
  <2>2. PICK a, z \in Seq(Command), B \in SUBSET Command, w \in Seq(Command) :
          /\ w = wire \/ (w = Append(wire, Head(chan)) /\ Head(chan) = "Pong")
          /\ Range(a) = {} \/ w /= wire \/ authenticated
          /\ wire' = w \o a /\ buff' = z
          /\ Flushed(a, B, z)
    BY <1>7, WriteErrorCases, Zenon
  <2>3. Range(a) \subseteq Svc /\ Range(z) \subseteq Svc
    BY <2>2, Zenon DEF Flushed, AuthInv
  <2>4. /\ w \in Seq(Command) /\ Range(wire) \subseteq Range(w)
        /\ role /= "noauth" => Protected(role, w)
        /\ role /= "noauth" => Range(a) = {} \/ "Pong" \in Range(w)
    <3>1. CASE w = wire
      BY <1>s, <1>3, <2>1, <2>2, <3>1, Zenon DEF AuthInv, authenticated
    <3>2. CASE w = Append(wire, Head(chan)) /\ Head(chan) = "Pong"
      <4>1. w \in Seq(Command) /\ Range(w) = Range(wire) \cup {Head(chan)}
        BY <1>s, <1>a, <1>3, <2>1, <3>2, Zenon
      <4>2. role = "init" => "Ping" \in Range(wire)
        BY <1>3, <2>1, <3>2, Zenon DEF AuthInv
      <4>3. Head(chan) \notin Svc
        BY <3>2, WriteStreamAssumption
      <4>4. role /= "noauth" => Protected(role, w)
        BY <1>s, <1>3, <2>1, <3>2, <4>2, <4>3, ProtectedAppend DEF AuthInv
      <4> QED
        BY <3>2, <4>1, <4>4, Zenon
    <3> QED
      BY <2>2, <3>1, <3>2
  <2>5. role /= "noauth" => Protected(role, w \o a)
    <3>1. CASE Range(a) = {}
      <4>1. a = <<>>
        BY <2>2, <3>1 DEF Range
      <4>2. w \o a = w
        BY <2>4, <4>1
      <4> QED
        BY <2>4, <4>2, Zenon
    <3>2. CASE Range(a) /= {}
      BY <2>2, <2>3, <2>4, <3>2, ProtectedConcat
    <3> QED
      BY <3>1, <3>2
  <2>6. Range(w \o a) = Range(w) \cup Range(a)
    BY <1>b, <2>2, <2>4, Zenon
  <2> QED
    BY <1>r, <1>3, <2>1, <2>2, <2>3, <2>4, <2>5, <2>6, Zenon DEF AuthInv
<1>8. CASE return
  BY <1>r, <1>8, Zenon DEF return, AuthInv
<1>9. CASE UNCHANGED vars
  BY <1>r, <1>9, Zenon DEF vars, AuthInv
<1> QED
  BY <1>1, <1>2, <1>4, <1>5, <1>6, <1>7, <1>8, <1>9, Zenon DEF Next, call

(* On an authenticated stream no service message precedes the pong, nor    *)
(* the pong of an initiator its ping, although the first writable event    *)
(* moves the ping or the pong behind the messages queued with it: the      *)
(* write service buffers messages until it has written its pong.           *)
THEOREM NoServiceBeforePong == Spec => []ServiceAfterPong
<1>1. Init => AuthInv
  <2>1. Range(<<>>) = {} /\ Protected(role, <<>>)
    BY DEF Range, Protected
  <2> QED
    BY <2>1, Zenon DEF Init, AuthInv
<1>2. TypeOK => DataOK
  BY TypeParts
<1>3. AuthInv => ServiceAfterPong
  BY DEF AuthInv, ServiceAfterPong, Protected
<1> QED
  BY <1>1, <1>2, <1>3, TypeCorrect, AuthStep, PTL DEF Spec

-----------------------------------------------------------------------------
(* Order in a concatenation. *)
LEMMA BeforeConcat ==
  ASSUME NEW S, NEW a \in Seq(S), NEW b \in Seq(S), NEW c, NEW d
  PROVE  Before(a \o b, c, d) <=>
           Before(a, c, d) \/ Before(b, c, d) \/ (c \in Range(a) /\ d \in Range(b))
<1>1. PICK v : v = a \o b
  BY Zenon
<1>2. /\ DOMAIN v = 1..(Len(a) + Len(b))
      /\ \A i \in 1..Len(a) : v[i] = a[i]
      /\ \A i \in 1..Len(b) : v[Len(a) + i] = b[i]
      /\ DOMAIN a = 1..Len(a) /\ DOMAIN b = 1..Len(b)
      /\ Len(a) \in Nat /\ Len(b) \in Nat
  BY <1>1
<1>3. ASSUME Before(a, c, d) PROVE Before(v, c, d)
  <2>1. PICK i, j \in 1..Len(a) : a[i] = c /\ a[j] = d /\ i < j
    BY <1>2, <1>3 DEF Before
  <2> QED
    BY <1>2, <2>1 DEF Before
<1>4. ASSUME Before(b, c, d) PROVE Before(v, c, d)
  <2>1. PICK i, j \in 1..Len(b) : b[i] = c /\ b[j] = d /\ i < j
    BY <1>2, <1>4 DEF Before
  <2>2. /\ Len(a) + i \in DOMAIN v /\ Len(a) + j \in DOMAIN v /\ Len(a) + i < Len(a) + j
        /\ v[Len(a) + i] = c /\ v[Len(a) + j] = d
    BY <1>2, <2>1
  <2> QED
    BY <2>2 DEF Before
<1>5. ASSUME c \in Range(a), d \in Range(b) PROVE Before(v, c, d)
  <2>1. PICK i \in 1..Len(a) : a[i] = c
    BY <1>2, <1>5 DEF Range
  <2>2. PICK j \in 1..Len(b) : b[j] = d
    BY <1>2, <1>5 DEF Range
  <2>3. /\ i \in DOMAIN v /\ Len(a) + j \in DOMAIN v /\ i < Len(a) + j
        /\ v[i] = c /\ v[Len(a) + j] = d
    BY <1>2, <2>1, <2>2
  <2> QED
    BY <2>3 DEF Before
<1>6. ASSUME Before(v, c, d)
      PROVE  Before(a, c, d) \/ Before(b, c, d) \/ (c \in Range(a) /\ d \in Range(b))
  <2>1. PICK i, j \in DOMAIN v : v[i] = c /\ v[j] = d /\ i < j
    BY <1>6 DEF Before
  <2>2. CASE j <= Len(a)
    <3>1. i \in 1..Len(a) /\ j \in 1..Len(a)
      BY <1>2, <2>1, <2>2
    <3> QED
      BY <1>2, <2>1, <3>1 DEF Before
  <2>3. CASE i > Len(a)
    <3>1. i - Len(a) \in 1..Len(b) /\ j - Len(a) \in 1..Len(b) /\ i - Len(a) < j - Len(a)
          /\ b[i - Len(a)] = c /\ b[j - Len(a)] = d
      BY <1>2, <2>1, <2>3
    <3> QED
      BY <1>2, <3>1 DEF Before
  <2>4. CASE i <= Len(a) /\ j > Len(a)
    <3>1. i \in 1..Len(a) /\ a[i] = c /\ j - Len(a) \in 1..Len(b) /\ b[j - Len(a)] = d
      BY <1>2, <2>1, <2>4
    <3> QED
      BY <1>2, <3>1 DEF Range
  <2> QED
    BY <1>2, <2>1, <2>2, <2>3, <2>4
<1> QED
  BY <1>1, <1>3, <1>4, <1>5, <1>6

(* Order in a queue with one more element at its end. *)
LEMMA BeforeAppend ==
  ASSUME NEW S, NEW a \in Seq(S), NEW x \in S, NEW c, NEW d
  PROVE  Before(Append(a, x), c, d) <=> Before(a, c, d) \/ (c \in Range(a) /\ d = x)
<1>1. PICK u \in Seq(S) : u = <<x>> /\ Range(u) = {x}
  BY Singleton, Zenon
<1>2. ~Before(u, c, d)
  BY <1>1 DEF Before
<1>3. Append(a, x) = a \o u
  BY <1>1
<1>4. Before(a \o u, c, d) <=>
        Before(a, c, d) \/ Before(u, c, d) \/ (c \in Range(a) /\ d \in Range(u))
  BY BeforeConcat
<1> QED
  BY <1>1, <1>2, <1>3, <1>4, Zenon

(* Order in a queue and in what is left when its oldest element is taken.  *)
LEMMA BeforeTail ==
  ASSUME NEW S, NEW a \in Seq(S), a /= <<>>, NEW c, NEW d
  PROVE  Before(a, c, d) <=> Before(Tail(a), c, d) \/ (c = Head(a) /\ d \in Range(Tail(a)))
<1>1. Head(a) \in S /\ Tail(a) \in Seq(S) /\ a = <<Head(a)>> \o Tail(a)
  OBVIOUS
<1>2. PICK h \in S, t \in Seq(S) : h = Head(a) /\ t = Tail(a)
  BY <1>1, Zenon
<1>3. PICK u \in Seq(S) : u = <<h>> /\ Range(u) = {h}
  BY Singleton, Zenon
<1>4. ~Before(u, c, d)
  BY <1>3 DEF Before
<1>5. a = u \o t
  BY <1>1, <1>2, <1>3
<1>6. Before(a, c, d) <=> Before(t, c, d) \/ (c = h /\ d \in Range(t))
  BY <1>3, <1>4, <1>5, BeforeConcat, Zenon
<1> QED
  BY <1>2, <1>6

(* In a sequence without repetitions two elements have one order. *)
LEMMA BeforeOneWay ==
  ASSUME NEW S, NEW s \in Seq(S), NoRepeat(s), NEW c, NEW d, Before(s, c, d)
  PROVE  ~Before(s, d, c)
<1>1. PICK i, j \in DOMAIN s : s[i] = c /\ s[j] = d /\ i < j
  BY DEF Before
<1>2. ASSUME NEW k \in DOMAIN s, NEW l \in DOMAIN s, s[k] = d, s[l] = c, k < l PROVE FALSE
  <2>1. k = j /\ l = i
    BY <1>1, <1>2 DEF NoRepeat
  <2>2. i \in Int /\ j \in Int
    OBVIOUS
  <2> QED
    BY <1>1, <1>2, <2>1, <2>2
<1> QED
  BY <1>2 DEF Before

-----------------------------------------------------------------------------
(* c is ahead of d on the way to the peer: written, buffered or waiting    *)
(* before it.                                                              *)
Ahead(c, d) ==
  \/ Before(wire, c, d) \/ Before(buff, c, d) \/ Before(chan, c, d)
  \/ c \in Range(wire) /\ (d \in Range(buff) \/ d \in Range(chan))
  \/ c \in Range(buff) /\ d \in Range(chan)

(* The service commands accepted once the service was spawned. *)
Late == {sent[i] : i \in (spawnAt + 1)..Len(sent)} \cap Svc

(* Once the service is spawned, what is ahead was accepted before.  A      *)
(* stream that is written once has one service command, and only a service *)
(* spawned for it, or one that returns, ends.                              *)
OrderInv ==
  /\ NoRepeat(sent)
  /\ once => \A c, d \in Range(sent) \cap Svc : c = d
  /\ shut => once
  /\ nb_iter = 0 /\ ~once /\ svc /= "none" =>
       /\ svc /= "end"
       /\ \A c, d \in Late : Ahead(c, d) => Before(sent, c, d)

(* A step that accepts nothing and keeps the order keeps OrderInv. *)
LEMMA OrderKept ==
  ASSUME OrderInv, UNCHANGED <<sent, spawnAt, nb_iter, once, shut>>, svc /= "none",
         svc' = "end" => svc = "end" \/ once \/ nb_iter > 0,
         \A c, d \in Svc : Ahead(c, d)' => Ahead(c, d)
  PROVE  OrderInv'
<1>1. Late' = Late /\ Late \subseteq Svc
  BY DEF Late
<1>2. ASSUME nb_iter = 0, ~once PROVE svc' /= "end" /\ \A c, d \in Late : Ahead(c, d)' => Before(sent, c, d)
  <2>1. svc /= "end" /\ \A c, d \in Late : Ahead(c, d) => Before(sent, c, d)
    BY <1>2 DEF OrderInv
  <2>2. svc' /= "end"
    BY <1>2, <2>1
  <2> QED
    BY <1>1, <2>1, <2>2
<1>3. \A c, d : Before(sent, c, d)' <=> Before(sent, c, d)
  BY DEF Before
<1> QED
  BY <1>1, <1>2, <1>3, Zenon DEF OrderInv

(* A step that spawns the service: no command is late yet. *)
LEMMA NoneLate ==
  ASSUME spawnAt' = Len(sent'), Len(sent') \in Nat PROVE Late' = {}
BY DEF Late

(* Every step of the main loop and of the write service keeps OrderInv.    *)
LEMMA OrderStep ==
  ASSUME DataOK, PlacesInv, OrderInv, [Next]_vars PROVE OrderInv'
<1>k. nb_iter' = nb_iter /\ once' = once
  BY ConfStep
<1>s. /\ chan \in Seq(Command) /\ buff \in Seq(Command) /\ wire \in Seq(Command)
      /\ sent \in Seq(Command) /\ spawnAt \in Nat
  BY DEF DataOK
<1>1. ASSUME NEW c \in Command, write_stream_send(c) PROVE OrderInv'
  <2>1. sent' = Append(sent, c) /\ c \notin Range(sent) /\ UNCHANGED <<buff, wire>>
    BY <1>1 DEF write_stream_send, Addressable
  <2>2. /\ sent' \in Seq(Command) /\ NoRepeat(sent') /\ Range(sent') = Range(sent) \cup {c}
        /\ Len(sent') = Len(sent) + 1 /\ Len(sent) \in Nat
    BY <1>s, <2>1, AppendFacts DEF OrderInv
  <2>3. ASSUME once PROVE \A x, y \in Range(sent') \cap Svc : x = y
    <3>1. c \in Svc => Range(sent) \cap Svc = {}
      BY <1>1, <2>3, WriteStreamAssumption, Zenon DEF write_stream_send, Addressable
    <3> QED
      BY <2>2, <2>3, <3>1, Zenon DEF OrderInv
  <2>s. shut' => once
    BY <1>1, Zenon DEF write_stream_send, OrderInv
  <2>4. CASE svc = "none"
    <3>1. svc' = "none" \/ (svc' = "run" /\ spawnAt' = Len(sent'))
      BY <1>1, <2>4 DEF write_stream_send, spawn
    <3>2. svc' /= "none" => svc' /= "end" /\ Late' = {}
      BY <2>2, <3>1, NoneLate
    <3> QED
      BY <1>k, <2>2, <2>3, <2>s, <3>2, Zenon DEF OrderInv
  <2>5. CASE svc /= "none" /\ nb_iter = 0 /\ ~once
    <3>1. svc /= "end" /\ \A x, y \in Late : Ahead(x, y) => Before(sent, x, y)
      BY <2>5 DEF OrderInv
    <3>2. spawnAt' = spawnAt /\ svc' /= "end" /\ (chan' = chan \/ chan' = Append(chan, c))
      BY <1>1, <2>5, <3>1 DEF write_stream_send, spawn
    <3>3. Late' \subseteq Late \cup {c} /\ Late \subseteq Range(sent)
      <4>1. \A i \in 1..Len(sent) : sent'[i] = sent[i] /\ sent[i] \in Range(sent)
        BY <1>s, <2>1 DEF Range
      <4>2. sent'[Len(sent) + 1] = c
        BY <1>s, <2>1
      <4>3. Late \subseteq Range(sent)
        BY <1>s, <4>1 DEF Late
      <4>4. ASSUME NEW x \in Late' PROVE x \in Late \cup {c}
        <5>1. PICK i \in (spawnAt + 1)..(Len(sent) + 1) : x = sent'[i] /\ x \in Svc
          BY <2>2, <3>2, <4>4 DEF Late
        <5>2. CASE i = Len(sent) + 1
          BY <4>2, <5>1, <5>2
        <5>3. CASE i \in (spawnAt + 1)..Len(sent)
          BY <1>s, <4>1, <5>1, <5>3 DEF Late
        <5> QED
          BY <1>s, <2>2, <5>1, <5>2, <5>3
      <4> QED
        BY <4>3, <4>4
    <3>4. c \notin Range(chan) /\ c \notin Range(buff) /\ c \notin Range(wire)
      BY <2>1, Zenon DEF PlacesInv, Elsewhere
    <3>5. \A x, y : Before(chan', x, y) => Before(chan, x, y) \/ (x \in Range(chan) /\ y = c)
      <4>1. \A x, y : Before(Append(chan, c), x, y) <=>
                         Before(chan, x, y) \/ (x \in Range(chan) /\ y = c)
        BY <1>s, BeforeAppend
      <4>2. CASE chan' = chan
        BY <4>2
      <4>3. CASE chan' = Append(chan, c)
        BY <4>1, <4>3
      <4> QED
        BY <3>2, <4>2, <4>3
    <3>6. Range(chan') \subseteq Range(chan) \cup {c}
      <4>1. Range(Append(chan, c)) = Range(chan) \cup {c}
        BY <1>s, AppendFacts
      <4> QED
        BY <3>2, <4>1, Zenon
    <3>7. \A x, y : Before(sent', x, y) <=> Before(sent, x, y) \/ (x \in Range(sent) /\ y = c)
      BY <1>s, <2>1, BeforeAppend
    <3>8. ASSUME NEW x \in Late', NEW y \in Late', Ahead(x, y)' PROVE Before(sent', x, y)
      <4>1. x /= c
        <5>1. ~(c \in Range(wire)) /\ ~(c \in Range(buff)) /\ ~Before(wire, c, y) /\ ~Before(buff, c, y)
              /\ ~Before(chan, c, y)
          BY <1>s, <3>4 DEF Before, Range
        <5> QED
          BY <2>1, <3>4, <3>5, <3>8, <5>1 DEF Ahead
      <4>2. CASE y = c
        BY <3>3, <3>7, <4>1, <4>2
      <4>3. CASE y /= c
        <5>1. Ahead(x, y)
          BY <2>1, <3>5, <3>6, <3>8, <4>3 DEF Ahead
        <5> QED
          BY <3>1, <3>3, <3>7, <4>1, <4>3, <5>1
      <4> QED
        BY <4>2, <4>3
    <3> QED
      BY <1>k, <2>2, <2>3, <2>s, <2>5, <3>2, <3>8, Zenon DEF OrderInv
  <2> QED
    BY <1>k, <2>2, <2>3, <2>s, <2>4, <2>5, Zenon DEF OrderInv
<1>2. CASE connected
  <2>1. sent' = sent /\ svc = "none" /\ shut' = shut
    BY <1>2 DEF connected
  <2>2. svc' = "none" \/ (svc' = "run" /\ spawnAt' = Len(sent'))
    BY <1>2, <2>1 DEF connected, spawn
  <2>3. svc' /= "none" => svc' /= "end" /\ Late' = {}
    BY <1>s, <2>1, <2>2, NoneLate
  <2> QED
    BY <1>k, <2>1, <2>3, Zenon DEF OrderInv
<1>3. ASSUME iterate
      PROVE  /\ Head(chan) \in Command /\ chan' \in Seq(Command) /\ svc /= "none"
             /\ Range(chan) = {Head(chan)} \cup Range(chan')
             /\ \A x, y : Before(chan, x, y) <=>
                            Before(chan', x, y) \/ (x = Head(chan) /\ y \in Range(chan'))
             /\ UNCHANGED <<sent, spawnAt, nb_iter, once, shut>>
  <2>1. chan /= <<>> /\ chan' = Tail(chan) /\ svc = "run" /\ UNCHANGED <<sent, spawnAt, shut>>
    BY <1>3 DEF iterate
  <2>2. /\ Head(chan) \in Command /\ Tail(chan) \in Seq(Command)
        /\ Range(chan) = {Head(chan)} \cup Range(Tail(chan))
    BY <1>s, <2>1, HeadTailFacts
  <2>3. \A x, y : Before(chan, x, y) <=>
                    Before(Tail(chan), x, y) \/ (x = Head(chan) /\ y \in Range(Tail(chan)))
    BY <1>s, <2>1, BeforeTail
  <2> QED
    BY <1>k, <2>1, <2>2, <2>3
<1>c. Range(<<>>) = {} /\ \A x, y : ~Before(<<>>, x, y)
  BY DEF Range, Before
<1>4. CASE ping
  <2>1. /\ iterate /\ Head(chan) = "Ping" /\ wire' = Append(wire, Head(chan))
        /\ UNCHANGED <<svc, buff>>
    BY <1>4 DEF ping
  <2>2. /\ Range(wire') = Range(wire) \cup {Head(chan)}
        /\ \A x, y : Before(wire', x, y) <=> Before(wire, x, y) \/ (x \in Range(wire) /\ y = Head(chan))
    BY <1>s, <1>3, <2>1, AppendFacts, BeforeAppend
  <2>3. Head(chan) \notin Svc
    BY <2>1, WriteStreamAssumption
  <2>4. \A x, y \in Svc : Ahead(x, y)' => Ahead(x, y)
    BY <1>3, <2>1, <2>2, <2>3, Zenon DEF Ahead
  <2> QED
    BY <1>3, <2>1, <2>4, OrderKept
<1>5. CASE pong
  <2>1. /\ iterate /\ Head(chan) = "Pong" /\ wire' = Append(wire, Head(chan)) \o buff
        /\ buff' = <<>> /\ svc' = svc
    BY <1>5 DEF pong
  <2>a. PICK u : u = Append(wire, Head(chan))
    BY Zenon
  <2>b. u \in Seq(Command) /\ Range(u) = Range(wire) \cup {Head(chan)}
    BY <1>s, <1>3, <2>1, <2>a, AppendFacts
  <2>2. \A x, y : Before(u, x, y) <=> Before(wire, x, y) \/ (x \in Range(wire) /\ y = Head(chan))
    BY <1>s, <1>3, <2>1, <2>a, BeforeAppend
  <2>3. /\ Range(u \o buff) = Range(u) \cup Range(buff)
        /\ \A x, y : Before(u \o buff, x, y) <=>
                       Before(u, x, y) \/ Before(buff, x, y) \/ (x \in Range(u) /\ y \in Range(buff))
    BY <1>s, <2>b, ToSetConcat, BeforeConcat
  <2>4. Head(chan) \notin Svc
    BY <2>1, WriteStreamAssumption
  <2>5. wire' = u \o buff /\ Range(buff') = {} /\ \A x, y : ~Before(buff', x, y)
    BY <1>c, <2>1, <2>a
  <2>6. \A x, y \in Svc : Ahead(x, y)' => Ahead(x, y)
    BY <1>3, <2>1, <2>b, <2>2, <2>3, <2>4, <2>5, Zenon DEF Ahead
  <2> QED
    BY <1>3, <2>1, <2>6, OrderKept
<1>6. CASE service
  <2>1. iterate /\ Head(chan) \in Svc
    BY <1>6 DEF service
  <2>2. CASE buff' = Append(buff, Head(chan)) /\ UNCHANGED <<svc, wire>>
    <3>1. /\ Range(buff') = Range(buff) \cup {Head(chan)}
          /\ \A x, y : Before(buff', x, y) <=> Before(buff, x, y) \/ (x \in Range(buff) /\ y = Head(chan))
      BY <1>s, <1>3, <2>1, <2>2, AppendFacts, BeforeAppend
    <3>2. \A x, y \in Svc : Ahead(x, y)' => Ahead(x, y)
      BY <1>3, <2>1, <2>2, <3>1 DEF Ahead
    <3> QED
      BY <1>3, <2>1, <2>2, <3>2, OrderKept
  <2>3. CASE /\ wire' = Append(wire \o buff, Head(chan)) /\ buff' = <<>>
             /\ svc' = IF shut THEN "end" ELSE svc
    <3>a. PICK u : u = wire \o buff
      BY Zenon
    <3>b. u \in Seq(Command) /\ Range(u) = Range(wire) \cup Range(buff)
      BY <1>s, <3>a, ToSetConcat
    <3>1. \A x, y : Before(u, x, y) <=> Before(wire, x, y) \/ Before(buff, x, y)
                                          \/ (x \in Range(wire) /\ y \in Range(buff))
      BY <1>s, <3>a, BeforeConcat
    <3>2. /\ Range(Append(u, Head(chan))) = Range(u) \cup {Head(chan)}
          /\ \A x, y : Before(Append(u, Head(chan)), x, y) <=>
                         Before(u, x, y) \/ (x \in Range(u) /\ y = Head(chan))
      BY <1>3, <2>1, <3>b, AppendFacts, BeforeAppend
    <3>3. wire' = Append(u, Head(chan)) /\ Range(buff') = {} /\ \A x, y : ~Before(buff', x, y)
      BY <1>c, <2>3, <3>a
    <3>4. \A x, y \in Svc : Ahead(x, y)' => Ahead(x, y)
      BY <1>3, <2>1, <3>b, <3>1, <3>2, <3>3 DEF Ahead
    <3>5. svc' = "end" => svc = "end" \/ once
      BY <2>3 DEF OrderInv
    <3> QED
      BY <1>3, <2>1, <3>4, <3>5, OrderKept
  <2> QED
    BY <1>6, <2>2, <2>3, Zenon DEF service
<1>7. CASE write_error
  <2>1. iterate /\ svc' = "fail"
    BY <1>7 DEF write_error
  <2>2. PICK a, z \in Seq(Command), B \in SUBSET Command, w \in Seq(Command) :
          /\ w = wire \/ (w = Append(wire, Head(chan)) /\ Head(chan) = "Pong")
          /\ wire' = w \o a /\ buff' = z
          /\ Flushed(a, B, z)
    BY <1>7, WriteErrorCases, Zenon
  <2>3. /\ w \in Seq(Command)
        /\ Range(w) \cap Svc \subseteq Range(wire)
        /\ \A x, y \in Svc : Before(w, x, y) => Before(wire, x, y)
    <3>1. CASE w = wire
      BY <1>s, <3>1, Zenon
    <3>2. CASE w = Append(wire, Head(chan)) /\ Head(chan) = "Pong"
      <4>1. w \in Seq(Command) /\ Range(w) = Range(wire) \cup {Head(chan)}
        BY <1>s, <1>3, <2>1, <3>2, AppendFacts
      <4>2. \A x, y : Before(w, x, y) <=> Before(wire, x, y) \/ (x \in Range(wire) /\ y = Head(chan))
        BY <1>s, <1>3, <2>1, <3>2, BeforeAppend
      <4>3. Head(chan) \notin Svc
        BY <3>2, WriteStreamAssumption
      <4> QED
        BY <4>1, <4>2, <4>3
    <3> QED
      BY <2>2, <3>1, <3>2
  <2>4. Range(w \o a) = Range(w) \cup Range(a)
    BY <2>2, <2>3, ToSetConcat
  <2>5. \A x, y : Before(w \o a, x, y) <=>
                    Before(w, x, y) \/ Before(a, x, y) \/ (x \in Range(w) /\ y \in Range(a))
    BY <2>2, <2>3, BeforeConcat
  <2>6. \A x, y \in Svc : Ahead(x, y)' => Ahead(x, y)
    <3> SUFFICES ASSUME NEW x \in Svc, NEW y \in Svc, Ahead(x, y)' PROVE Ahead(x, y)
      OBVIOUS
    <3>1. /\ Range(a) \subseteq Range(buff) /\ Range(z) \subseteq Range(buff)
          /\ Before(a, x, y) => Before(buff, x, y)
          /\ Before(z, x, y) => Before(buff, x, y)
          /\ x \in Range(a) /\ y \in Range(z) => Before(buff, x, y)
      BY <2>2, Zenon DEF Flushed
    <3>2. /\ Before(wire', x, y) => Before(wire, x, y) \/ Before(buff, x, y)
                                     \/ (x \in Range(wire) /\ y \in Range(buff))
          /\ x \in Range(wire') => x \in Range(wire) \/ x \in Range(a)
      BY <2>2, <2>3, <2>4, <2>5, <3>1, Zenon
    <3>3. /\ Range(chan') \subseteq Range(chan)
          /\ Before(chan', x, y) => Before(chan, x, y)
      BY <1>3, <2>1, Zenon
    <3>4. \/ Before(wire', x, y) \/ Before(z, x, y) \/ Before(chan', x, y)
          \/ x \in Range(wire') /\ (y \in Range(z) \/ y \in Range(chan'))
          \/ x \in Range(z) /\ y \in Range(chan')
      BY <2>2, Zenon DEF Ahead
    <3> QED
      BY <3>1, <3>2, <3>3, <3>4, Zenon DEF Ahead
  <2> QED
    BY <1>3, <2>1, <2>6, OrderKept
<1>8. CASE return
  <2>1. /\ svc = "run" /\ nb_iter > 0
        /\ UNCHANGED <<chan, buff, wire, sent, spawnAt, shut>>
    BY <1>8 DEF return
  <2>2. \A x, y \in Svc : Ahead(x, y)' => Ahead(x, y)
    BY <2>1 DEF Ahead
  <2> QED
    BY <1>k, <2>1, <2>2, OrderKept
<1>9. CASE UNCHANGED vars
  <2>1. /\ sent' = sent /\ chan' = chan /\ buff' = buff /\ wire' = wire
        /\ svc' = svc /\ spawnAt' = spawnAt /\ shut' = shut
    BY <1>9 DEF vars
  <2>2. Late' = Late
    BY <2>1 DEF Late
  <2>3. \A x, y : Ahead(x, y)' <=> Ahead(x, y)
    BY <2>1 DEF Ahead
  <2> QED
    BY <1>k, <2>1, <2>2, <2>3, Zenon DEF OrderInv
<1> QED
  BY <1>1, <1>2, <1>4, <1>5, <1>6, <1>7, <1>8, <1>9, Zenon DEF Next, call

(* Service commands accepted once the write service is spawned are written *)
(* in the order they were accepted, when the service never returns         *)
(* (SEND_NB_ITER 0): neither the buffer kept until the pong nor its        *)
(* flushing changes it, whatever the role of the stream and the failures.  *)
THEOREM WrittenInOrder == Spec => []OrderOnceSpawned
<1>1. Init => OrderInv
  <2>1. Range(<<>>) = {} /\ NoRepeat(<<>>)
    BY DEF Range, NoRepeat
  <2> QED
    BY <2>1, Zenon DEF Init, OrderInv
<1>2. Init => PlacesInv
  <2>1. Range(<<>>) = {} /\ NoRepeat(<<>>)
    BY DEF Range, NoRepeat
  <2> QED
    BY <2>1, Zenon DEF Init, PlacesInv, Elsewhere
<1>3. TypeOK => DataOK
  BY TypeParts
<1>4. DataOK /\ OrderInv => OrderOnceSpawned
  <2> SUFFICES ASSUME DataOK, OrderInv, nb_iter = 0, svc /= "none",
                      NEW c \in Late, NEW d \in Late, Before(sent, c, d), Before(wire, d, c)
               PROVE  FALSE
    BY DEF OrderOnceSpawned, Late
  <2>1. sent \in Seq(Command) /\ Late \subseteq Range(sent) \cap Svc
    BY DEF DataOK, Late, Range
  <2>2. ~Before(sent, d, c)
    BY <2>1, BeforeOneWay DEF OrderInv
  <2>3. CASE once
    <3>1. c = d
      BY <2>1, <2>3 DEF OrderInv
    <3> QED
      BY <2>2, <3>1
  <2>4. CASE ~once
    <3>1. Before(sent, d, c)
      BY <2>4 DEF OrderInv, Ahead
    <3> QED
      BY <2>2, <3>1
  <2> QED
    BY <2>3, <2>4
<1> QED
  BY <1>1, <1>2, <1>3, <1>4, TypeCorrect, PlacesStep, OrderStep, PTL DEF Spec
=============================================================================
