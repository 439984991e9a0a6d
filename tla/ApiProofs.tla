------------------------------ MODULE ApiProofs ------------------------------
(***************************************************************************)
(* Proofs about Api, for any threads, commands and configurations.         *)
(***************************************************************************)
EXTENDS Api, TLAPS

(* The counters of a OneResult o made for l, after its results and k       *)
(* failures: what is missing, until it is complete.                        *)
CountsDown(o, l, k) ==
  LET n == Len(o.got) IN
  /\ n >= l.res \/ n + k >= l.err => o.res = 1 /\ o.err = 1
  /\ ~(n >= l.res \/ n + k >= l.err) => /\ o.res = l.res - n /\ o.err = l.err - n - k
                                       /\ ~ o.flag

CountInv == \A t \in Client : CountsDown(one[t], conf.lim[t], ko[t])
TakenInv == \A r \in taken : phase[r[1]] = "returned"

(* Query ids in use are those handed out, each to one caller.              *)
IdInv ==
  /\ \A c \in Call : qid[c] <= counter
  /\ \A e \in cache : e.id >= 1 /\ e.id <= counter
  /\ \A e \in cache, c \in Call : qid[c] = e.id => c \in Range(conf.prog[e.ret])

OneType == [got : Seq(Call), res : Nat \ {0}, err : Nat \ {0}, flag : BOOLEAN]
MsgType == MainLoopCommand \cup ApiCommand

USE DEF NoResult, MCReply

-----------------------------------------------------------------------------
(* Messages and configurations. *)

LEMMA CmdType ==
  ASSUME NEW t \in MsgType, NEW c \in Call, NEW n \in Nat
  PROVE  Cmd(t, c, n) \in Msg
BY DEF Cmd, Msg, MsgType, MainLoopCommand, ApiCommand

LEMMA ConfType ==
  ASSUME conf \in Confs
  PROVE  /\ conf.prog \in [Client -> Seq(Call)]
         /\ conf.lim \in [Client -> [res : Nat \ {0}, err : Nat \ {0}]]
         /\ conf.nb_for \in [Call -> Nat] /\ conf.peers \in Nat
BY ApiAssumption

LEMMA DispatchType ==
  ASSUME conf \in Confs, NEW c \in Call
  PROVE  dispatch(c) \in Msg
<1>1. conf.nb_for[c] \in Nat
  BY ConfType
<1> QED
  BY <1>1, CmdType DEF dispatch, MsgType, MainLoopCommand, ApiCommand

(* The head and the tail of a channel. *)
LEMMA ChannelType ==
  ASSUME NEW q \in Seq(Msg), q /= <<>>
  PROVE  /\ Head(q) \in Msg /\ Tail(q) \in Seq(Msg)
         /\ Head(q).c \in Call /\ Head(q).n \in Nat
<1>1. Head(q) \in Msg /\ Tail(q) \in Seq(Msg)
  OBVIOUS
<1> QED
  BY <1>1 DEF Msg

LEMMA AppendType ==
  ASSUME NEW q \in Seq(Msg), NEW m \in Msg
  PROVE  Append(q, m) \in Seq(Msg) /\ <<m>> \o q \in Seq(Msg)
OBVIOUS

LEMMA AnswerType ==
  ASSUME apiq \in Seq(Msg), mlq \in Seq(Msg), NEW c \in Call
  PROVE  /\ answer(Queues, c).api \in Seq(Msg)
         /\ answer(Queues, c).ml \in Seq(Msg)
<1>1. /\ Append(apiq, Cmd("ServiceReply", c, 0)) \in Seq(Msg)
      /\ Append(mlq, Cmd("ProxyApiReply", c, 0)) \in Seq(Msg)
  BY CmdType, AppendType DEF MsgType, MainLoopCommand, ApiCommand
<1> QED
  BY <1>1 DEF answer, Queues

-----------------------------------------------------------------------------
(* One answer. *)

LEMMA ReturnType ==
  ASSUME NEW o \in OneType, NEW rep \in Seq(Call), Len(rep) \in {0, 1}
  PROVE  /\ api_return(o, rep) \in OneType
         /\ api_return(o, rep).got = o.got \o rep
         /\ Len(o.got \o rep) = Len(o.got) + Len(rep)
         /\ rep = <<>> <=> Len(rep) = 0
<1>1. o.got \o rep \in Seq(Call) /\ Len(o.got \o rep) = Len(o.got) + Len(rep)
  BY DEF OneType
<1>2. rep = <<>> <=> Len(rep) = 0
  OBVIOUS
<1>3. o.res \in Nat \ {0} /\ o.err \in Nat \ {0}
  BY DEF OneType
<1> QED
  BY <1>1, <1>2, <1>3 DEF api_return, OneType

(* api_return keeps the counters in step with the answers. *)
LEMMA ReturnCounts ==
  ASSUME NEW o \in OneType, NEW rep \in Seq(Call), Len(rep) \in {0, 1},
         NEW l \in [res : Nat \ {0}, err : Nat \ {0}], NEW k \in Nat,
         CountsDown(o, l, k)
  PROVE  CountsDown(api_return(o, rep), l, IF rep = <<>> THEN k + 1 ELSE k)
<1> DEFINE r == api_return(o, rep)
<1> DEFINE n == Len(o.got)
<1> DEFINE d == Len(rep)
<1> DEFINE complete == o.res - d = 0 \/ o.err - 1 = 0
<1>0. /\ n \in Nat /\ o.res \in Nat \ {0} /\ o.err \in Nat \ {0}
      /\ l.res \in Nat \ {0} /\ l.err \in Nat \ {0}
  BY DEF OneType
<1>1. Len(r.got) = n + d /\ (rep = <<>> <=> d = 0)
  BY ReturnType, Zenon
<1>2. d \in {0, 1}
  OBVIOUS
<1>3. /\ n >= l.res \/ n + k >= l.err => o.res = 1 /\ o.err = 1
      /\ ~(n >= l.res \/ n + k >= l.err) => o.res = l.res - n /\ o.err = l.err - n - k
  BY Zenon DEF CountsDown
<1>4. ~(n >= l.res \/ n + k >= l.err) => ~o.flag
  BY Zenon DEF CountsDown
<1> HIDE DEF n, d
<1>5. /\ complete <=> (n + d >= l.res \/ n + d + (k + 1 - d) >= l.err)
      /\ ~complete => /\ o.res - d = l.res - (n + d)
                      /\ o.err - 1 = l.err - (n + d) - (k + 1 - d)
                      /\ ~(n >= l.res \/ n + k >= l.err)
  <2>1. \A a, b, lr, le \in Nat \ {0} :
          /\ n >= lr \/ n + k >= le => a = 1 /\ b = 1
          /\ ~(n >= lr \/ n + k >= le) => a = lr - n /\ b = le - n - k
          =>
          /\ (a - d = 0 \/ b - 1 = 0) <=> (n + d >= lr \/ n + d + (k + 1 - d) >= le)
          /\ ~(a - d = 0 \/ b - 1 = 0) => /\ a - d = lr - (n + d)
                                          /\ b - 1 = le - (n + d) - (k + 1 - d)
                                          /\ ~(n >= lr \/ n + k >= le)
    BY <1>0, <1>2
  <2> QED
    BY <1>0, <1>3, <2>1, Zenon
<1>6. d = 0 \/ d = 1
  BY <1>2
<1>7. (IF rep = <<>> THEN k + 1 ELSE k) = k + 1 - d
  <2>1. k + 1 - 0 = k + 1 /\ k + 1 - 1 = k
    OBVIOUS
  <2>2. d = 1 => d /= 0
    OBVIOUS
  <2> QED
    BY <1>1, <1>6, <2>1, <2>2, Zenon
<1>8. (IF rep = <<>> THEN o.res ELSE o.res - 1) = o.res - d
  <2>1. o.res - 0 = o.res
    BY <1>0
  <2>2. d = 1 => d /= 0
    OBVIOUS
  <2> QED
    BY <1>1, <1>6, <2>1, <2>2, Zenon
<1>9. /\ r.res = (IF complete THEN 1 ELSE o.res - d)
      /\ r.err = (IF complete THEN 1 ELSE o.err - 1)
      /\ r.flag => o.flag \/ complete
  BY <1>8, Zenon DEF api_return
<1> HIDE DEF complete, r
<1>10. CountsDown(r, l, k + 1 - d)
  BY <1>1, <1>4, <1>5, <1>9, Zenon DEF CountsDown
<1> QED
  BY <1>7, <1>10, Zenon DEF r

-----------------------------------------------------------------------------
(* Types of the channels, of the services and of the history.              *)

QueueType == mlq \in Seq(Msg) /\ apiq \in Seq(Msg) /\ svcs \subseteq Msg

LEMMA QueueStep == TypeOK /\ Next => QueueType'
<1> SUFFICES ASSUME TypeOK, Next PROVE QueueType'
  OBVIOUS
<1>t. /\ conf \in Confs /\ mlq \in Seq(Msg) /\ apiq \in Seq(Msg) /\ svcs \subseteq Msg
      /\ sent \in [Client -> Nat]
  BY DEF TypeOK
<1>1. ASSUME NEW t \in Client, DHTIn_send(t) PROVE QueueType'
  <2> DEFINE c == conf.prog[t][sent[t] + 1]
  <2>1. c \in Call
    <3>1. conf.prog[t] \in Seq(Call) /\ sent[t] \in Nat /\ sent[t] < Len(conf.prog[t])
      BY <1>t, <1>1, ConfType DEF DHTIn_send
    <3> QED
      BY <3>1
  <2>2. Cmd("ForwardApi", c, 0) \in Msg /\ dispatch(c) \in Msg
    BY <1>t, <2>1, CmdType, DispatchType DEF MsgType, MainLoopCommand, ApiCommand
  <2> QED
    BY <1>t, <1>1, <2>2, AppendType, Zenon DEF DHTIn_send, QueueType
<1>2. ASSUME NEW t \in Client, clone_wait(t) \/ Notified(t) \/ Spurious(t) PROVE QueueType'
  BY <1>t, <1>2 DEF clone_wait, Notified, Spurious, QueueType
<1>3. ASSUME mlq /= <<>>
      PROVE  /\ Head(mlq) \in Msg /\ Tail(mlq) \in Seq(Msg)
             /\ Head(mlq).c \in Call /\ Head(mlq).n \in Nat
  BY <1>t, <1>3, ChannelType
<1>4. ASSUME apiq /= <<>>
      PROVE  /\ Head(apiq) \in Msg /\ Tail(apiq) \in Seq(Msg)
             /\ Head(apiq).c \in Call /\ Head(apiq).n \in Nat
  BY <1>t, <1>4, ChannelType
<1>5. CASE ForwardApi
  <2>1. mlq /= <<>>
    BY <1>5 DEF ForwardApi
  <2>2. /\ dispatch(Head(mlq).c) \in Msg
        /\ Cmd("ServiceReply", Head(mlq).c, 0) \in Msg
        /\ Cmd("ServiceCommand", Head(mlq).c, 0) \in Msg
    BY <1>t, <1>3, <2>1, CmdType, DispatchType DEF MsgType, MainLoopCommand, ApiCommand
  <2> QED
    BY <1>t, <1>3, <1>5, <2>1, <2>2, AppendType, Zenon DEF ForwardApi, QueueType
<1>6. CASE ForwardService
  <2> DEFINE m == Head(mlq)
  <2> DEFINE nb_ok == IF m.n < conf.peers THEN m.n ELSE conf.peers
  <2>1. mlq /= <<>> /\ mlq' = Tail(mlq) /\ svcs' = svcs
    BY <1>6 DEF ForwardService, FromMl
  <2>2. m.n \in Nat /\ m.c \in Call /\ conf.peers \in Nat
    BY <1>t, <1>3, <2>1, ConfType
  <2>3. nb_ok < m.n => m.n - nb_ok \in Nat
    BY <2>2
  <2>4. /\ Cmd("Failure", m.c, 0) \in Msg
        /\ nb_ok < m.n => Cmd("Adjust", m.c, m.n - nb_ok) \in Msg
    BY <2>2, <2>3, CmdType DEF MsgType, MainLoopCommand, ApiCommand
  <2> DEFINE q == IF nb_ok < m.n /\ qid[m.c] /= None
                  THEN Append(apiq, Cmd("Adjust", m.c, m.n - nb_ok)) ELSE apiq
  <2>5. q \in Seq(Msg)
    BY <1>t, <2>4, AppendType
  <2>6. Append(q, Cmd("Failure", m.c, 0)) \in Seq(Msg)
    BY <2>4, <2>5, AppendType
  <2>7. apiq' = q \/ apiq' = Append(q, Cmd("Failure", m.c, 0))
    BY <1>6, Zenon DEF ForwardService
  <2> HIDE DEF q, nb_ok
  <2>8. apiq' \in Seq(Msg)
    BY <2>5, <2>6, <2>7, Zenon
  <2> QED
    BY <1>t, <1>3, <2>1, <2>8, Zenon DEF QueueType
<1>7. CASE ToService
  <2>1. mlq /= <<>> /\ mlq' = Tail(mlq) /\ apiq' = apiq /\ svcs' = svcs \cup {Head(mlq)}
    BY <1>7 DEF ToService, FromMl
  <2> QED
    BY <1>t, <1>3, <2>1 DEF QueueType
<1>8. CASE TryConnect
  <2>1. mlq /= <<>> /\ mlq' = Tail(mlq) /\ apiq' = apiq /\ svcs' = svcs
    BY <1>8 DEF TryConnect, FromMl
  <2> QED
    BY <1>t, <1>3, <2>1 DEF QueueType
<1>9. CASE ProxyApiReply
  <2>1. /\ mlq /= <<>> /\ mlq' = Tail(mlq) /\ svcs' = svcs
        /\ apiq' = Append(apiq, Cmd("ServiceReply", Head(mlq).c, 0))
    BY <1>9 DEF ProxyApiReply, FromMl
  <2>2. Cmd("ServiceReply", Head(mlq).c, 0) \in Msg
    BY <1>3, <2>1, CmdType DEF MsgType, MainLoopCommand, ApiCommand
  <2> QED
    BY <1>t, <1>3, <2>1, <2>2, AppendType DEF QueueType
<1>10. CASE ServiceCommand
  <2>1. /\ apiq /= <<>> /\ apiq' = Tail(apiq) /\ svcs' = svcs
        /\ mlq' = Append(mlq, dispatch(Head(apiq).c))
    BY <1>10 DEF ServiceCommand, FromApi
  <2>2. dispatch(Head(apiq).c) \in Msg
    BY <1>t, <1>4, <2>1, DispatchType
  <2> QED
    BY <1>t, <1>4, <2>1, <2>2, AppendType DEF QueueType
<1>11. CASE ServiceReply \/ Failure
  <2>1. apiq /= <<>> /\ apiq' = Tail(apiq) /\ mlq' = mlq /\ svcs' = svcs
    BY <1>11 DEF ServiceReply, Failure, FromApi, give
  <2> QED
    BY <1>t, <1>4, <2>1 DEF QueueType
<1>12. CASE Adjust
  <2> DEFINE m == Head(apiq)
  <2>1. /\ apiq /= <<>> /\ mlq' = mlq /\ svcs' = svcs
        /\ apiq' = IF m.n <= 1 THEN Tail(apiq)
                   ELSE <<Cmd("Adjust", m.c, m.n - 1)>> \o Tail(apiq)
    BY <1>12 DEF Adjust, FromApi, give
  <2>2. ~(m.n <= 1) => m.n - 1 \in Nat
    BY <1>4, <2>1
  <2>3. ~(m.n <= 1) => Cmd("Adjust", m.c, m.n - 1) \in Msg
    BY <1>4, <2>1, <2>2, CmdType DEF MsgType, MainLoopCommand, ApiCommand
  <2> QED
    BY <1>t, <1>4, <2>1, <2>3, AppendType DEF QueueType
<1>13. CASE Service
  <2>1. PICK m \in svcs :
          /\ svcs' = svcs \ {m}
          /\ LET q == answer(Queues, m.c) IN SetQueues([q EXCEPT !.ml = @ \o GlobalReply(m)])
    BY <1>13, Zenon DEF Service
  <2> DEFINE q == answer(Queues, m.c)
  <2> DEFINE fw == GlobalReply(m)
  <2>2. m.c \in Call /\ conf.nb_for[m.c] \in Nat
    <3>1. m \in Msg
      BY <1>t, <2>1
    <3> QED
      BY <1>t, <3>1, ConfType DEF Msg
  <2>3. q.api \in Seq(Msg) /\ q.ml \in Seq(Msg) /\ q = [api |-> q.api, ml |-> q.ml]
    BY <1>t, <2>2, AnswerType, Zenon DEF answer, Queues
  <2>4. fw \in Seq(Msg)
    <3>1. Cmd("ForwardService", m.c, 1) \in Msg
      BY <2>2, CmdType DEF MsgType, MainLoopCommand, ApiCommand
    <3>2. [i \in 1..conf.nb_for[m.c] |-> Cmd("ForwardService", m.c, 1)] \in Seq(Msg)
      BY <2>2, <3>1
    <3>3. <<>> \in Seq(Msg)
      OBVIOUS
    <3> QED
      BY <3>2, <3>3, Zenon DEF GlobalReply
  <2> HIDE DEF q, fw
  <2>5. q.ml \o fw \in Seq(Msg)
    BY <2>3, <2>4
  <2>6. [q EXCEPT !.ml = @ \o fw].api = q.api /\ [q EXCEPT !.ml = @ \o fw].ml = q.ml \o fw
    BY <2>3
  <2>7. SetQueues([q EXCEPT !.ml = @ \o fw])
    BY <2>1, Zenon DEF q, fw
  <2>8. apiq' \in Seq(Msg) /\ mlq' \in Seq(Msg)
    BY <2>3, <2>5, <2>6, <2>7, Zenon DEF SetQueues
  <2> QED
    BY <1>t, <2>1, <2>8 DEF QueueType
<1>14. ASSUME NEW c \in Call, Answer(c) \/ Lose(c) PROVE QueueType'
  <2>1. Cmd("ServiceReply", c, 0) \in Msg
    BY CmdType DEF MsgType, MainLoopCommand, ApiCommand
  <2>2. Append(apiq, Cmd("ServiceReply", c, 0)) \in Seq(Msg)
    BY <1>t, <2>1, AppendType
  <2>3. /\ answer(Queues, c).api \in Seq(Msg) /\ answer(Queues, c).ml \in Seq(Msg)
    BY <1>t, AnswerType
  <2> QED
    BY <1>t, <1>14, <2>2, <2>3, Zenon DEF Answer, Lose, SetQueues, QueueType
<1> QED
  BY <1>1, <1>2, <1>5, <1>6, <1>7, <1>8, <1>9, <1>10, <1>11, <1>12, <1>13, <1>14, Zenon
     DEF Next, MainLoop, ApiService

-----------------------------------------------------------------------------
(* The steps by what they do to the callers. *)

Waits == \E t \in Client :
  /\ phase[t] = "calling" /\ phase' = [phase EXCEPT ![t] = "waiting"]
  /\ UNCHANGED <<conf, one, woken, taken, cache, counter, qid, ko>>
Wakes == \E t \in Client : wake(t) /\ UNCHANGED <<conf, cache, counter, qid, ko>>
Gives == \E c \in Call, rep \in Seq(Call), last \in BOOLEAN :
  /\ Len(rep) \in {0, 1} /\ rep \in {<<>>, <<c>>}
  /\ give(c, rep, last)
Queries == \E c \in Call, t \in Client :
  /\ c \in Range(conf.prog[t])
  /\ counter' = counter + 1 /\ qid' = [qid EXCEPT ![c] = counter + 1]
  /\ cache' = cache \cup {[id |-> counter + 1, ret |-> t]}
  /\ UNCHANGED <<conf, phase, one, woken, taken, ko>>
Quiet == UNCHANGED <<conf, phase, one, woken, taken, cache, counter, qid, ko>>

LEMMA StepCases == TypeOK /\ [Next]_vars => Waits \/ Wakes \/ Gives \/ Queries \/ Quiet
<1> SUFFICES ASSUME TypeOK, [Next]_vars PROVE Waits \/ Wakes \/ Gives \/ Queries \/ Quiet
  OBVIOUS
<1>t. mlq \in Seq(Msg) /\ apiq \in Seq(Msg)
  BY DEF TypeOK
<1>1. ASSUME NEW t \in Client, DHTIn_send(t) PROVE Quiet
  BY <1>1, Zenon DEF DHTIn_send, Quiet
<1>2. ASSUME NEW t \in Client, clone_wait(t) PROVE Waits
  BY <1>2, Zenon DEF clone_wait, Waits
<1>3. ASSUME NEW t \in Client, Notified(t) \/ Spurious(t) PROVE Wakes
  BY <1>3, Zenon DEF Notified, Spurious, Wakes
<1>4. CASE ForwardApi \/ ForwardService \/ ToService \/ TryConnect \/ ProxyApiReply
  BY <1>4, Zenon DEF ForwardApi, ForwardService, ToService, TryConnect, ProxyApiReply,
                     MlUnchanged, Quiet
<1>5. CASE Service
  BY <1>5, Zenon DEF Service, SvcUnchanged, Quiet
<1>6. ASSUME NEW c \in Call, Answer(c) \/ Lose(c) PROVE Quiet
  BY <1>6, Zenon DEF Answer, Lose, SvcUnchanged, Quiet
<1>7. ASSUME apiq /= <<>> PROVE Head(apiq).c \in Call
  BY <1>t, <1>7, ChannelType
<1>8. CASE ServiceCommand
  <2>1. Head(apiq).c \in Call
    BY <1>7, <1>8 DEF ServiceCommand, FromApi
  <2> QED
    BY <1>8, <2>1, Zenon DEF ServiceCommand, Queries
<1>9. ASSUME NEW c \in Call, NEW last \in BOOLEAN, NEW rep \in {<<>>, <<c>>}, give(c, rep, last)
      PROVE  Gives
  <2>1. <<>> \in Seq(Call) /\ Len(<<>>) = 0 /\ <<c>> \in Seq(Call) /\ Len(<<c>>) = 1
    OBVIOUS
  <2> QED
    BY <1>9, <2>1, Zenon DEF Gives
<1>10. CASE ServiceReply \/ Failure \/ Adjust
  <2>1. Head(apiq).c \in Call
    BY <1>7, <1>10, Zenon DEF ServiceReply, Failure, Adjust, FromApi
  <2>2. \/ give(Head(apiq).c, <<Head(apiq).c>>, TRUE)
        \/ give(Head(apiq).c, <<>>, TRUE)
        \/ give(Head(apiq).c, <<>>, Head(apiq).n <= 1)
    BY <1>10, Zenon DEF ServiceReply, Failure, Adjust
  <2>3. TRUE \in BOOLEAN /\ (Head(apiq).n <= 1) \in BOOLEAN
    OBVIOUS
  <2> QED
    BY <1>9, <2>1, <2>2, <2>3, Zenon
<1>11. CASE UNCHANGED vars
  BY <1>11, Zenon DEF vars, Quiet
<1> QED
  BY <1>1, <1>2, <1>3, <1>4, <1>5, <1>6, <1>8, <1>10, <1>11, Zenon DEF Next, MainLoop, ApiService

(* The entry an answer is given to, if there is one. *)
GivenTo(c, rep) ==
  /\ conf' = conf /\ phase' = phase /\ taken' = taken /\ counter' = counter /\ qid' = qid
  /\ \/ one' = one /\ ko' = ko /\ cache' = cache /\ woken' = woken
     \/ \E e \in cache :
          /\ e.id = ReplyId(c) /\ e.ret \in Client /\ cache' \subseteq cache
          /\ woken' \subseteq woken \cup {e.ret}
          /\ one' = [one EXCEPT ![e.ret] = api_return(@, rep)]
          /\ ko' = [ko EXCEPT ![e.ret] = IF rep = <<>> THEN @ + 1 ELSE @]

LEMMA GiveCases ==
  ASSUME TypeOK, NEW c \in Call, NEW rep \in Seq(Call), NEW last \in BOOLEAN, give(c, rep, last)
  PROVE  GivenTo(c, rep)
<1>t. cache \subseteq [id : Nat, ret : Client] /\ ko \in [Client -> Nat]
  BY DEF TypeOK
<1>1. conf' = conf /\ phase' = phase /\ taken' = taken /\ counter' = counter /\ qid' = qid
  BY Zenon DEF give
<1>2. CASE UNCHANGED <<one, woken, cache, ko>>
  BY <1>1, <1>2, Zenon DEF GivenTo
<1>3. CASE \E e \in cache :
          LET t == e.ret
              notify == returns(one[t], rep) IN
          /\ e.id = ReplyId(c)
          /\ one' = [one EXCEPT ![t] = api_return(@, rep)]
          /\ ko' = IF rep = <<>> THEN [ko EXCEPT ![t] = @ + 1] ELSE ko
          /\ woken' = IF notify /\ phase[t] = "waiting" THEN woken \cup {t} ELSE woken
          /\ cache' = IF notify /\ last THEN cache \ {e} ELSE cache
  <2>1. PICK e \in cache :
          /\ e.id = ReplyId(c)
          /\ one' = [one EXCEPT ![e.ret] = api_return(@, rep)]
          /\ ko' = IF rep = <<>> THEN [ko EXCEPT ![e.ret] = @ + 1] ELSE ko
          /\ woken' = IF returns(one[e.ret], rep) /\ phase[e.ret] = "waiting"
                      THEN woken \cup {e.ret} ELSE woken
          /\ cache' = IF returns(one[e.ret], rep) /\ last THEN cache \ {e} ELSE cache
    BY <1>3, Zenon
  <2>2. e.ret \in Client
    BY <1>t
  <2>3. cache' \subseteq cache /\ woken' \subseteq woken \cup {e.ret}
    BY <2>1
  <2>4. ko' = [ko EXCEPT ![e.ret] = IF rep = <<>> THEN @ + 1 ELSE @]
    <3>1. CASE rep = <<>>
      BY <2>1, <3>1, Zenon
    <3>2. CASE rep /= <<>>
      <4>1. ko' = ko
        BY <2>1, <3>2, Zenon
      <4>2. [ko EXCEPT ![e.ret] = ko[e.ret]] = ko
        BY <1>t, <2>2
      <4> QED
        BY <3>2, <4>1, <4>2, Zenon
    <3> QED
      BY <3>1, <3>2
  <2> QED
    BY <1>1, <2>1, <2>2, <2>3, <2>4, Zenon DEF GivenTo
<1> QED
  BY <1>2, <1>3, Zenon DEF give

RestType == /\ sent \in [Client -> Nat] /\ flight \in [Call -> Nat] /\ dead \in BOOLEAN
            /\ done \in [Call -> Nat] /\ lost \in [Call -> Nat]

LEMMA RestStep == TypeOK /\ Next => RestType'
<1> SUFFICES ASSUME TypeOK, Next PROVE RestType'
  OBVIOUS
<1>t. /\ conf \in Confs /\ mlq \in Seq(Msg) /\ apiq \in Seq(Msg)
      /\ sent \in [Client -> Nat] /\ flight \in [Call -> Nat] /\ dead \in BOOLEAN
      /\ done \in [Call -> Nat] /\ lost \in [Call -> Nat]
  BY DEF TypeOK
<1>1. ASSUME NEW t \in Client, DHTIn_send(t) PROVE RestType'
  <2>1. sent' = [sent EXCEPT ![t] = @ + 1] /\ UNCHANGED <<flight, dead, done, lost>>
    BY <1>1, Zenon DEF DHTIn_send
  <2> QED
    BY <1>t, <2>1 DEF RestType
<1>2. ASSUME UNCHANGED <<sent, flight, dead, done, lost>> PROVE RestType'
  BY <1>t, <1>2 DEF RestType
<1>3. ASSUME NEW t \in Client, clone_wait(t) \/ Notified(t) \/ Spurious(t) PROVE RestType'
  BY <1>2, <1>3, Zenon DEF clone_wait, Notified, Spurious
<1>4. CASE ForwardApi \/ ToService \/ ProxyApiReply \/ ServiceCommand \/ Service
  BY <1>2, <1>4, Zenon DEF ForwardApi, ToService, ProxyApiReply, ServiceCommand, Service,
                           MlUnchanged, SvcUnchanged
<1>5. CASE ForwardService
  <2> DEFINE m == Head(mlq)
  <2> DEFINE nb_ok == IF m.n < conf.peers THEN m.n ELSE conf.peers
  <2>1. mlq /= <<>> /\ sent' = sent /\ done' = done
    BY <1>5, Zenon DEF ForwardService, FromMl, MlUnchanged
  <2>2. nb_ok \in Nat /\ m.c \in Call
    <3>1. m.n \in Nat /\ m.c \in Call /\ conf.peers \in Nat
      BY <1>t, <2>1, ChannelType, ConfType
    <3> QED
      BY <3>1
  <2>3. \/ flight' = [flight EXCEPT ![m.c] = @ + nb_ok] /\ UNCHANGED <<dead, lost>>
        \/ \E k \in 1..nb_ok : /\ dead' = TRUE /\ flight' = [flight EXCEPT ![m.c] = @ + k - 1]
                               /\ lost' = [lost EXCEPT ![m.c] = @ + nb_ok - k]
    BY <1>5, Zenon DEF ForwardService
  <2> HIDE DEF nb_ok, m
  <2>4. CASE flight' = [flight EXCEPT ![m.c] = @ + nb_ok] /\ UNCHANGED <<dead, lost>>
    BY <1>t, <2>1, <2>2, <2>4 DEF RestType
  <2>5. CASE \E k \in 1..nb_ok : /\ dead' = TRUE /\ flight' = [flight EXCEPT ![m.c] = @ + k - 1]
                                 /\ lost' = [lost EXCEPT ![m.c] = @ + nb_ok - k]
    <3>1. PICK k \in 1..nb_ok : /\ dead' = TRUE /\ flight' = [flight EXCEPT ![m.c] = @ + k - 1]
                                /\ lost' = [lost EXCEPT ![m.c] = @ + nb_ok - k]
      BY <2>5, Zenon
    <3>2. flight[m.c] + k - 1 \in Nat /\ lost[m.c] + nb_ok - k \in Nat
      BY <1>t, <2>2
    <3> QED
      BY <1>t, <2>1, <2>2, <3>1, <3>2 DEF RestType
  <2> QED
    BY <2>3, <2>4, <2>5, Zenon
<1>6. CASE TryConnect
  <2>1. mlq /= <<>> /\ UNCHANGED <<sent, done, dead>>
    BY <1>6, Zenon DEF TryConnect, FromMl, MlUnchanged
  <2>2. Head(mlq).c \in Call
    BY <1>t, <2>1, ChannelType
  <2>3. \/ lost' = [lost EXCEPT ![Head(mlq).c] = @ + 1] /\ flight' = flight
        \/ flight' = [flight EXCEPT ![Head(mlq).c] = @ + 1] /\ lost' = lost
    BY <1>6, Zenon DEF TryConnect
  <2>4. lost' \in [Call -> Nat] /\ flight' \in [Call -> Nat]
    BY <1>t, <2>2, <2>3
  <2> QED
    BY <1>t, <2>1, <2>4 DEF RestType
<1>7. CASE ServiceReply \/ Failure \/ Adjust
  <2>1. apiq /= <<>> /\ UNCHANGED <<sent, flight, dead, lost>>
    BY <1>7, Zenon DEF ServiceReply, Failure, Adjust, FromApi, give
  <2>2. done' = [done EXCEPT ![Head(apiq).c] = @ + 1]
    BY <1>7, Zenon DEF ServiceReply, Failure, Adjust, give
  <2>3. Head(apiq).c \in Call
    BY <1>t, <2>1, ChannelType
  <2> QED
    BY <1>t, <2>1, <2>2, <2>3 DEF RestType
<1>8. ASSUME NEW c \in Call, Answer(c) \/ Lose(c) PROVE RestType'
  <2>1. /\ flight[c] > 0 /\ flight' = [flight EXCEPT ![c] = @ - 1]
        /\ lost' = lost \/ lost' = [lost EXCEPT ![c] = @ + 1]
        /\ UNCHANGED <<sent, done, dead>>
    BY <1>8, Zenon DEF Answer, Lose, SvcUnchanged
  <2> QED
    BY <1>t, <2>1 DEF RestType
<1> QED
  BY <1>1, <1>3, <1>4, <1>5, <1>6, <1>7, <1>8, Zenon DEF Next, MainLoop, ApiService

-----------------------------------------------------------------------------
(* Type correctness, and with it that no counter underflows. *)

CallerType ==
  /\ conf \in Confs /\ phase \in [Client -> {"calling", "waiting", "returned"}]
  /\ one \in [Client -> OneType]
  /\ woken \subseteq Client /\ taken \subseteq Client \X Nat
  /\ cache \subseteq [id : Nat, ret : Client] /\ counter \in Nat
  /\ qid \in [Call -> Nat] /\ ko \in [Client -> Nat]

LEMMA TypeParts == TypeOK <=> QueueType /\ RestType /\ CallerType
BY Zenon DEF TypeOK, QueueType, RestType, CallerType, OneType

LEMMA CallerStep == TypeOK /\ [Next]_vars => CallerType'
<1> SUFFICES ASSUME TypeOK, [Next]_vars PROVE CallerType'
  OBVIOUS
<1>t. CallerType
  BY TypeParts
<1>1. CASE Waits
  BY <1>t, <1>1 DEF Waits, CallerType
<1>2. CASE Wakes
  <2>1. PICK t \in Client : wake(t) /\ UNCHANGED <<conf, cache, counter, qid, ko>>
    BY <1>2, Zenon DEF Wakes
  <2>2. one[t] \in OneType
    BY <1>t DEF CallerType
  <2>3. Len(one[t].got) \in Nat
    BY <2>2 DEF OneType
  <2>4. [one[t] EXCEPT !.flag = FALSE] \in OneType
    BY <2>2, Zenon DEF OneType
  <2>5. one' = [one EXCEPT ![t] = [one[t] EXCEPT !.flag = FALSE]]
    BY <2>1, Zenon DEF wake
  <2>6. one' \in [Client -> OneType]
    BY <1>t, <2>4, <2>5 DEF CallerType
  <2>7. /\ phase' \in [Client -> {"calling", "waiting", "returned"}]
        /\ woken' \subseteq Client
    BY <1>t, <2>1 DEF wake, CallerType
  <2>8. taken' \subseteq Client \X Nat
    BY <1>t, <2>1, <2>3 DEF wake, CallerType
  <2> QED
    BY <1>t, <2>1, <2>6, <2>7, <2>8 DEF CallerType
<1>3. CASE Gives
  <2>1. PICK c \in Call, rep \in Seq(Call), last \in BOOLEAN :
          Len(rep) \in {0, 1} /\ give(c, rep, last)
    BY <1>3, Zenon DEF Gives
  <2>g. GivenTo(c, rep)
    BY <2>1, GiveCases
  <2>2. /\ conf' = conf /\ phase' = phase /\ taken' = taken /\ counter' = counter /\ qid' = qid
        /\ \/ one' = one /\ ko' = ko /\ cache' = cache /\ woken' = woken
           \/ \E e \in cache :
                /\ e.id = ReplyId(c) /\ e.ret \in Client /\ cache' \subseteq cache
                /\ woken' \subseteq woken \cup {e.ret}
                /\ one' = [one EXCEPT ![e.ret] = api_return(@, rep)]
                /\ ko' = [ko EXCEPT ![e.ret] = IF rep = <<>> THEN @ + 1 ELSE @]
    BY <2>g, Zenon DEF GivenTo
  <2>3. CASE one' = one /\ ko' = ko /\ cache' = cache /\ woken' = woken
    BY <1>t, <2>2, <2>3 DEF CallerType
  <2>4. ASSUME NEW e \in cache, e.ret \in Client, cache' \subseteq cache,
               woken' \subseteq woken \cup {e.ret},
               one' = [one EXCEPT ![e.ret] = api_return(@, rep)],
               ko' = [ko EXCEPT ![e.ret] = IF rep = <<>> THEN @ + 1 ELSE @]
        PROVE  CallerType'
    <3>1. one[e.ret] \in OneType
      BY <1>t, <2>4 DEF CallerType
    <3>2. api_return(one[e.ret], rep) \in OneType
      BY <2>1, <3>1, ReturnType
    <3>3. one' \in [Client -> OneType]
      BY <1>t, <2>4, <3>2 DEF CallerType
    <3>4. ko' \in [Client -> Nat]
      BY <1>t, <2>4 DEF CallerType
    <3>5. woken' \subseteq Client /\ cache' \subseteq [id : Nat, ret : Client]
      BY <1>t, <2>4 DEF CallerType
    <3> QED
      BY <1>t, <2>2, <3>3, <3>4, <3>5, Zenon DEF CallerType
  <2> QED
    BY <2>2, <2>3, <2>4, Zenon
<1>4. CASE Queries
  <2>1. PICK c \in Call, t \in Client :
          /\ counter' = counter + 1 /\ qid' = [qid EXCEPT ![c] = counter + 1]
          /\ cache' = cache \cup {[id |-> counter + 1, ret |-> t]}
          /\ UNCHANGED <<conf, phase, one, woken, taken, ko>>
    BY <1>4, Zenon DEF Queries
  <2>2. counter + 1 \in Nat /\ qid' \in [Call -> Nat]
    BY <1>t, <2>1 DEF CallerType
  <2>3. cache' \subseteq [id : Nat, ret : Client]
    BY <1>t, <2>1, <2>2 DEF CallerType
  <2> QED
    BY <1>t, <2>1, <2>2, <2>3, Zenon DEF CallerType
<1>5. CASE Quiet
  BY <1>t, <1>5, Zenon DEF Quiet, CallerType
<1> QED
  BY <1>1, <1>2, <1>3, <1>4, <1>5, StepCases, Zenon

LEMMA TypeInit == Init => TypeOK
<1> SUFFICES ASSUME Init PROVE TypeOK
  OBVIOUS
<1>1. conf.lim \in [Client -> [res : Nat \ {0}, err : Nat \ {0}]]
  BY ConfType DEF Init
<1>2. one \in [Client -> OneType]
  BY <1>1 DEF Init, new_oneresult, OneType
<1>3. QueueType
  BY DEF Init, QueueType
<1>4. RestType
  BY Zenon DEF Init, RestType
<1>5. CallerType
  BY <1>2 DEF Init, CallerType, None
<1> QED
  BY <1>3, <1>4, <1>5, TypeParts

LEMMA TypeStep == TypeOK /\ [Next]_vars => TypeOK'
<1> SUFFICES ASSUME TypeOK, [Next]_vars PROVE TypeOK'
  OBVIOUS
<1>1. CASE Next
  <2>1. (QueueType /\ RestType /\ CallerType)'
    BY <1>1, QueueStep, RestStep, CallerStep
  <2> QED
    BY <2>1, Zenon DEF TypeOK, QueueType, RestType, CallerType, OneType
<1>2. CASE UNCHANGED vars
  BY <1>2, Zenon DEF vars, TypeOK
<1> QED
  BY <1>1, <1>2

(* Whatever the threads ask and the peers answer, the state keeps its      *)
(* shape; the counters of a OneResult never reach zero between answers, so *)
(* the unsigned subtractions of api_return cannot wrap.                    *)
THEOREM TypeCorrect == Spec => []TypeOK
BY TypeInit, TypeStep, PTL DEF Spec

-----------------------------------------------------------------------------
(* The inductive invariant of the refinement: the counters are in step     *)
(* with the answers, and only threads that have returned have results.     *)

LEMMA CountStep == TypeOK /\ CountInv /\ [Next]_vars => CountInv'
<1> SUFFICES ASSUME TypeOK, CountInv, [Next]_vars, NEW u \in Client
             PROVE  CountsDown(one[u], conf.lim[u], ko[u])'
  BY DEF CountInv
<1>t. CallerType /\ CountsDown(one[u], conf.lim[u], ko[u])
  BY TypeParts DEF CountInv
<1>l. conf.lim[u] \in [res : Nat \ {0}, err : Nat \ {0}]
  BY <1>t, ConfType DEF CallerType
<1>1. CASE Waits \/ Queries \/ Quiet
  <2>1. UNCHANGED <<conf, one, ko>>
    BY <1>1, Zenon DEF Waits, Queries, Quiet
  <2> QED
    BY <1>t, <2>1, Zenon
<1>2. CASE Wakes
  <2>1. PICK t \in Client : wake(t) /\ UNCHANGED <<conf, cache, counter, qid, ko>>
    BY <1>2, Zenon DEF Wakes
  <2>2. one' = [one EXCEPT ![t] = [one[t] EXCEPT !.flag = FALSE]]
    BY <2>1, Zenon DEF wake
  <2>3. /\ one'[u].got = one[u].got /\ one'[u].res = one[u].res /\ one'[u].err = one[u].err
        /\ one'[u].flag => one[u].flag
    BY <1>t, <2>2 DEF CallerType, OneType
  <2>4. conf' = conf /\ ko' = ko
    BY <2>1
  <2> QED
    BY <1>t, <2>3, <2>4, Zenon DEF CountsDown
<1>3. CASE Gives
  <2>1. PICK c \in Call, rep \in Seq(Call), last \in BOOLEAN :
          Len(rep) \in {0, 1} /\ give(c, rep, last)
    BY <1>3, Zenon DEF Gives
  <2>g. GivenTo(c, rep)
    BY <2>1, GiveCases
  <2>2. /\ conf' = conf
        /\ \/ one' = one /\ ko' = ko
           \/ \E e \in cache :
                /\ e.ret \in Client
                /\ one' = [one EXCEPT ![e.ret] = api_return(@, rep)]
                /\ ko' = [ko EXCEPT ![e.ret] = IF rep = <<>> THEN @ + 1 ELSE @]
    BY <2>g, Zenon DEF GivenTo
  <2>3. CASE one' = one /\ ko' = ko
    BY <1>t, <2>2, <2>3, Zenon
  <2>4. ASSUME NEW e \in cache, e.ret \in Client,
               one' = [one EXCEPT ![e.ret] = api_return(@, rep)],
               ko' = [ko EXCEPT ![e.ret] = IF rep = <<>> THEN @ + 1 ELSE @]
        PROVE  CountsDown(one[u], conf.lim[u], ko[u])'
    <3>1. one \in [Client -> OneType] /\ ko \in [Client -> Nat]
      BY <1>t DEF CallerType
    <3>2. CASE u = e.ret
      <4>1. one'[u] = api_return(one[u], rep) /\ ko'[u] = IF rep = <<>> THEN ko[u] + 1 ELSE ko[u]
        BY <2>4, <3>1, <3>2, Zenon
      <4>2. one[u] \in OneType /\ ko[u] \in Nat
        BY <3>1
      <4>3. CountsDown(api_return(one[u], rep), conf.lim[u], IF rep = <<>> THEN ko[u] + 1 ELSE ko[u])
        BY <1>t, <1>l, <2>1, <4>2, ReturnCounts
      <4> QED
        BY <2>2, <4>1, <4>3, Zenon
    <3>3. CASE u /= e.ret
      <4>1. one'[u] = one[u] /\ ko'[u] = ko[u]
        BY <2>4, <3>1, <3>3, Zenon
      <4> QED
        BY <1>t, <2>2, <4>1, Zenon
    <3> QED
      BY <3>2, <3>3
  <2> QED
    BY <2>2, <2>3, <2>4, Zenon
<1> QED
  BY <1>1, <1>2, <1>3, StepCases, Zenon

LEMMA TakenStep == TypeOK /\ TakenInv /\ [Next]_vars => TakenInv'
<1> SUFFICES ASSUME TypeOK, TakenInv, [Next]_vars, NEW r \in taken' PROVE phase'[r[1]] = "returned"
  BY DEF TakenInv
<1>t. phase \in [Client -> {"calling", "waiting", "returned"}] /\ taken \subseteq Client \X Nat
  BY DEF TypeOK
<1>1. CASE Waits
  BY <1>t, <1>1 DEF Waits, TakenInv
<1>2. CASE Wakes
  BY <1>t, <1>2 DEF Wakes, wake, TakenInv
<1>3. CASE Gives \/ Queries \/ Quiet
  <2>1. UNCHANGED <<phase, taken>>
    BY <1>3, Zenon DEF Gives, give, Queries, Quiet
  <2> QED
    BY <2>1 DEF TakenInv
<1> QED
  BY <1>1, <1>2, <1>3, StepCases, Zenon

-----------------------------------------------------------------------------
(* The api implements Completion. *)

LEMMA AbsInit == Init => Abs!Init
<1> SUFFICES ASSUME Init PROVE Abs!Init
  OBVIOUS
<1>1. conf.lim \in [Client -> [res : Nat \ {0}, err : Nat \ {0}]]
  BY ConfType DEF Init
<1>2. [t \in Client |-> Len(one[t].got)] = [t \in Client |-> 0]
  BY DEF Init, new_oneresult
<1> QED
  BY <1>1, <1>2 DEF Init, Abs!Init

(* The flag of a OneResult is only set when it is complete. *)
LEMMA FlagComplete ==
  ASSUME TypeOK, CountInv, NEW t \in Client, one[t].flag
  PROVE  Abs!Complete(t)
<1>1. CountsDown(one[t], conf.lim[t], ko[t])
  BY DEF CountInv
<1>2. [u \in Client |-> Len(one[u].got)][t] = Len(one[t].got)
  OBVIOUS
<1> QED
  BY <1>1, <1>2, Zenon DEF CountsDown, Abs!Complete

LEMMA AbsStep == TypeOK /\ CountInv /\ TakenInv /\ [Next]_vars => [Abs!Next]_(Abs!vars)
<1> SUFFICES ASSUME TypeOK, CountInv, TakenInv, [Next]_vars PROVE [Abs!Next]_(Abs!vars)
  OBVIOUS
<1>t. CallerType
  BY TypeParts
<1> DEFINE ok == [t \in Client |-> Len(one[t].got)]
<1>s. ASSUME conf' = conf, ok' = ok, ko' = ko, taken' = taken PROVE UNCHANGED Abs!vars
  BY <1>s DEF Abs!vars
<1>1. CASE Waits \/ Queries \/ Quiet
  <2>1. conf' = conf /\ one' = one /\ ko' = ko /\ taken' = taken
    BY <1>1, Zenon DEF Waits, Queries, Quiet
  <2> QED
    BY <1>s, <2>1
<1>2. CASE Wakes
  <2>1. PICK t \in Client : wake(t) /\ conf' = conf /\ ko' = ko
    BY <1>2, Zenon DEF Wakes
  <2>2. one' = [one EXCEPT ![t] = [one[t] EXCEPT !.flag = FALSE]]
    BY <2>1, Zenon DEF wake
  <2>3. \A u \in Client : one'[u].got = one[u].got
    BY <1>t, <2>2 DEF CallerType, OneType
  <2>4. ok' = ok
    BY <2>3
  <2>5. CASE ~one[t].flag
    <3>1. taken' = taken
      BY <2>1, <2>5, Zenon DEF wake
    <3> QED
      BY <1>s, <2>1, <2>4, <3>1
  <2>6. CASE one[t].flag
    <3>1. taken' = taken \cup {<<t, Len(one[t].got)>>} /\ phase[t] = "waiting"
      BY <2>1, <2>6, Zenon DEF wake
    <3>2. Abs!Complete(t)
      BY <2>6, FlagComplete
    <3>3. ~ \E r \in taken : r[1] = t
      BY <3>1 DEF TakenInv
    <3>4. ok[t] = Len(one[t].got)
      OBVIOUS
    <3>5. Abs!Return(t)
      BY <2>1, <2>4, <3>1, <3>2, <3>3, <3>4 DEF Abs!Return
    <3> QED
      BY <3>5 DEF Abs!Next
  <2> QED
    BY <2>5, <2>6
<1>3. CASE Gives
  <2>1. PICK c \in Call, rep \in Seq(Call), last \in BOOLEAN :
          Len(rep) \in {0, 1} /\ give(c, rep, last)
    BY <1>3, Zenon DEF Gives
  <2>g. GivenTo(c, rep)
    BY <2>1, GiveCases
  <2>2. /\ conf' = conf /\ taken' = taken
        /\ \/ one' = one /\ ko' = ko
           \/ \E e \in cache :
                /\ e.ret \in Client
                /\ one' = [one EXCEPT ![e.ret] = api_return(@, rep)]
                /\ ko' = [ko EXCEPT ![e.ret] = IF rep = <<>> THEN @ + 1 ELSE @]
    BY <2>g, Zenon DEF GivenTo
  <2>3. CASE one' = one /\ ko' = ko
    BY <1>s, <2>2, <2>3
  <2>4. ASSUME NEW e \in cache, e.ret \in Client,
               one' = [one EXCEPT ![e.ret] = api_return(@, rep)],
               ko' = [ko EXCEPT ![e.ret] = IF rep = <<>> THEN @ + 1 ELSE @]
        PROVE  \E t \in Client : Abs!Result(t) \/ Abs!Failure(t)
    <3> DEFINE t == e.ret
    <3>1. one \in [Client -> OneType] /\ ko \in [Client -> Nat] /\ one[t] \in OneType
      BY <1>t, <2>4 DEF CallerType
    <3>2. /\ Len(api_return(one[t], rep).got) = Len(one[t].got) + Len(rep)
          /\ rep = <<>> <=> Len(rep) = 0
      BY <2>1, <3>1, ReturnType, Zenon
    <3>3. \A u \in Client : one'[u] = IF u = t THEN api_return(one[t], rep) ELSE one[u]
      BY <2>4, <3>1, Zenon
    <3>4. CASE Len(rep) = 0
      <4>1. Len(one[t].got) \in Nat /\ Len(api_return(one[t], rep).got) = Len(one[t].got)
        BY <3>1, <3>2, <3>4 DEF OneType
      <4>2. \A u \in Client : Len(one'[u].got) = Len(one[u].got)
        BY <3>3, <4>1, Zenon
      <4>3. ok' = ok
        BY <4>2
      <4>4. ko' = [ko EXCEPT ![t] = @ + 1]
        BY <2>4, <3>2, <3>4, Zenon
      <4> QED
        BY <2>2, <2>4, <4>3, <4>4, Zenon DEF Abs!Failure
    <3>5. CASE Len(rep) = 1
      <4>1. rep /= <<>> /\ Len(api_return(one[t], rep).got) = Len(one[t].got) + 1
        BY <3>2, <3>5
      <4>2. \A u \in Client : Len(one'[u].got) = IF u = t THEN Len(one[u].got) + 1
                                                 ELSE Len(one[u].got)
        BY <3>3, <4>1, Zenon
      <4>3. ok' = [ok EXCEPT ![t] = @ + 1]
        BY <2>4, <4>2
      <4>4. ko' = ko
        <5>1. ko' = [ko EXCEPT ![t] = ko[t]]
          BY <2>4, <4>1, Zenon
        <5> QED
          BY <3>1, <5>1
      <4> QED
        BY <2>2, <2>4, <4>3, <4>4, Zenon DEF Abs!Result
    <3> QED
      BY <2>1, <3>4, <3>5
  <2> QED
    BY <2>2, <2>3, <2>4, Zenon DEF Abs!Next
<1> QED
  BY <1>1, <1>2, <1>3, StepCases, Zenon

(* The Api service implements Completion for every set of threads and      *)
(* commands: every result and failure of a query counts once, whatever the *)
(* way it comes, and a thread gets its results once, only when enough      *)
(* answers have been counted.                                              *)
THEOREM RefinesCompletion == Spec => Refines
<1>1. Init => CountInv /\ TakenInv
  <2> SUFFICES ASSUME Init PROVE CountInv /\ TakenInv
    OBVIOUS
  <2>1. conf.lim \in [Client -> [res : Nat \ {0}, err : Nat \ {0}]]
    BY ConfType DEF Init
  <2>2. CountInv
    BY <2>1 DEF Init, new_oneresult, CountInv, CountsDown
  <2> QED
    BY <2>2 DEF Init, TakenInv
<1> QED
  BY <1>1, TypeInit, TypeStep, CountStep, TakenStep, AbsInit, AbsStep, PTL
     DEF Spec, Refines, Abs!Spec

-----------------------------------------------------------------------------
(* Query ids. *)

LEMMA IdStep == TypeOK /\ IdInv /\ OwnAnswers /\ [Next]_vars => IdInv' /\ OwnAnswers'
<1> SUFFICES ASSUME TypeOK, IdInv, OwnAnswers, [Next]_vars PROVE IdInv' /\ OwnAnswers'
  OBVIOUS
<1>t. CallerType
  BY TypeParts
<1>1. CASE Waits \/ Quiet
  <2>1. UNCHANGED <<conf, one, cache, counter, qid>>
    BY <1>1, Zenon DEF Waits, Quiet
  <2> QED
    BY <2>1, Zenon DEF IdInv, OwnAnswers, Shortcut
<1>2. CASE Wakes
  <2>1. PICK t \in Client : wake(t) /\ UNCHANGED <<conf, cache, counter, qid>>
    BY <1>2, Zenon DEF Wakes
  <2>2. one' = [one EXCEPT ![t] = [one[t] EXCEPT !.flag = FALSE]]
    BY <2>1, Zenon DEF wake
  <2>3. \A u \in Client : one'[u].got = one[u].got
    BY <1>t, <2>2 DEF CallerType, OneType
  <2> QED
    BY <2>1, <2>3, Zenon DEF IdInv, OwnAnswers, Shortcut
<1>3. CASE Queries
  <2>1. PICK c \in Call, t \in Client :
          /\ c \in Range(conf.prog[t])
          /\ counter' = counter + 1 /\ qid' = [qid EXCEPT ![c] = counter + 1]
          /\ cache' = cache \cup {[id |-> counter + 1, ret |-> t]}
          /\ UNCHANGED <<conf, one>>
    BY <1>3, Zenon DEF Queries
  <2>2. OwnAnswers'
    <3>1. 1..counter \subseteq 1..counter'
      BY <1>t, <2>1 DEF CallerType
    <3> QED
      BY <2>1, <3>1, Zenon DEF OwnAnswers, Shortcut
  <2>3. /\ counter \in Nat /\ qid \in [Call -> Nat]
        /\ cache \subseteq [id : Nat, ret : Client]
    BY <1>t DEF CallerType
  <2>4. \A d \in Call : qid'[d] = IF d = c THEN counter + 1 ELSE qid[d]
    BY <2>1, <2>3
  <2>5. \A d \in Call : qid'[d] <= counter'
    BY <2>1, <2>3, <2>4 DEF IdInv
  <2>6. ASSUME NEW e \in cache'
        PROVE  \/ e = [id |-> counter + 1, ret |-> t]
               \/ e \in cache /\ e.id \in Nat /\ e.id >= 1 /\ e.id <= counter
    BY <2>1, <2>3 DEF IdInv
  <2>7. \A e \in cache' : e.id >= 1 /\ e.id <= counter'
    BY <2>1, <2>3, <2>6
  <2>8. ASSUME NEW e \in cache', NEW d \in Call, qid'[d] = e.id
        PROVE  d \in Range(conf.prog[e.ret])
    <3>1. CASE e = [id |-> counter + 1, ret |-> t]
      <4>1. d = c
        BY <2>3, <2>4, <2>8, <3>1 DEF IdInv
      <4> QED
        BY <2>1, <3>1, <4>1
    <3>2. CASE e \in cache /\ e.id \in Nat /\ e.id >= 1 /\ e.id <= counter
      <4>1. d /= c
        BY <2>3, <2>4, <2>8, <3>2
      <4>2. qid[d] = e.id
        BY <2>4, <2>8, <4>1
      <4> QED
        BY <3>2, <4>2 DEF IdInv
    <3> QED
      BY <2>6, <3>1, <3>2
  <2> QED
    BY <2>1, <2>2, <2>5, <2>7, <2>8 DEF IdInv
<1>4. CASE Gives
  <2>1. PICK c \in Call, rep \in Seq(Call), last \in BOOLEAN :
          Len(rep) \in {0, 1} /\ rep \in {<<>>, <<c>>} /\ give(c, rep, last)
    BY <1>4, Zenon DEF Gives
  <2>g. GivenTo(c, rep)
    BY <2>1, GiveCases
  <2>2. /\ conf' = conf /\ counter' = counter /\ qid' = qid
        /\ \/ one' = one /\ cache' = cache
           \/ \E e \in cache : /\ e.id = ReplyId(c) /\ e.ret \in Client /\ cache' \subseteq cache
                               /\ one' = [one EXCEPT ![e.ret] = api_return(@, rep)]
    BY <2>g, Zenon DEF GivenTo
  <2>3. cache' \subseteq cache
    BY <2>2
  <2>4. IdInv'
    BY <2>2, <2>3 DEF IdInv
  <2>5. CASE one' = one
    BY <2>2, <2>4, <2>5, Zenon DEF OwnAnswers, Shortcut
  <2>6. ASSUME NEW e \in cache, e.id = ReplyId(c), e.ret \in Client,
               one' = [one EXCEPT ![e.ret] = api_return(@, rep)], NEW u \in Client
        PROVE  \A d \in Range(one'[u].got) :
                 d \in Range(conf.prog[u]) \/ (Shortcut(d) /\ conf.aqid[d] \in 1..counter)
    <3>1. one \in [Client -> OneType] /\ one[u] \in OneType
      BY <1>t DEF CallerType
    <3>2. CASE u /= e.ret
      <4>1. one'[u] = one[u]
        BY <2>6, <3>1, <3>2, Zenon
      <4> QED
        BY <4>1 DEF OwnAnswers
    <3>3. CASE u = e.ret
      <4>1. one'[u].got = one[u].got \o rep
        BY <2>1, <2>6, <3>1, <3>3, ReturnType, Zenon
      <4>2. c \in Range(conf.prog[u]) \/ (Shortcut(c) /\ conf.aqid[c] \in 1..counter)
        <5>1. CASE Shortcut(c)
          <6>1. e.id = conf.aqid[c]
            BY <2>6, <5>1, Zenon DEF ReplyId
          <6>2. e.id \in Nat /\ counter \in Nat
            BY <1>t, <2>6 DEF CallerType
          <6>3. e.id >= 1 /\ e.id <= counter
            BY <2>6, Zenon DEF IdInv
          <6>4. e.id \in 1..counter
            BY <6>2, <6>3
          <6> QED
            BY <5>1, <6>1, <6>4, Zenon
        <5>2. CASE ~Shortcut(c)
          <6>1. e.id = qid[c]
            BY <2>6, <5>2, Zenon DEF ReplyId
          <6> QED
            BY <2>6, <3>3, <6>1, Zenon DEF IdInv
        <5> QED
          BY <5>1, <5>2, Zenon
      <4>3. one[u].got \in Seq(Call)
        BY <3>1 DEF OneType
      <4>4. Range(one[u].got \o rep) \subseteq Range(one[u].got) \cup {c}
        <5>1. rep = <<>> => one[u].got \o rep = one[u].got
          BY <4>3
        <5>2. rep = <<c>> => one[u].got \o rep = Append(one[u].got, c)
          BY <4>3
        <5>3. Range(Append(one[u].got, c)) \subseteq Range(one[u].got) \cup {c}
          BY <4>3 DEF Range
        <5> QED
          BY <2>1, <5>1, <5>2, <5>3, Zenon
      <4> QED
        BY <4>1, <4>2, <4>4, Zenon DEF OwnAnswers
    <3> QED
      BY <3>2, <3>3
  <2>7. OwnAnswers'
    BY <2>2, <2>5, <2>6, Zenon DEF OwnAnswers, Shortcut
  <2> QED
    BY <2>4, <2>7
<1> QED
  BY <1>1, <1>2, <1>3, <1>4, StepCases, Zenon

(* A thread gets answers to its own commands, however the answers of       *)
(* concurrent queries interleave: an id is in the cache for one caller, and*)
(* the Api service hands it out once.  The exception is a find that the    *)
(* main loop answers from peer_cache with the id its caller wrote, when    *)
(* that is an id the service has handed out.                               *)
THEOREM AnswersAreOwn == Spec => []OwnAnswers
<1>1. Init => IdInv /\ OwnAnswers
  <2> SUFFICES ASSUME Init PROVE IdInv /\ OwnAnswers
    OBVIOUS
  <2>1. IdInv
    BY DEF Init, IdInv, None
  <2>2. OwnAnswers
    BY DEF Init, OwnAnswers, new_oneresult, Range
  <2> QED
    BY <2>1, <2>2
<1> QED
  BY <1>1, TypeInit, TypeStep, IdStep, PTL DEF Spec
=============================================================================
