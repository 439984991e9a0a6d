--------------------------------- MODULE Api ---------------------------------
(***************************************************************************)
(* The api of a node: threads that send commands through DHTIn and wait on *)
(* a OneResult (mydht-base utils.rs), the main loop that dispatches the    *)
(* commands (procs/mainloop.rs), the Api service that gives each one a     *)
(* query id and counts its answers (procs/api.rs), and the destinations    *)
(* that bring answers back (procs/deflocal.rs).                            *)
(*                                                                         *)
(* The threads, the main loop, the Api service and the other services run  *)
(* concurrently.  A message names its call; qid is the query id that the   *)
(* call's command carries, and only the query id finds the OneResult.      *)
(***************************************************************************)
EXTENDS Naturals, Sequences, FiniteSets, Functions

CONSTANTS
  Client,    \* threads using the api, each with one OneResult
  Call,      \* commands sent through the api, each at most once
  Confs      \* configurations considered, see conf

(* The kinds of commands of the api, of the main loop and of the Api service. *)
MCCommand == {"Local", "Global", "Find", "FindLocally", "TryConnect"}
MainLoopCommand ==
  {"ForwardApi", "ForwardService", "ProxyGlobal", "PeerStore", "TryConnect", "ProxyApiReply"}
ApiCommand == {"ServiceCommand", "ServiceReply", "Failure", "Adjust"}
Msg == [t : MainLoopCommand \cup ApiCommand, c : Call, n : Nat]

ASSUME ApiAssumption ==
  /\ Confs \subseteq
       [prog : [Client -> Seq(Call)],  \* what each thread sends before it waits
        lim : [Client -> [res : Nat \ {0}, err : Nat \ {0}]], \* its OneResult
        kind : [Call -> MCCommand],
        reply : [Call -> BOOLEAN],     \* is_api_reply of the command
        nb_for : [Call -> Nat],        \* peers it is forwarded to
        peers : Nat,                   \* peers connected
        cached : SUBSET Call,          \* its peer or address is in a cache
        aqid : [Call -> Nat],          \* ApiQueryId a find is given by its caller
        direct : BOOLEAN,              \* services hold a handle of the Api service
        fail : BOOLEAN,                \* a write service may have ended in error
        lose : BOOLEAN]                \* a peer may never answer
  /\ \A k \in Confs : \A c \in Call : k.kind[c] = "TryConnect" => k.reply[c]
  /\ \A k \in Confs : \A t, u \in Client : \* a call is one use of the api
       \A i \in DOMAIN k.prog[t], j \in DOMAIN k.prog[u] :
         k.prog[t][i] = k.prog[u][j] => t = u /\ i = j

VARIABLES
  conf,     \* the configuration, fixed
  sent,     \* [Client -> calls of its program sent]
  phase,    \* [Client -> "calling", "waiting" in the condvar, "returned"]
  one,      \* [Client -> its OneResult: got, res, err, flag]
  woken,    \* clients notified and not awake yet
  taken,    \* <<client, results it was given>> of the clients that returned
  mlq,      \* main loop's channel
  apiq,     \* Api service's channel
  svcs,     \* commands received by the global and peer store services
  cache,    \* Api's cache: query ids and the OneResult to give answers to
  counter,  \* Api's counter of query ids
  qid,      \* [Call -> query id in its command and in its answers, or None]
  flight,   \* [Call -> copies sent to peers and not answered]
  dead,     \* the main loop has panicked
  ko,       \* history: [Client -> failures counted]
  done,     \* history: [Call -> answers the Api service has handled]
  lost      \* history: [Call -> answers that will never come]

vars == <<conf, sent, phase, one, woken, taken, mlq, apiq, svcs, cache, counter,
          qid, flight, dead, ko, done, lost>>

None == 0

(* A find of a peer of peer_cache that the main loop answers itself.  A    *)
(* Find here asks for one result.                                          *)
Shortcut(c) ==
  /\ c \in conf.cached
  /\ conf.kind[c] = "FindLocally" \/ (conf.kind[c] = "Find" /\ conf.aqid[c] /= None)

(* The query id an answer to c carries: that of the caller when the main   *)
(* loop answers, which may be the id of any query, else the one given by   *)
(* the Api service.                                                        *)
ReplyId(c) == IF Shortcut(c) THEN conf.aqid[c] ELSE qid[c]

Cmd(t, c, n) == [t |-> t, c |-> c, n |-> n]
MCReply(t, c) == Cmd(t, c, 0)  \* a reply, with the query id of its command
NoResult == <<>>               \* an ApiResult without reply

(* new_oneresult: nothing received, not to be taken yet. *)
new_oneresult(l) == [got |-> <<>>, res |-> l.res, err |-> l.err, flag |-> FALSE]

Init ==
  /\ conf \in Confs
  /\ sent = [t \in Client |-> 0] /\ phase = [t \in Client |-> "calling"]
  /\ one = [t \in Client |-> new_oneresult(conf.lim[t])]
  /\ woken = {} /\ taken = {} /\ mlq = <<>> /\ apiq = <<>> /\ svcs = {} /\ cache = {}
  /\ counter = 0 /\ dead = FALSE /\ qid = [c \in Call |-> None]
  /\ flight = [c \in Call |-> 0] /\ ko = [t \in Client |-> 0]
  /\ done = [c \in Call |-> 0] /\ lost = [c \in Call |-> 0]

-----------------------------------------------------------------------------
(* The threads. *)

(* The command of the main loop a service command becomes. *)
dispatch(c) ==
  CASE conf.kind[c] = "Local"      -> Cmd("ForwardService", c, conf.nb_for[c])
    [] conf.kind[c] = "Global"     -> Cmd("ProxyGlobal", c, 0)
    [] conf.kind[c] = "TryConnect" -> Cmd("TryConnect", c, 0)
    [] OTHER                       -> Cmd("PeerStore", c, 0)

(* DHTIn::send: a command wanting a reply goes through ForwardApi; the     *)
(* constructors without reply may also name the main loop's command.       *)
DHTIn_send(t) ==
  /\ phase[t] = "calling" /\ sent[t] < Len(conf.prog[t])
  /\ LET c == conf.prog[t][sent[t] + 1] IN
     \/ mlq' = Append(mlq, Cmd("ForwardApi", c, 0))
     \/ ~conf.reply[c] /\ mlq' = Append(mlq, dispatch(c))
  /\ sent' = [sent EXCEPT ![t] = @ + 1]
  /\ UNCHANGED <<conf, phase, one, woken, taken, apiq, svcs, cache, counter, qid, flight,
                 dead, ko, done, lost>>

(* clone_wait_one_result: lock and wait, whatever the flag already is.     *)
clone_wait(t) ==
  /\ phase[t] = "calling" /\ sent[t] = Len(conf.prog[t]) /\ sent[t] > 0
  /\ phase' = [phase EXCEPT ![t] = "waiting"]
  /\ UNCHANGED <<conf, sent, one, woken, taken, mlq, apiq, svcs, cache, counter, qid, flight,
                 dead, ko, done, lost>>

(* Mutant of wake: the wait returns without testing the flag. *)
wake_any(t) ==
  /\ phase[t] = "waiting"
  /\ woken' = woken \ {t}
  /\ one' = [one EXCEPT ![t].flag = FALSE]
  /\ phase' = [phase EXCEPT ![t] = "returned"]
  /\ taken' = taken \cup {<<t, Len(one[t].got)>>}

(* The wait returns, notified or spuriously: with the flag set the results *)
(* are taken and the flag reset, else the thread waits again.              *)
wake(t) ==
  /\ phase[t] = "waiting"
  /\ woken' = woken \ {t}
  /\ one' = [one EXCEPT ![t].flag = FALSE]
  /\ phase' = [phase EXCEPT ![t] = IF one[t].flag THEN "returned" ELSE @]
  /\ taken' = IF one[t].flag THEN taken \cup {<<t, Len(one[t].got)>>} ELSE taken

Notified(t) == t \in woken /\ wake(t)
               /\ UNCHANGED <<conf, sent, mlq, apiq, svcs, cache, counter, qid, flight,
                              dead, ko, done, lost>>
Spurious(t) == t \notin woken /\ wake(t)
               /\ UNCHANGED <<conf, sent, mlq, apiq, svcs, cache, counter, qid, flight,
                              dead, ko, done, lost>>

-----------------------------------------------------------------------------
(* The main loop, one command at a time. *)
FromMl(t) == ~dead /\ mlq /= <<>> /\ Head(mlq).t = t /\ mlq' = Tail(mlq)
MlUnchanged == UNCHANGED <<conf, sent, phase, one, woken, taken, cache, counter, qid, ko, done>>

(* ForwardApi: a find of a peer of the peer cache is answered at once, by  *)
(* ProxyApiReply, with the query id of the caller.                         *)
ForwardApi ==
  /\ ~dead /\ mlq /= <<>> /\ Head(mlq).t = "ForwardApi"
  /\ LET c == Head(mlq).c IN
     \/ /\ conf.reply[c] /\ mlq' = Tail(mlq)
        /\ apiq' = Append(apiq,
             IF Shortcut(c)
             THEN MCReply("ServiceReply", c)
             ELSE Cmd("ServiceCommand", c, 0))
     \/ /\ ~conf.reply[c] /\ UNCHANGED apiq
        /\ mlq' = <<dispatch(c)>> \o Tail(mlq)   \* call_inner_loop
  /\ UNCHANGED <<svcs, flight, dead, lost>> /\ MlUnchanged

(* ForwardService to the peers of the route: the Api service is told of    *)
(* the peers that are missing.  A write service found ended in error is    *)
(* told too; removing its stream then panics.                              *)
(* Mutant: the peers missing are not told. *)
ForwardService_silent ==
  /\ FromMl("ForwardService") /\ UNCHANGED <<svcs, apiq, dead, lost>> /\ MlUnchanged
  /\ flight' = [flight EXCEPT ![Head(mlq).c] =
                  @ + IF Head(mlq).n < conf.peers THEN Head(mlq).n ELSE conf.peers]

ForwardService ==
  /\ FromMl("ForwardService") /\ UNCHANGED svcs /\ MlUnchanged
  /\ LET m   == Head(mlq)
         nb_ok == IF m.n < conf.peers THEN m.n ELSE conf.peers
         q   == IF nb_ok < m.n /\ qid[m.c] /= None
                THEN Append(apiq, Cmd("Adjust", m.c, m.n - nb_ok)) ELSE apiq
     IN \/ /\ apiq' = q /\ UNCHANGED <<dead, lost>>
           /\ flight' = [flight EXCEPT ![m.c] = @ + nb_ok]
        \/ \E k \in 1..nb_ok :
             /\ conf.fail /\ dead' = TRUE
             /\ apiq' = IF qid[m.c] = None THEN q ELSE Append(q, Cmd("Failure", m.c, 0))
             /\ flight' = [flight EXCEPT ![m.c] = @ + k - 1]
             /\ lost' = [lost EXCEPT ![m.c] = @ + nb_ok - k]

(* ProxyGlobal and PeerStore: to the service. *)
ToService ==
  /\ FromMl("ProxyGlobal") \/ FromMl("PeerStore")
  /\ svcs' = svcs \cup {Head(mlq)}
  /\ UNCHANGED <<apiq, flight, dead, lost>> /\ MlUnchanged

(* TryConnect: an address of the address cache is not tried again, and its *)
(* query is not answered; else the challenge holds the query id.           *)
TryConnect ==
  /\ FromMl("TryConnect")
  /\ LET c == Head(mlq).c IN
     IF c \in conf.cached
     THEN lost' = [lost EXCEPT ![c] = @ + 1] /\ UNCHANGED flight
     ELSE flight' = [flight EXCEPT ![c] = @ + 1] /\ UNCHANGED lost
  /\ UNCHANGED <<apiq, svcs, dead>> /\ MlUnchanged

ProxyApiReply ==
  /\ FromMl("ProxyApiReply")
  /\ apiq' = Append(apiq, MCReply("ServiceReply", Head(mlq).c))
  /\ UNCHANGED <<svcs, flight, dead, lost>> /\ MlUnchanged

-----------------------------------------------------------------------------
(* Answers on their way to the Api service: by its handle when the service *)
(* has one, else through the main loop.                                    *)
answer(q, c) ==
  IF qid[c] = None THEN q
  ELSE IF conf.direct THEN [q EXCEPT !.api = Append(@, MCReply("ServiceReply", c))]
  ELSE [q EXCEPT !.ml = Append(@, MCReply("ProxyApiReply", c))]

Queues == [api |-> apiq, ml |-> mlq]
SetQueues(q) == apiq' = q.api /\ mlq' = q.ml
SvcUnchanged ==
  UNCHANGED <<conf, sent, phase, one, woken, taken, cache, counter, qid, dead, ko, done>>

(* The global service of the tests answers TouchQ itself and forwards it   *)
(* nb_for times to one peer; the peer store answers a find.  GlobalDest    *)
(* sends the parts of a Mult one after the other.                          *)
GlobalReply(m) ==
  IF m.t = "ProxyGlobal" THEN [i \in 1..conf.nb_for[m.c] |-> Cmd("ForwardService", m.c, 1)]
  ELSE <<>>

Service ==
  \E m \in svcs :
    /\ svcs' = svcs \ {m}
    /\ LET q == answer(Queues, m.c) IN SetQueues([q EXCEPT !.ml = @ \o GlobalReply(m)])
    /\ UNCHANGED <<flight, lost>> /\ SvcUnchanged

(* A peer answers a copy of the command, or the challenge of TryConnect is *)
(* answered and the main loop itself tells the Api service.                *)
Answer(c) ==
  /\ flight[c] > 0 /\ flight' = [flight EXCEPT ![c] = @ - 1]
  /\ IF conf.kind[c] = "TryConnect"
     THEN ~dead /\ apiq' = Append(apiq, MCReply("ServiceReply", c)) /\ UNCHANGED mlq
     ELSE SetQueues(answer(Queues, c))
  /\ UNCHANGED <<svcs, lost>> /\ SvcUnchanged

Lose(c) ==
  /\ conf.lose /\ flight[c] > 0 /\ flight' = [flight EXCEPT ![c] = @ - 1]
  /\ lost' = [lost EXCEPT ![c] = @ + 1]
  /\ UNCHANGED <<svcs, apiq, mlq>> /\ SvcUnchanged

-----------------------------------------------------------------------------
(* The Api service. *)

(* Mutant of api_return: the counters are left at zero once complete. *)
api_return_no_reset(o, rep) ==
  LET res == IF rep = NoResult THEN o.res ELSE o.res - 1
      err == o.err - 1
  IN [got |-> o.got \o rep, res |-> res, err |-> err, flag |-> o.flag \/ res = 0 \/ err = 0]

(* ApiReturn::api_return on a OneResult; a reply or NoResult. *)
api_return(o, rep) ==
  LET res == IF rep = NoResult THEN o.res ELSE o.res - 1
      err == o.err - 1
      complete == res = 0 \/ err = 0
  IN [got  |-> o.got \o rep,
      res  |-> IF complete THEN 1 ELSE res,
      err  |-> IF complete THEN 1 ELSE err,
      flag |-> o.flag \/ complete]

(* What api_return returns: it has notified. *)
returns(o, rep) == o.err = 1 \/ (rep /= NoResult /\ o.res = 1)

FromApi(t) == apiq /= <<>> /\ Head(apiq).t = t

(* Mutant of ServiceCommand: the counter is not incremented. *)
ServiceCommand_same_id ==
  /\ FromApi("ServiceCommand") /\ apiq' = Tail(apiq)
  /\ LET c == Head(apiq).c IN
     /\ qid' = [qid EXCEPT ![c] = 1] /\ UNCHANGED counter
     /\ \E t \in Client : /\ c \in Range(conf.prog[t])
                          /\ cache' = cache \cup {[id |-> 1, ret |-> t]}
     /\ mlq' = Append(mlq, dispatch(c))
  /\ UNCHANGED <<conf, sent, phase, one, woken, taken, svcs, flight, dead, ko, done, lost>>

(* ServiceCommand: a new query id, the caller's OneResult in the cache.    *)
ServiceCommand ==
  /\ FromApi("ServiceCommand") /\ apiq' = Tail(apiq)
  /\ LET c == Head(apiq).c IN
     /\ counter' = counter + 1 /\ qid' = [qid EXCEPT ![c] = counter + 1]
     /\ \E t \in Client : /\ c \in Range(conf.prog[t])
                          /\ cache' = cache \cup {[id |-> counter + 1, ret |-> t]}
     /\ mlq' = Append(mlq, dispatch(c))
  /\ UNCHANGED <<conf, sent, phase, one, woken, taken, svcs, flight, dead, ko, done, lost>>

(* One answer for call c: api_return on the entry of its query id, if any, *)
(* which is removed when the answer completes it.                          *)
give(c, rep, last) ==
  /\ done' = [done EXCEPT ![c] = @ + 1]
  /\ \/ /\ \A e \in cache : e.id /= ReplyId(c)
        /\ UNCHANGED <<one, woken, cache, ko>>
     \/ \E e \in cache :
          LET t == e.ret
              notify == returns(one[t], rep) IN
          /\ e.id = ReplyId(c)
          /\ one' = [one EXCEPT ![t] = api_return(@, rep)]
          /\ ko' = IF rep = NoResult THEN [ko EXCEPT ![t] = @ + 1] ELSE ko
          /\ woken' = IF notify /\ phase[t] = "waiting" THEN woken \cup {t} ELSE woken
          /\ cache' = IF notify /\ last THEN cache \ {e} ELSE cache
  /\ UNCHANGED <<conf, sent, phase, taken, mlq, svcs, counter, qid, flight, dead, lost>>

ServiceReply == FromApi("ServiceReply") /\ apiq' = Tail(apiq)
                /\ give(Head(apiq).c, <<Head(apiq).c>>, TRUE)

Failure == FromApi("Failure") /\ apiq' = Tail(apiq) /\ give(Head(apiq).c, NoResult, TRUE)

(* Mutant of Adjust: one failure whatever the number. *)
Adjust_once == FromApi("Adjust") /\ apiq' = Tail(apiq) /\ give(Head(apiq).c, NoResult, TRUE)

(* Adjust: one NoResult for each missing peer; the OneResult is locked for *)
(* each of them, so a thread may take its results in between.              *)
Adjust ==
  /\ FromApi("Adjust")
  /\ LET m == Head(apiq) IN
     /\ apiq' = IF m.n <= 1 THEN Tail(apiq)
                ELSE <<Cmd("Adjust", m.c, m.n - 1)>> \o Tail(apiq)
     /\ give(m.c, NoResult, m.n <= 1)

-----------------------------------------------------------------------------
MainLoop == ForwardApi \/ ForwardService \/ ToService \/ TryConnect \/ ProxyApiReply
ApiService == ServiceCommand \/ ServiceReply \/ Failure \/ Adjust

Next ==
  \/ \E t \in Client : DHTIn_send(t) \/ clone_wait(t) \/ Notified(t) \/ Spurious(t)
  \/ MainLoop \/ ApiService \/ Service
  \/ \E c \in Call : Answer(c) \/ Lose(c)

Spec == Init /\ [][Next]_vars

(* The threads and services run; peers answer unless they are lost. *)
Fairness ==
  /\ \A t \in Client : WF_vars(DHTIn_send(t)) /\ WF_vars(clone_wait(t)) /\ WF_vars(Notified(t))
  /\ WF_vars(MainLoop) /\ WF_vars(ApiService) /\ WF_vars(Service)
  /\ \A c \in Call : WF_vars(Answer(c))

FairSpec == Spec /\ Fairness

-----------------------------------------------------------------------------
(* The shapes of the state.  The counters of a OneResult are never zero    *)
(* between two answers: api_return subtracts from unsigned counters.       *)
TypeOK ==
  /\ conf \in Confs /\ sent \in [Client -> Nat]
  /\ phase \in [Client -> {"calling", "waiting", "returned"}]
  /\ one \in [Client -> [got : Seq(Call), res : Nat \ {0}, err : Nat \ {0}, flag : BOOLEAN]]
  /\ woken \subseteq Client /\ taken \subseteq Client \X Nat
  /\ mlq \in Seq(Msg) /\ apiq \in Seq(Msg) /\ svcs \subseteq Msg
  /\ cache \subseteq [id : Nat, ret : Client] /\ counter \in Nat
  /\ qid \in [Call -> Nat] /\ flight \in [Call -> Nat] /\ dead \in BOOLEAN
  /\ ko \in [Client -> Nat] /\ done \in [Call -> Nat] /\ lost \in [Call -> Nat]

(* The answers that a call, a message and a channel stand for in           *)
(* configuration k.                                                        *)
Total(k, c) == CASE k.kind[c] = "Local"  -> k.nb_for[c]
                 [] k.kind[c] = "Global" -> 1 + k.nb_for[c]
                 [] OTHER                -> 1
Weight(k, m) ==
  CASE m.t \in {"ForwardService", "Adjust"} -> m.n
    [] m.t \in {"ForwardApi", "ProxyGlobal", "PeerStore", "ServiceCommand"} -> Total(k, m.c)
    [] OTHER -> 1
WeightFor(k, c, m) == IF m.c = c THEN Weight(k, m) ELSE 0
SumSeq(w) ==
  LET S[i \in 0..Len(w)] == IF i = 0 THEN 0 ELSE S[i - 1] + w[i] IN S[Len(w)]
Pending(k, c, q) == SumSeq([i \in DOMAIN q |-> WeightFor(k, c, q[i])])
Held(k, c, s) == IF \E m \in s : m.c = c THEN Total(k, c) ELSE 0

(* Answers to c handled, lost and on their way. *)
Owed(c) == done[c] + lost[c] + flight[c] + Pending(conf, c, mlq) + Pending(conf, c, apiq)
             + Held(conf, c, svcs)

(* Every command sent is owed as many answers as peers and services are to *)
(* give: handled, on their way, or lost for a reason the code has (a peer, *)
(* a panic of the main loop, an address already connected); the peers that *)
(* a forward misses are counted by Adjust (procs/api.rs, mainloop.rs).     *)
Accounted ==
  \A t \in Client : \A i \in 1..sent[t] :
    LET c == conf.prog[t][i] IN conf.reply[c] => Owed(c) = Total(conf, c)

(* A thread gets answers to its own commands: the ids of the Api service   *)
(* are not shared, and one that is no longer used stays unused.  The only  *)
(* answer of another thread it may get is one of a find that the main loop *)
(* answers from peer_cache: it carries the id that the caller wrote in the *)
(* command (FindLocally, or Find with Some(id) for one result), and that   *)
(* may be an id the service has given.                                     *)
OwnAnswers ==
  \A t \in Client : \A c \in Range(one[t].got) :
    c \in Range(conf.prog[t]) \/ (Shortcut(c) /\ conf.aqid[c] \in 1..counter)

Abs == INSTANCE Completion WITH
         lim <- conf.lim, ok <- [t \in Client |-> Len(one[t].got)], ko <- ko, ret <- taken

(* The api implements Completion: counting down with counters that are set *)
(* to one once complete, and waking with a flag, gives a thread its        *)
(* results once, with enough answers counted.                              *)
Refines == Abs!Spec

Answering(t) == /\ ~conf.lose /\ ~conf.fail /\ conf.prog[t] /= <<>>
                /\ \A c \in Range(conf.prog[t]) : c \notin conf.cached /\ conf.reply[c]

(* A thread that waits before its OneResult is complete is woken and       *)
(* returns, when its peers answer and its commands are not of the kinds    *)
(* that are dropped.                                                       *)
Answered ==
  \A t \in Client : (phase[t] = "waiting" /\ ~Abs!Complete(t) /\ Answering(t))
                      ~> phase[t] = "returned"

(* Every thread that sends commands its peers answer returns from its wait *)
(* (clone_wait_one_result after each api call of the tests).               *)
WaitEnds == \A t \in Client : (phase[t] = "calling" /\ Answering(t)) ~> phase[t] = "returned"
=============================================================================
