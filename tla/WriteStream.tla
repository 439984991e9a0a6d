----------------------------- MODULE WriteStream -----------------------------
(***************************************************************************)
(* One write slab entry of the main loop together with the write service   *)
(* spawned on it (procs/mainloop.rs write_stream_send2, the writable event *)
(* of inner_main_loop and ConnectedW; procs/client2.rs WriteService).      *)
(*                                                                         *)
(* The entry is WriteConnectSynch or WriteStream(.., false) while ~conn,   *)
(* WriteStream(.., true) while conn /\ svc = "none", and WriteSpawned      *)
(* afterwards.  chan is the channel of the entry.  A service spawned with  *)
(* a first command c on a channel q consumes c and then q, so spawning is  *)
(* written chan' = <<c>> \o q.                                             *)
(***************************************************************************)
EXTENDS Naturals, Sequences, Functions

CONSTANTS
  Svc,        \* service commands the main loop may address to this stream
  Confs       \* the streams and configurations considered, see the variables

ASSUME WriteStreamAssumption ==
  /\ {"Ping", "Pong"} \cap Svc = {}
  /\ Confs \subseteq [role : {"init", "resp", "noauth"}, nb_iter : Nat,
                      once : BOOLEAN, may_fail : BOOLEAN, has_connect : BOOLEAN]

Command == Svc \cup {"Ping", "Pong"}

VARIABLES
  role,      \* who opened the stream: "init" pings, "resp" pongs, "noauth"
  nb_iter,   \* MyDHTConf::SEND_NB_ITER, 0 for a service that never returns
  once,      \* the stream of a ForwardServiceOnce: its first command is sent with
             \* not_write_once false
  may_fail,  \* the transport may refuse a write
  conn,      \* has_connect
  chan,      \* commands waiting for the service, oldest first
  svc,       \* "none", "run", "end" (returned), "fail" (returned an error), "panic"
  left,      \* iterations the running service may still do
  shut,      \* WriteServiceInner.shut_after_first
  with,      \* WriteServiceInner.with is set
  buff,      \* WriteServiceInner.buff_msgs, oldest first
  wire,      \* messages written on the stream, oldest first
  sent,      \* history: commands given to write_stream_send, in order
  lost,      \* history: the command whose write failed, and the one behind it
  reported,  \* history: commands answered by ApiCommand::Failure
  spawnAt    \* history: Len(sent) when the service was first spawned

conf == <<role, nb_iter, once, may_fail>>

vars == <<conf, conn, chan, svc, left, shut, with, buff, wire, sent, lost, reported, spawnAt>>

Init ==
  /\ \E k \in Confs :
       /\ role = k.role /\ nb_iter = k.nb_iter /\ once = k.once /\ may_fail = k.may_fail
       /\ conn = k.has_connect  \* the write half of an accepted connection, or a
                                \* stream that the poll does not register
  /\ svc = "none" /\ left = 0
  /\ shut = FALSE /\ with = FALSE
  /\ chan = <<>> /\ buff = <<>> /\ wire = <<>> /\ sent = <<>>
  /\ lost = {} /\ reported = {}
  /\ spawnAt = 0

-----------------------------------------------------------------------------
(* What the main loop may address to the stream, and when.  The handler    *)
(* that opens an authenticated stream sends its Ping (or Pong) before any  *)
(* other handler runs; the initiator's Pong answers a message that the     *)
(* other peer sends after reading the Ping.                                *)
Addressable(c) ==
  /\ c \notin Range(sent)
  /\ \/ c = "Ping" /\ role = "init" /\ sent = <<>>
     \/ c = "Pong" /\ role = "init" /\ "Ping" \in Range(wire)
     \/ c = "Pong" /\ role = "resp" /\ sent = <<>>
     \/ /\ c \in Svc
        /\ role = "noauth" \/ sent /= <<>>
        /\ once => Range(sent) \cap Svc = {}

(* Mutant of spawn: one iteration more than SEND_NB_ITER. *)
spawn_one_more(cs) ==
  /\ chan' = cs
  /\ svc' = "run"
  /\ left' = nb_iter + 1
  /\ spawnAt' = IF svc = "none" THEN Len(sent') ELSE spawnAt

spawn(cs) ==
  /\ chan' = cs
  /\ svc' = "run"
  /\ left' = nb_iter
  /\ spawnAt' = IF svc = "none" THEN Len(sent') ELSE spawnAt

(* write_stream_send2 on an entry that exists.  A service keeps the        *)
(* not_write_once of the command that spawns it; a write-once command to a *)
(* stream that is not connected yet is queued without it.                  *)
write_stream_send(c) ==
  /\ Addressable(c)
  /\ svc /= "panic"
  /\ sent' = Append(sent, c)
  /\ UNCHANGED <<conf, conn, with, buff, wire, lost>>
  /\ \/ /\ svc = "none" /\ conn
        /\ spawn(Append(chan, c))
        /\ shut' = (once /\ sent = <<>>)
        /\ UNCHANGED reported
     \/ /\ svc = "run" \/ (svc = "none" /\ ~conn)
        /\ chan' = Append(chan, c)
        /\ UNCHANGED <<svc, left, shut, reported, spawnAt>>
     \/ /\ svc = "end"
        /\ spawn(<<c>> \o chan)
        /\ UNCHANGED <<shut, reported>>
     \/ /\ svc = "fail"
        /\ svc' = "panic"
        /\ reported' = IF c \in Svc THEN reported \cup {c} ELSE reported
        /\ UNCHANGED <<chan, left, shut, spawnAt>>

(* First writable event on an asynchronous stream, or ConnectedW on a      *)
(* synchronous one: the oldest command is received from the channel and    *)
(* handed to write_stream_send, which puts it behind the others and spawns *)
(* a service that is not write-once.  On a spawned entry the event only    *)
(* unyields the service.  The handler that opens an authenticated or a     *)
(* write-once stream has already sent its first command.                   *)
connected ==
  /\ svc = "none"
  /\ conn' = TRUE
  /\ UNCHANGED <<conf, shut, with, buff, wire, sent, lost, reported>>
  /\ \/ /\ chan = <<>>
        /\ ~conn /\ role = "noauth" /\ ~once
        /\ UNCHANGED <<chan, svc, left, spawnAt>>
     \/ /\ chan /= <<>>
        /\ spawn(Append(Tail(chan), Head(chan)))

-----------------------------------------------------------------------------
(* WriteService: one iteration of the spawned service per command. *)
(* Mutant of authenticated: a message is written to a peer not known yet. *)
always_authenticated == TRUE

authenticated == role = "noauth" \/ with

iterate ==
  /\ svc = "run"
  /\ nb_iter = 0 \/ left > 0
  /\ chan /= <<>>
  /\ chan' = Tail(chan)
  /\ left' = IF nb_iter = 0 THEN 0 ELSE left - 1
  /\ UNCHANGED <<conf, conn, shut, sent, reported, spawnAt>>

ping ==
  /\ iterate
  /\ Head(chan) = "Ping"
  /\ wire' = Append(wire, "Ping")
  /\ UNCHANGED <<svc, with, buff, lost>>

(* Mutant of pong: the buffered messages are not flushed. *)
pong_keeps_buffer ==
  /\ iterate
  /\ Head(chan) = "Pong"
  /\ with' = TRUE
  /\ wire' = Append(wire, "Pong")
  /\ UNCHANGED <<svc, buff, lost>>

pong ==
  /\ iterate
  /\ Head(chan) = "Pong"
  /\ with' = TRUE
  /\ wire' = Append(wire, "Pong") \o buff
  /\ buff' = <<>>
  /\ UNCHANGED <<svc, lost>>

(* Mutant of service: buff_msgs filled and emptied at the same end. *)
service_buffers_lifo ==
  /\ iterate
  /\ Head(chan) \in Svc
  /\ IF ~authenticated
     THEN buff' = <<Head(chan)>> \o buff /\ wire' = wire
     ELSE buff' = <<>> /\ wire' = Append(wire \o buff, Head(chan))
  /\ UNCHANGED <<svc, with, lost>>

service ==
  /\ iterate
  /\ Head(chan) \in Svc
  /\ \/ /\ ~authenticated
        /\ buff' = Append(buff, Head(chan))
        /\ UNCHANGED <<svc, wire>>
     \/ /\ authenticated
        /\ wire' = Append(wire \o buff, Head(chan))
        /\ buff' = <<>>
        /\ svc' = IF shut THEN "end" ELSE svc
  /\ UNCHANGED <<with, lost>>

(* The spawner runs out of iterations: only then does is_finished become   *)
(* true, so a command sent between the last call and this step waits in    *)
(* the channel of a service that will not read it.                         *)
return ==
  /\ svc = "run" /\ nb_iter > 0 /\ left = 0
  /\ svc' = "end"
  /\ UNCHANGED <<conf, conn, chan, left, shut, with, buff, wire, sent, lost, reported, spawnAt>>

(* Mutant of write_error: the flush leaves the messages in buff_msgs, also *)
(* the ones it has written.                                                *)
write_error_keeps_buffer ==
  /\ may_fail
  /\ iterate
  /\ LET c == Head(chan) IN
     /\ \/ /\ c \in Svc => authenticated
           /\ wire' = IF c \in Svc THEN wire \o buff ELSE wire
           /\ buff' = IF c \in Svc THEN <<>> ELSE buff
           /\ lost' = lost \cup {c}
        \/ /\ c = "Pong" \/ (c \in Svc /\ authenticated)
           /\ \E i \in DOMAIN buff :
                /\ wire' = (IF c = "Pong" THEN Append(wire, c) ELSE wire) \o SubSeq(buff, 1, i - 1)
                /\ buff' = buff
                /\ lost' = lost \cup {buff[i]} \cup (IF c \in Svc THEN {c} ELSE {})
     /\ with' = (with \/ c = "Pong")
  /\ svc' = "fail"

(* A write error ends the service: on the message of the command, or on a  *)
(* message that debuff_msgs has popped, after those before it were written *)
(* and, when a pong was sent, after the pong.  The message is lost, and    *)
(* with it a service command that waited for the end of the flush.         *)
write_error ==
  /\ may_fail
  /\ iterate
  /\ LET c == Head(chan) IN
     /\ \/ /\ c \in Svc => authenticated
           /\ wire' = IF c \in Svc THEN wire \o buff ELSE wire
           /\ buff' = IF c \in Svc THEN <<>> ELSE buff
           /\ lost' = lost \cup {c}
        \/ /\ c = "Pong" \/ (c \in Svc /\ authenticated)
           /\ \E i \in DOMAIN buff :
                /\ wire' = (IF c = "Pong" THEN Append(wire, c) ELSE wire) \o SubSeq(buff, 1, i - 1)
                /\ buff' = SubSeq(buff, i + 1, Len(buff))
                /\ lost' = lost \cup {buff[i]} \cup (IF c \in Svc THEN {c} ELSE {})
     /\ with' = (with \/ c = "Pong")
  /\ svc' = "fail"

call == ping \/ pong \/ service \/ write_error

Next ==
  \/ \E c \in Command : write_stream_send(c)
  \/ connected
  \/ call
  \/ return

(* The poll reports a pending stream writable and the spawner keeps        *)
(* scheduling a service that has input; nothing forces the main loop to    *)
(* address one more command to the stream.                                 *)
Fairness == WF_vars(connected) /\ WF_vars(ping \/ pong \/ service) /\ WF_vars(return)

Spec == Init /\ [][Next]_vars
FairSpec == Spec /\ Fairness

-----------------------------------------------------------------------------
TypeOK ==
  /\ conn \in BOOLEAN /\ shut \in BOOLEAN /\ with \in BOOLEAN
  /\ chan \in Seq(Command) /\ buff \in Seq(Command)
  /\ wire \in Seq(Command) /\ sent \in Seq(Command)
  /\ svc \in {"none", "run", "end", "fail", "panic"}
  /\ nb_iter \in Nat /\ left \in 0..nb_iter
  /\ lost \subseteq Command /\ reported \subseteq Command
  /\ spawnAt \in Nat

NoRepeat(s) == \A i, j \in DOMAIN s : s[i] = s[j] => i = j

(* A command accepted by write_stream_send is in exactly one place: in the *)
(* channel, buffered by the write service until it knows its peer, or on   *)
(* the wire, where it appears once, also when a write fails in the middle  *)
(* of the flush of the buffer.  The only exceptions are the message whose  *)
(* write failed, with the command that waited behind it, and the command   *)
(* that met the failed service.                                            *)
EachCommandInOnePlace ==
  LET pipe == chan \o buff \o wire IN
  /\ NoRepeat(pipe)
  /\ Range(pipe) \cap lost = {}
  /\ Range(sent) \ (Range(pipe) \cup lost) \subseteq
        (IF svc = "panic" THEN {sent[Len(sent)]} ELSE {})
  /\ Range(pipe) \cup lost \subseteq Range(sent)

(* On an authenticated stream no service message precedes the Pong, and    *)
(* the Ping of an initiator precedes it: the reader on the other side      *)
(* decodes auth frames until the first PONG and service frames after it.   *)
ServiceAfterPong ==
  role /= "noauth" =>
    \A i \in DOMAIN wire :
      /\ wire[i] \in Svc => \E j \in 1..(i-1) : wire[j] = "Pong"
      /\ wire[i] = "Pong" /\ role = "init" => \E j \in 1..(i-1) : wire[j] = "Ping"

Before(s, c, d) == \E i, j \in DOMAIN s : s[i] = c /\ s[j] = d /\ i < j

(* Two service commands accepted once the service is spawned are written   *)
(* in the order they were accepted, provided the service never returns.    *)
OrderOnceSpawned ==
  LET late == {sent[i] : i \in (spawnAt+1)..Len(sent)} \cap Svc IN
  nb_iter = 0 /\ svc /= "none" =>
    \A c, d \in late : Before(sent, c, d) => ~Before(wire, d, c)

(* Every service command accepted by a stream whose authentication         *)
(* completes and whose writes succeed is eventually written, provided the  *)
(* service never returns (SEND_NB_ITER 0).                                 *)
AllWritten ==
  \A c \in Svc :
    ~may_fail /\ nb_iter = 0 /\ c \in Range(sent) /\ (role = "noauth" \/ "Pong" \in Range(sent))
      ~> c \in Range(wire)

=============================================================================
