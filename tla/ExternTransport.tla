-------------------------- MODULE ExternTransport --------------------------
(***************************************************************************)
(* mydht-externtransport: a transport whose channels are those of a host   *)
(* (webrtc in a browser), under the event loop of TestService over a       *)
(* UserPoll.  Two peers, each a single thread that the host calls: it runs *)
(* the service until it yields (restore), or one of the callbacks that     *)
(* change the state of a channel and make its registrations ready.         *)
(*                                                                         *)
(* A channel has two ends, each with its TransportState; an end has a read *)
(* and a write stream, or one of them when connections are not multiplexed *)
(* (mult).  The host carries bytes in order; it may tell the two ends that *)
(* a channel is open in any order, refuse to take more bytes for a while,  *)
(* fail to connect, and close a channel.                                   *)
(***************************************************************************)
EXTENDS Naturals, Sequences, SequencesExt

CONSTANT
  XConfs    \* configurations considered, see xconf

VARIABLES
  xconf,    \* mult; msgs: the messages a peer is told to send, whose bytes are numbered
            \* from 1 through all of its messages;
            \* write_buf; cap: bytes the host takes before it blocks;
            \* connects: test_connect_to is used;
            \* fails: the host fails to connect or closes channels
  xn,       \* the service of each peer
  xch,      \* the channels, in the order of query_new_channel
  xtold     \* number of messages each peer was told to send

xvars == <<xconf, xn, xch, xtold>>

XPeer == 1..2
Other(p) == 3 - p
Listener == 1
EVENTS_POLL_SIZE == 5

TransportState == {"Querying", "CouldNotConnect", "Connected", "Closed", "WriteError", "ReadError"}

(* A stream of the slab: queue and last_ix are those of SlabEntry::Write. *)
SlabEntry(kind, ch) == [kind |-> kind, ch |-> ch, queue |-> <<>>, last_ix |-> 0]

Ready(kind) == IF kind = "Write" THEN "Writable" ELSE "Readable"

(* run: "yield", taking commands, polling, or "dead" after an error. *)
start_service ==
  [slab |-> <<SlabEntry("Listener", 0)>>, dest |-> 0, cmds |-> <<>>, got |-> <<>>, pend |-> <<>>,
   queue |-> <<[kind |-> "Readable", token |-> Listener]>>, events |-> <<>>, run |-> "command",
   writing |-> 0]

XInit ==
  /\ xconf \in XConfs
  /\ xn = [p \in XPeer |-> start_service] /\ xch = <<>> /\ xtold = [p \in XPeer |-> 0]

-----------------------------------------------------------------------------
(* UserPoll: readiness of a registered stream, for the one interest that it  *)
(* was registered with.                                                      *)
set_readiness(s, tok, ready) ==
  IF Ready(s.slab[tok].kind) = ready
  THEN [s EXCEPT !.queue = <<[kind |-> ready, token |-> tok]>> \o @] ELSE s

(* The stream of a channel with that interest, if the peer has it. *)
Trigger(s, c, ready) ==
  LET toks == {tok \in DOMAIN s.slab : s.slab[tok].ch = c /\ Ready(s.slab[tok].kind) = ready}
  IN IF toks = {} THEN s ELSE set_readiness(s, CHOOSE tok \in toks : TRUE, ready)

(* Mutant: registration triggers no event. *)
Insert_silent(s, kind, c) ==
  LET tok == Len(s.slab) + 1
  IN [s EXCEPT !.slab = Append(@, SlabEntry(kind, c)), !.dest = IF kind = "Write" THEN tok ELSE @]

(* Insertion in the slab, and registration, which also triggers an event. *)
Insert(s, kind, c) ==
  LET tok == Len(s.slab) + 1
      t == [s EXCEPT !.slab = Append(@, SlabEntry(kind, c)),
                     !.dest = IF kind = "Write" THEN tok ELSE @]
  IN set_readiness(t, tok, Ready(kind))

insert_channels(s, c, is_read) ==
  LET t == IF is_read \/ xconf.mult THEN Insert(s, "Read", c) ELSE s
  IN IF ~is_read \/ xconf.mult THEN Insert(t, "Write", c) ELSE t

-----------------------------------------------------------------------------
(* The service.  A step of peer p computes its state s and the channels chs. *)
Run(p, s, chs) == xn' = [xn EXCEPT ![p] = s] /\ xch' = chs /\ UNCHANGED <<xconf, xtold>>

(* An error of call_inner ends the service, its other channels included. *)
Error(s) == [s EXCEPT !.run = "dead", !.writing = 0]

(* ExtTransport::connectwith *)
NewChannel(p) ==
  [from |-> p, state |-> [e \in XPeer |-> "Querying"], up |-> FALSE, offered |-> FALSE,
   wire |-> [e \in XPeer |-> <<>>], inbuf |-> [e \in XPeer |-> <<>>], full |-> [e \in XPeer |-> FALSE]]

(* What the host may answer a call of write (SendResult) or read            *)
(* (RecvResult), and what the stream makes of the state of its channel.      *)
SendResult(p, c) ==
  IF Len(xch[c].wire[p]) >= xconf.cap THEN {"WouldBlock"}
  ELSE {"Success"} \cup IF xconf.fails THEN {"NetworkError"} ELSE {}

RecvResult == {"Success"} \cup IF xconf.fails THEN {"InvalidStateError"} ELSE {}

StreamResult(state, host) ==
  CASE state = "Querying" -> {"WouldBlock"} [] state = "Connected" -> host [] OTHER -> {"NotConnected"}

write(p, c) == StreamResult(xch[c].state[p], SendResult(p, c))
read(p, c) == StreamResult(xch[c].state[p], RecvResult)

(* Mutant: a piece is written again after the stream would block. *)
write_data_again(p) ==
  LET s == xn[p]
      tok == s.writing
      w == s.slab[tok]
      data == Head(w.queue)
      e == IF w.last_ix + xconf.write_buf < Len(data) THEN w.last_ix + xconf.write_buf ELSE Len(data)
      Stop == [s EXCEPT !.writing = 0]
  IN /\ s.writing # 0
     /\ IF w.queue = <<>> THEN Run(p, Stop, xch)
        ELSE IF w.last_ix = Len(data)
        THEN Run(p, [s EXCEPT !.slab[tok] = [@ EXCEPT !.queue = Tail(@), !.last_ix = 0]], xch)
        ELSE \E r \in write(p, w.ch) :
               CASE r = "Success" ->
                      Run(p, [s EXCEPT !.slab[tok].last_ix = e],
                          [xch EXCEPT ![w.ch].wire[p] = @ \o SubSeq(data, w.last_ix + 1, e)])
                 [] r = "WouldBlock" ->
                      Run(p, [Stop EXCEPT !.slab[tok].last_ix = 0],
                          [xch EXCEPT ![w.ch].full[p] = xch[w.ch].state[p] = "Connected"])
                 [] r = "NetworkError" -> Run(p, Error(s), [xch EXCEPT ![w.ch].state[p] = "WriteError"])
                 [] OTHER -> Run(p, Error(s), xch)

(* write_data, for the stream of token writing: one more piece with each     *)
(* call of write, then the next message of the queue, until the stream would *)
(* block.                                                                    *)
write_data(p) ==
  LET s == xn[p]
      tok == s.writing
      w == s.slab[tok]
      data == Head(w.queue)
      e == IF w.last_ix + xconf.write_buf < Len(data) THEN w.last_ix + xconf.write_buf ELSE Len(data)
      Stop == [s EXCEPT !.writing = 0]
  IN /\ s.writing # 0
     /\ IF w.queue = <<>> THEN Run(p, Stop, xch)
        ELSE IF w.last_ix = Len(data)
        THEN Run(p, [s EXCEPT !.slab[tok] = [@ EXCEPT !.queue = Tail(@), !.last_ix = 0]], xch)
        ELSE \E r \in write(p, w.ch) :
               CASE r = "Success" ->
                      Run(p, [s EXCEPT !.slab[tok].last_ix = e],
                          [xch EXCEPT ![w.ch].wire[p] = @ \o SubSeq(data, w.last_ix + 1, e)])
                 [] r = "WouldBlock" ->
                      Run(p, Stop, [xch EXCEPT ![w.ch].full[p] = xch[w.ch].state[p] = "Connected"])
                 [] r = "NetworkError" -> Run(p, Error(s), [xch EXCEPT ![w.ch].state[p] = "WriteError"])
                 [] OTHER -> Run(p, Error(s), xch)

(* A command, and with none TestCommand::None, which polls.  SendTo connects *)
(* first when there is no stream to write to.                                *)
Command(p) ==
  LET s == xn[p]
      known == s.dest # 0
      chs == IF known THEN xch ELSE Append(xch, NewChannel(p))
      t == IF known THEN s ELSE insert_channels(s, Len(chs), FALSE)
  IN /\ s.run = "command" /\ s.writing = 0
     /\ IF s.cmds = <<>> THEN Run(p, [s EXCEPT !.run = "poll"], xch)
        ELSE IF Head(s.cmds) = <<>> \* ConnectWith
        THEN Run(p, insert_channels([s EXCEPT !.cmds = Tail(@)], Len(xch) + 1, FALSE), Append(xch, NewChannel(p)))
        ELSE Run(p, [t EXCEPT !.cmds = Tail(@), !.slab[t.dest].queue = Append(@, Head(s.cmds)),
                              !.writing = t.dest], chs)

(* UserPoll::poll, which yields when there is no event. *)
Poll(p) ==
  LET s == xn[p]  n == Len(s.queue)  k == IF n < EVENTS_POLL_SIZE THEN n ELSE EVENTS_POLL_SIZE
  IN /\ s.run = "poll" /\ s.writing = 0 /\ s.events = <<>>
     /\ Run(p, IF n = 0 THEN [s EXCEPT !.run = "yield"]
               ELSE [s EXCEPT !.queue = SubSeq(@, 1, n - k), !.events = SubSeq(s.queue, n - k + 1, n)], xch)

(* ExtTransport::accept: one of the channels the host holds, or would block. *)
accept(p, s) ==
  IF s.pend = <<>> THEN Run(p, s, xch)
  ELSE LET c == Head(s.pend)
       IN Run(p, insert_channels([s EXCEPT !.pend = Tail(@)], c, TRUE),
              [xch EXCEPT ![c].state[p] = IF @ = "Querying" THEN "Connected" ELSE @])

(* read_data reads to the end of what there is. *)
read_data(p, s, c) ==
  \E r \in read(p, c) :
    CASE r = "Success" ->
           Run(p, [s EXCEPT !.got = @ \o xch[c].inbuf[p]], [xch EXCEPT ![c].inbuf[p] = <<>>])
      [] r = "WouldBlock" -> Run(p, s, xch)
      [] r = "InvalidStateError" -> Run(p, Error(s), [xch EXCEPT ![c].state[p] = "ReadError"])
      [] OTHER -> Run(p, Error(s), xch)

HandleEvent(p) ==
  /\ xn[p].run = "poll" /\ xn[p].writing = 0 /\ xn[p].events # <<>>
  /\ LET ev == Last(xn[p].events)
         s == [xn[p] EXCEPT !.events = Front(@)]
         entry == s.slab[ev.token]
     IN CASE entry.kind = "Listener" -> accept(p, s)
          [] entry.kind = "Read" -> read_data(p, s, entry.ch)
          [] OTHER -> Run(p, [s EXCEPT !.writing = ev.token], xch)

-----------------------------------------------------------------------------
(* The host.  Its calls of a peer come while the service of the peer is not  *)
(* running.                                                                  *)
Callable(p) == xn[p].run = "yield"
Host == UNCHANGED <<xconf, xtold>>

restore(p) ==
  /\ Callable(p) /\ (xn[p].queue # <<>> \/ xn[p].cmds # <<>>)
  /\ xn' = [xn EXCEPT ![p].run = "command"]
  /\ UNCHANGED xch /\ Host

(* test_connect_to, which is never needed, and test_send_to.                 *)
test_connect_to(p) ==
  /\ Callable(p) /\ xconf.connects /\ xtold[p] = 0 /\ xch = <<>> /\ xn[p].cmds = <<>>
  /\ xn' = [xn EXCEPT ![p].cmds = Append(@, <<>>)]
  /\ UNCHANGED xch /\ Host

test_send_to(p) ==
  /\ Callable(p) /\ xtold[p] < Len(xconf.msgs[p])
  /\ xtold' = [xtold EXCEPT ![p] = @ + 1]
  /\ xn' = [xn EXCEPT ![p].cmds = Append(@, xconf.msgs[p][xtold[p] + 1])]
  /\ UNCHANGED <<xconf, xch>>

change_state_and_trigger(p, c, new) ==
  /\ Callable(p)
  /\ xch' = [xch EXCEPT ![c].state[p] = new, ![c].up = @ \/ p = xch[c].from]
  /\ xn' = [xn EXCEPT ![p] = Trigger(Trigger(@, c, "Readable"), c, "Writable")]
  /\ Host

connect_success(c) == ~xch[c].up /\ change_state_and_trigger(xch[c].from, c, "Connected")

connect_fail(c) ==
  /\ xconf.fails /\ ~xch[c].up /\ ~xch[c].offered
  /\ change_state_and_trigger(xch[c].from, c, "CouldNotConnect")

connect_close(c, p) ==
  /\ xconf.fails /\ xch[c].state[p] = "Connected"
  /\ change_state_and_trigger(p, c, "Closed")

(* The other end: the channel is kept for accept. *)
receive_connect(c) ==
  LET p == Other(xch[c].from)
  IN /\ Callable(p) /\ ~xch[c].offered /\ xch[c].state[xch[c].from] # "CouldNotConnect"
     /\ xch' = [xch EXCEPT ![c].offered = TRUE]
     /\ xn' = [xn EXCEPT ![p] = set_readiness([@ EXCEPT !.pend = Append(@, c)], Listener, "Readable")]
     /\ Host

(* Bytes arrive at p; there is a trigger once p has its end of the channel. *)
trigger_read(c, p) ==
  /\ Callable(p) /\ xch[c].wire[Other(p)] # <<>> /\ (xch[c].offered \/ p = xch[c].from)
  /\ xch' = [xch EXCEPT ![c].inbuf[p] = Append(@, Head(xch[c].wire[Other(p)])),
                        ![c].wire[Other(p)] = Tail(@)]
  /\ xn' = [xn EXCEPT ![p] = Trigger(@, c, "Readable")]
  /\ Host

(* The host takes bytes of p again. *)
trigger_write(c, p) ==
  /\ Callable(p) /\ xch[c].full[p] /\ Len(xch[c].wire[p]) < xconf.cap
  /\ xch' = [xch EXCEPT ![c].full[p] = FALSE]
  /\ xn' = [xn EXCEPT ![p] = Trigger(@, c, "Writable")]
  /\ Host

Service(p) == write_data(p) \/ Command(p) \/ Poll(p) \/ HandleEvent(p) \/ restore(p)

Carry(c) ==
  \/ connect_success(c) \/ receive_connect(c)
  \/ \E p \in XPeer : trigger_read(c, p) \/ trigger_write(c, p)

XNext ==
  \/ \E p \in XPeer : Service(p) \/ test_connect_to(p) \/ test_send_to(p)
  \/ \E c \in DOMAIN xch : Carry(c) \/ connect_fail(c) \/ \E p \in XPeer : connect_close(c, p)

(* Every message is told, the host runs a service that was made ready, and   *)
(* carries what it took.                                                     *)
XFairness ==
  /\ \A p \in XPeer : WF_xvars(Service(p)) /\ SF_xvars(test_send_to(p))
  /\ \A c \in 1..3 : SF_xvars(c \in DOMAIN xch /\ Carry(c))

XSpec == XInit /\ [][XNext]_xvars /\ XFairness

-----------------------------------------------------------------------------
Total(msgs) == LET T[n \in 0..Len(msgs)] == IF n = 0 THEN 0 ELSE T[n - 1] + Len(msgs[n]) IN T[Len(msgs)]

XTypeOK ==
  /\ \A p \in XPeer :
       /\ xn[p].run \in {"yield", "command", "poll", "dead"} /\ xn[p].dest \in 0..Len(xn[p].slab)
       /\ Len(xn[p].events) <= EVENTS_POLL_SIZE
       /\ \A e \in ToSet(xn[p].queue) : e.token \in DOMAIN xn[p].slab
  /\ \A c \in DOMAIN xch : \A p \in XPeer : xch[c].state[p] \in TransportState

(* One connection, or one per direction. *)
Single == ~xconf.mult \/ (~xconf.connects /\ \E p \in XPeer : xconf.msgs[p] = <<>>)

(* A peer reads what the other was told to send, in that order and without  *)
(* gaps, whatever the order of callbacks; the assertion of TestService on   *)
(* what it expects.                                                         *)
XInOrder ==
  Single => \A p \in XPeer :
    /\ \A i \in DOMAIN xn[p].got : xn[p].got[i] = i
    /\ Len(xn[p].got) <= Total(SubSeq(xconf.msgs[Other(p)], 1, xtold[Other(p)]))

(* Unless the host fails, all of it is read in the end, on whichever        *)
(* channels: no event that a stream waits for is lost, be it readable       *)
(* before it is accepted, writable before it is connected, or blocked.      *)
Received == xconf.fails \/ (\A p \in XPeer : Len(xn[p].got) = Total(xconf.msgs[Other(p)]))

XDelivered == <>Received
=============================================================================
