--------------------------- MODULE LocalTransport ---------------------------
(***************************************************************************)
(* The transport between threads of one program (mydht-basetest,           *)
(* TransportTest): each transport has one channel on which all frames for  *)
(* it arrive, and accept hands each frame to the reader of its connection. *)
(*                                                                         *)
(* A managed transport has connections, opened by an empty frame; with     *)
(* multiplex a connection is read and written at both ends.  When it is    *)
(* not managed a frame is a message, and a reader of its own.              *)
(***************************************************************************)
EXTENDS Naturals, Sequences, SequencesExt

CONSTANT
  LConfs     \* configurations considered, see lconf

VARIABLES
  lconf,     \* multiplex, managed; conns: number of connections each transport
             \* opens; writes: number of frames written by each writer
  ldir,      \* recv: the frames on their way to each transport
  lcli,      \* cli_from and cli_with: at each transport, for each address, the
             \* readers of the connections it accepted and opened
  lwriters,  \* the LocalWriteStreams, in order of creation
  lreaders,  \* the LocalReadStreams
  lpanic     \* an assertion failed

lvars == <<lconf, ldir, lcli, lwriters, lreaders, lpanic>>

Address == 1..2
FrameLen == 2   \* bytes of a frame
Far(a) == 3 - a

(* A frame (addr, from, with, content).  Byte n of writer w is <<w, n>>. *)
Frame(w, content) == [addr |-> w.addr, from |-> w.from, with |-> w.with, content |-> content]

LocalWriteStream(a, from, with) == [addr |-> a, from |-> from, with |-> with, open |-> TRUE, nb |-> 0, sent |-> 0]

(* peer is the writer at the other end, 0 if not known yet. *)
LocalReadStream(a, buf, peer) == [at |-> a, chan |-> <<>>, buf |-> buf, open |-> TRUE, peer |-> peer, got |-> <<>>]

create_transport ==
  [a \in Address |-> [cli_from |-> [b \in Address |-> <<>>], cli_with |-> [b \in Address |-> <<>>]]]

LInit ==
  /\ lconf \in LConfs
  /\ ldir = [a \in Address |-> <<>>] /\ lcli = create_transport
  /\ lwriters = <<>> /\ lreaders = <<>> /\ lpanic = FALSE

-----------------------------------------------------------------------------
(* The reader of the connection is made even when it is not multiplexed, to  *)
(* keep the count of connections.                                            *)
connectwith(a) ==
  LET cur == lcli[a].cli_with[Far(a)]
      w == LocalWriteStream(a, IF lconf.managed THEN Len(cur) + 1 ELSE 0, 0)
  IN /\ Len(SelectSeq(lwriters, LAMBDA x : x.addr = a /\ x.with = 0)) < lconf.conns[a]
     /\ lwriters' = Append(lwriters, w)
     /\ IF lconf.managed
        THEN /\ lreaders' = Append(lreaders, LocalReadStream(a, <<>>, 0))
             /\ lcli' = [lcli EXCEPT ![a].cli_with[Far(a)] = Append(@, Len(lreaders) + 1)]
             /\ ldir' = [ldir EXCEPT ![Far(a)] = Append(@, Frame(w, <<>>))]
        ELSE UNCHANGED <<lreaders, lcli, ldir>>
     /\ UNCHANGED <<lconf, lpanic>>

Panic == lpanic' = TRUE /\ UNCHANGED <<lcli, lwriters, lreaders>>

(* A connection request: it must be the next one of its sender. *)
AcceptConnection(a, f) ==
  LET cur == lcli[a].cli_from[f.addr]
      nbcon == Len(cur) + 1
      opener == CHOOSE i \in DOMAIN lwriters : lwriters[i].addr = f.addr /\ lwriters[i].from = f.from
  IN IF f.with # 0 \/ ~lconf.managed \/ nbcon # f.from THEN Panic
     ELSE /\ lcli' = [lcli EXCEPT ![a].cli_from[f.addr] = Append(@, Len(lreaders) + 1)]
          /\ IF lconf.multiplex
             THEN /\ lwriters' = Append(lwriters, LocalWriteStream(a, 0, nbcon))
                  /\ lreaders' = Append([lreaders EXCEPT ![lcli[f.addr].cli_with[a][nbcon]].peer = Len(lwriters) + 1],
                                        LocalReadStream(a, <<>>, opener))
             ELSE lreaders' = Append(lreaders, LocalReadStream(a, <<>>, opener)) /\ UNCHANGED lwriters
          /\ UNCHANGED lpanic

(* Mutant: content for a connection that this transport opened is looked up  *)
(* among those it accepted.                                                  *)
AcceptContent_one_side(a, f) ==
  LET clis == lcli[a].cli_from[f.addr]
      nbcon == IF f.with = 0 THEN f.from ELSE f.with
  IN IF (f.with # 0 /\ f.from # 0) \/ (lconf.managed /\ nbcon \notin DOMAIN clis) THEN Panic
     ELSE /\ lreaders' = IF lconf.managed THEN [lreaders EXCEPT ![clis[nbcon]].chan = Append(@, f.content)]
                         ELSE Append(lreaders, LocalReadStream(a, f.content, f.content[1][1]))
          /\ UNCHANGED <<lcli, lwriters, lpanic>>

(* Content: for the reader of the connection, or a reader of its own. *)
AcceptContent(a, f) ==
  LET clis == IF f.with = 0 THEN lcli[a].cli_from[f.addr] ELSE lcli[a].cli_with[f.addr]
      nbcon == IF f.with = 0 THEN f.from ELSE f.with
  IN IF (f.with # 0 /\ f.from # 0) \/ (lconf.managed /\ nbcon \notin DOMAIN clis) THEN Panic
     ELSE /\ lreaders' = IF lconf.managed THEN [lreaders EXCEPT ![clis[nbcon]].chan = Append(@, f.content)]
                         ELSE Append(lreaders, LocalReadStream(a, f.content, f.content[1][1]))
          /\ UNCHANGED <<lcli, lwriters, lpanic>>

accept(a) ==
  /\ ldir[a] # <<>>
  /\ LET f == Head(ldir[a]) IN IF f.content = <<>> THEN AcceptConnection(a, f) ELSE AcceptContent(a, f)
  /\ ldir' = [ldir EXCEPT ![a] = Tail(@)]
  /\ UNCHANGED lconf

write(i, k) ==
  LET w == lwriters[i]
  IN /\ w.open /\ w.nb < lconf.writes
     /\ ldir' = [ldir EXCEPT ![Far(w.addr)] = Append(@, Frame(w, [n \in 1..k |-> <<i, w.sent + n>>]))]
     /\ lwriters' = [lwriters EXCEPT ![i].sent = @ + k, ![i].nb = @ + 1]
     /\ UNCHANGED <<lconf, lcli, lreaders, lpanic>>

(* What is left of the last frame, or the next one; a reader that is not     *)
(* managed fails at its end, and so does one that is closed.                 *)
read(i, k) ==
  LET r == lreaders[i]
      from == IF r.buf # <<>> THEN r.buf ELSE Head(r.chan)
      nbr == IF k < Len(from) THEN k ELSE Len(from)
  IN /\ r.open /\ (r.buf # <<>> \/ (lconf.managed /\ r.chan # <<>>))
     /\ lreaders' = [lreaders EXCEPT ![i] = [r EXCEPT !.buf = SubSeq(from, nbr + 1, Len(from)),
                                                     !.chan = IF r.buf # <<>> THEN @ ELSE Tail(@),
                                                     !.got = @ \o SubSeq(from, 1, nbr)]]
     /\ UNCHANGED <<lconf, ldir, lcli, lwriters, lpanic>>

(* At the end of a message a reader that is not managed is of no more use. *)
end_read_msg(i) ==
  /\ ~lconf.managed /\ lreaders[i].open /\ lreaders[i].buf = <<>>
  /\ lreaders' = [lreaders EXCEPT ![i].open = FALSE]
  /\ UNCHANGED <<lconf, ldir, lcli, lwriters, lpanic>>

(* Of a writer: the other end is not told. *)
disconnect(i) ==
  /\ lwriters[i].open /\ lwriters[i].nb > 0
  /\ lwriters' = [lwriters EXCEPT ![i].open = FALSE]
  /\ UNCHANGED <<lconf, ldir, lcli, lreaders, lpanic>>

LNext ==
  /\ ~lpanic
  /\ \/ \E a \in Address : connectwith(a) \/ accept(a)
     \/ \E i \in DOMAIN lwriters : disconnect(i) \/ write(i, FrameLen)
     \/ \E i \in DOMAIN lreaders : end_read_msg(i) \/ \E k \in {1, 3} : read(i, k)

LSpec == LInit /\ [][LNext]_lvars

-----------------------------------------------------------------------------
LTypeOK ==
  /\ \A a \in Address : \A f \in ToSet(ldir[a]) : f.addr = Far(a) /\ f.from \in Nat /\ f.with \in Nat
  /\ \A i \in DOMAIN lreaders : lreaders[i].peer \in 0..Len(lwriters)
  /\ lpanic \in BOOLEAN

Held(r) == r.got \o r.buf \o FlattenSeq(r.chan)

(* However the connections of two transports are opened and accepted, a     *)
(* reader holds the bytes of the writer at the other end of its connection, *)
(* all those that were accepted, in order; what is still on its way has its *)
(* reader when it comes.  Not managed, it holds one frame.                  *)
Paired ==
  /\ ~lpanic
  /\ \A i \in DOMAIN lreaders :
       LET r == lreaders[i]  h == Held(r)
       IN IF lconf.managed THEN h = [n \in DOMAIN h |-> <<r.peer, n>>]
          ELSE \A n \in DOMAIN h : h[n] = <<r.peer, h[1][2] + n - 1>>
=============================================================================
