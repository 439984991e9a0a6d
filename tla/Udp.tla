-------------------------------- MODULE Udp --------------------------------
(***************************************************************************)
(* The datagram transport of mydht-udp: a writer keeps a message until     *)
(* flush, which sends it as one datagram; accept receives one datagram and *)
(* makes a reader of it.  The network loses, repeats and reorders.         *)
(*                                                                         *)
(* A message is written in pieces, as the write service does, which gives  *)
(* the stream up at the first error.  Byte n of message m is <<m, n>>.     *)
(***************************************************************************)
EXTENDS Naturals, Sequences, SequencesExt

CONSTANTS
  DLens,      \* lengths of the messages, in the order of writing
  DPieces,    \* lengths of pieces
  DBuffsize   \* buffsize of both transports

VARIABLES
  dstream,    \* UdpStream: its buffer; not open after an error
  dmsg,       \* message being written and number of its bytes written
  dnet,       \* datagrams in the network
  dread,      \* the ReadUdpStream, and the bytes read from it
  dflushed    \* history: messages that were sent

dvars == <<dstream, dmsg, dnet, dread, dflushed>>

DNone == [left |-> <<>>, got |-> <<>>]

DInit ==
  /\ dstream = [open |-> TRUE, buf |-> <<>>] /\ dmsg = [nr |-> 1, pos |-> 0]
  /\ dnet = {} /\ dread = DNone /\ dflushed = {}

Next_msg == [nr |-> dmsg.nr + 1, pos |-> 0]

-----------------------------------------------------------------------------
(* UdpStream::write: a piece that does not fit is an error, and the stream   *)
(* is dropped with what it holds.                                            *)
write(k) ==
  LET l == DLens[dmsg.nr]  n == IF dmsg.pos + k < l THEN k ELSE l - dmsg.pos
  IN /\ dmsg.nr \in DOMAIN DLens /\ dstream.open /\ dmsg.pos < l
     /\ IF Len(dstream.buf) + n > DBuffsize
        THEN dstream' = [open |-> FALSE, buf |-> <<>>] /\ dmsg' = Next_msg
        ELSE /\ dstream' = [dstream EXCEPT !.buf = @ \o [i \in 1..n |-> <<dmsg.nr, dmsg.pos + i>>]]
             /\ dmsg' = [dmsg EXCEPT !.pos = @ + n]
     /\ UNCHANGED <<dnet, dread, dflushed>>

(* Mutant: the buffer is not emptied. *)
flush_keeps ==
  /\ dmsg.nr \in DOMAIN DLens /\ dstream.open /\ dmsg.pos = DLens[dmsg.nr]
  /\ dnet' = dnet \cup {dstream.buf} /\ dflushed' = dflushed \cup {dmsg.nr}
  /\ dmsg' = Next_msg
  /\ UNCHANGED <<dstream, dread>>

flush ==
  /\ dmsg.nr \in DOMAIN DLens /\ dstream.open /\ dmsg.pos = DLens[dmsg.nr]
  /\ dnet' = dnet \cup {dstream.buf} /\ dflushed' = dflushed \cup {dmsg.nr}
  /\ dstream' = [dstream EXCEPT !.buf = <<>>] /\ dmsg' = Next_msg
  /\ UNCHANGED dread

connectwith ==
  /\ ~dstream.open
  /\ dstream' = [open |-> TRUE, buf |-> <<>>]
  /\ UNCHANGED <<dmsg, dnet, dread, dflushed>>

Lose == \E d \in dnet : dnet' = dnet \ {d} /\ UNCHANGED <<dstream, dmsg, dread, dflushed>>

(* A datagram of buffsize or more is dropped; a datagram that is received    *)
(* may come again.                                                           *)
accept ==
  \E d \in dnet :
    /\ dread.left = <<>>
    /\ dread' = IF Len(d) < DBuffsize THEN [left |-> d, got |-> <<>>] ELSE DNone
    /\ dnet' \in {dnet, dnet \ {d}}
    /\ UNCHANGED <<dstream, dmsg, dflushed>>

(* ReadUdpStream::read *)
read(l) ==
  LET r == IF l > Len(dread.left) THEN Len(dread.left) ELSE l
  IN /\ dread.left # <<>>
     /\ dread' = [left |-> SubSeq(dread.left, r + 1, Len(dread.left)), got |-> dread.got \o SubSeq(dread.left, 1, r)]
     /\ UNCHANGED <<dstream, dmsg, dnet, dflushed>>

DNext ==
  \/ \E k \in DPieces : write(k) \/ read(k)
  \/ flush \/ connectwith \/ Lose \/ accept

DSpec == DInit /\ [][DNext]_dvars

-----------------------------------------------------------------------------
DTypeOK == Len(dstream.buf) <= DBuffsize /\ dflushed \subseteq DOMAIN DLens

(* "Message is send/receive as a whole": whatever a reader holds is one     *)
(* message from its first byte to its last, one that was flushed, however   *)
(* it was cut into pieces and whatever failed before it.                    *)
Whole ==
  LET m == dread.got \o dread.left
  IN m # <<>> => /\ m[1][1] \in dflushed
                 /\ m = [n \in 1..DLens[m[1][1]] |-> <<m[1][1], n>>]
=============================================================================
