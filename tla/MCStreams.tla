------------------------------ MODULE MCStreams ------------------------------
(***************************************************************************)
(* What the bytes of a message go through between a service and the host,  *)
(* each part on its own: the routes and the streams of a tunnel, the       *)
(* shadower, the event loop without operating system, and the transports   *)
(* that are not TCP.  part says which one a behaviour is of; the variables *)
(* of the others are <<>>.                                                 *)
(***************************************************************************)
EXTENDS Integers, Sequences

CONSTANT Parts   \* the parts of a run

VARIABLES
  part,
  tconf, peers, positions, address_key, to_send, pool, asked, dead, sent,
  sconf, link, got,
  hconf, hw, hr, hwire,
  uitems, ufd, ulast, uqueue, ucontent, utok, unread, umoved,
  lconf, ldir, lcli, lwriters, lreaders, lpanic,
  dstream, dmsg, dnet, dread, dflushed,
  xconf, xn, xch, xtold

tvars == <<tconf, peers, positions, address_key, to_send, pool, asked, dead, sent>>
svars == <<sconf, link, got>>
hvars == <<hconf, hw, hr, hwire>>
uvars == <<uitems, ufd, ulast, uqueue, ucontent, utok, unread, umoved>>
lvars == <<lconf, ldir, lcli, lwriters, lreaders, lpanic>>
dvars == <<dstream, dmsg, dnet, dread, dflushed>>
xvars == <<xconf, xn, xch, xtold>>
vars == <<part, tvars, svars, hvars, uvars, lvars, dvars, xvars>>

(* Routes of no, one and two hops over three peers; peers that leave, and    *)
(* peers that are announced again.                                           *)
TPeer == {"a", "b", "c"}
TMe == "me"
TNone == "none"
TC(l, b, n, off, ag) ==
  [routelength |-> l, routebias |-> b, cmds |-> n, offline |-> off, again |-> ag]
TConfs == { TC(0, 0, 2, FALSE, FALSE), TC(1, 1, 2, FALSE, FALSE), TC(1, 0, 2, TRUE, FALSE),
            TC(2, 0, 2, TRUE, FALSE), TC(2, 0, 1, TRUE, TRUE) }

(* Every way a query is answered, over up to two peers and back over one,   *)
(* with a proxy buffer smaller and larger than a frame; up to two            *)
(* attachments on a query and on a reply.                                    *)
Modes == {"NoReply", "ReplyDirectInit", "ReplyDirectInitGlobal"}
SConfs ==
  [hops : 0..2, rhops : 0..1, natt : 0..1, ratt : 0..1, mode : Modes, buf : {1, 3}]
  \cup [hops : {1}, rhops : {1}, natt : {2}, ratt : 0..2, mode : Modes, buf : {2}]

(* Messages around the size of one and of two blocks, two in a row.  Native  *)
(* padding needs a transport that ends with the message (bounded), and       *)
(* NoPadding messages of whole blocks.                                       *)
Block == 2
AsymDec == 3
HBuf == {1, 3, 5}
Lens(s) == {<<a, b>> : a, b \in s}
HConfs ==
  [mode : {"ASymSym"}, pad : {"UnsizedPadding"}, lens : Lens(0..5), bounded : BOOLEAN]
  \cup [mode : {"ASymSym"}, pad : {"Native"}, lens : Lens(0..5), bounded : {TRUE}]
  \cup [mode : {"ASymSym"}, pad : {"NoPadding"}, lens : Lens({2, 4}), bounded : {FALSE}]
  \cup [mode : {"ASymOnly", "None", "NoShadow", "SimpleShift", "SimpleShiftNoHead"},
        pad : {"UnsizedPadding"}, lens : Lens({0, 1, 3, 4}), bounded : {FALSE}]

(* Two registrations on two tokens; three descriptors, of which new_fd tries *)
(* two; events taken one by one.                                             *)
UReg == {"r1", "r2"}
UToken == {1, 2}
UMax == 3
ULimit == 1
UMsgs == 1
UQueue == 2

(* Connections that cross, two on one side, and none at all. *)
LC(x, m, c, w) == [multiplex |-> x, managed |-> m, conns |-> c, writes |-> w]
LConfs ==
  {LC(x, TRUE, c, 1) : x \in BOOLEAN, c \in {<<1, 1>>, <<2, 0>>}} \cup {LC(FALSE, FALSE, <<1, 1>>, 2)}

(* Messages below, at and above the size of the buffer. *)
DLens == <<2, 1, 4, 5, 3>>
DPieces == {1, 2, 3}
DBuffsize == 4

(* One way, in pieces, the host failing or not; both ways, which with mult   *)
(* may open crossing channels; a connection opened before it is written to.  *)
XC(m, a, b, w, c, f, t) ==
  [mult |-> m, msgs |-> <<a, b>>, write_buf |-> w, cap |-> c, fails |-> f, connects |-> t]
XConfs ==
  {XC(m, <<<<1, 2, 3>>, <<4>>>>, <<>>, 2, 2, f, FALSE) : m, f \in BOOLEAN}
  \cup {XC(m, <<<<1>>>>, <<<<1>>>>, 2, 1, FALSE, FALSE) : m \in BOOLEAN}
  \cup {XC(TRUE, <<<<1, 2>>>>, <<>>, 2, 2, FALSE, TRUE)}

T == INSTANCE Tunnel
S == INSTANCE TunnelStream
H == INSTANCE Shadower
U == INSTANCE UserPoll
L == INSTANCE LocalTransport
D == INSTANCE Udp
X == INSTANCE ExternTransport

-----------------------------------------------------------------------------
NoT == /\ tconf = <<>> /\ peers = <<>> /\ positions = <<>> /\ address_key = <<>> /\ to_send = <<>>
       /\ pool = <<>> /\ asked = <<>> /\ dead = <<>> /\ sent = <<>>
NoS == sconf = <<>> /\ link = <<>> /\ got = <<>>
NoH == hconf = <<>> /\ hw = <<>> /\ hr = <<>> /\ hwire = <<>>
NoU == /\ uitems = <<>> /\ ufd = <<>> /\ ulast = <<>> /\ uqueue = <<>> /\ ucontent = <<>>
       /\ utok = <<>> /\ unread = <<>> /\ umoved = <<>>
NoL == /\ lconf = <<>> /\ ldir = <<>> /\ lcli = <<>> /\ lwriters = <<>> /\ lreaders = <<>>
       /\ lpanic = <<>>
NoD == dstream = <<>> /\ dmsg = <<>> /\ dnet = <<>> /\ dread = <<>> /\ dflushed = <<>>
NoX == xconf = <<>> /\ xn = <<>> /\ xch = <<>> /\ xtold = <<>>

Init ==
  /\ part \in Parts
  /\ \/ part = "tunnel" /\ T!TInit /\ NoS /\ NoH /\ NoU /\ NoL /\ NoD /\ NoX
     \/ part = "tunnelstream" /\ S!SInit /\ NoT /\ NoH /\ NoU /\ NoL /\ NoD /\ NoX
     \/ part = "shadower" /\ H!HInit /\ NoT /\ NoS /\ NoU /\ NoL /\ NoD /\ NoX
     \/ part = "userpoll" /\ U!UInit /\ NoT /\ NoS /\ NoH /\ NoL /\ NoD /\ NoX
     \/ part = "local" /\ L!LInit /\ NoT /\ NoS /\ NoH /\ NoU /\ NoD /\ NoX
     \/ part = "udp" /\ D!DInit /\ NoT /\ NoS /\ NoH /\ NoU /\ NoL /\ NoX
     \/ part = "extern" /\ X!XInit /\ NoT /\ NoS /\ NoH /\ NoU /\ NoL /\ NoD

(* A step of one part. *)
Tunnel(A) == part = "tunnel" /\ A /\ UNCHANGED <<part, svars, hvars, uvars, lvars, dvars, xvars>>
Stream(A) == part = "tunnelstream" /\ A /\ UNCHANGED <<part, tvars, hvars, uvars, lvars, dvars, xvars>>
Shadow(A) == part = "shadower" /\ A /\ UNCHANGED <<part, tvars, svars, uvars, lvars, dvars, xvars>>
Poll(A) == part = "userpoll" /\ A /\ UNCHANGED <<part, tvars, svars, hvars, lvars, dvars, xvars>>
Local(A) == part = "local" /\ A /\ UNCHANGED <<part, tvars, svars, hvars, uvars, dvars, xvars>>
Udp(A) == part = "udp" /\ A /\ UNCHANGED <<part, tvars, svars, hvars, uvars, lvars, xvars>>
Extern(A) == part = "extern" /\ A /\ UNCHANGED <<part, tvars, svars, hvars, uvars, lvars, dvars>>

Next ==
  \/ Tunnel(T!TNext) \/ Stream(S!SNext) \/ Shadow(H!HNext) \/ Poll(U!UNext)
  \/ Local(L!LNext) \/ Udp(D!DNext) \/ Extern(X!XNext)

(* The fairness of TunnelStream, Shadower and ExternTransport. *)
Fairness ==
  /\ WF_vars(Stream(S!TunnelSendOnce))
  /\ \A i \in 1..5 :
       /\ WF_vars(Stream(i \in S!Links /\ (S!Serve(i) \/ S!TransmitReply(i) \/ S!ForwardServiceOnce(i))))
       /\ WF_vars(Stream(i \in S!Links /\ S!WriteService(i)))
  /\ WF_vars(Shadow(H!Writer)) /\ WF_vars(Shadow(H!Reader))
  /\ \A p \in X!XPeer : WF_vars(Extern(X!Service(p))) /\ SF_vars(Extern(X!test_send_to(p)))
  /\ \A c \in 1..3 : SF_vars(Extern(c \in DOMAIN xch /\ X!Carry(c)))

Spec == Init /\ [][Next]_vars
LiveSpec == Spec /\ Fairness

-----------------------------------------------------------------------------
(* The state of each part is well formed. *)
TypeOK ==
  CASE part = "tunnel" -> T!TTypeOK
    [] part = "tunnelstream" -> S!STypeOK
    [] part = "shadower" -> H!HTypeOK
    [] part = "userpoll" -> U!UTypeOK
    [] part = "local" -> L!LTypeOK
    [] part = "udp" -> D!DTypeOK
    [] part = "extern" -> X!XTypeOK

(* Tunnel commands leave once and in the order they were asked for, whether *)
(* they waited for peers or not, and none waits while peers are enough.     *)
InOrder == part = "tunnel" => T!InOrder

(* The routes of new_route_out: different connected peers, the last one not *)
(* the destination, taken from positions that stay a permutation of the     *)
(* indices of peers while peers come and leave.                             *)
Routes == part = "tunnel" => T!Routes

(* What came for a registration of a UserPoll, before or after register, is *)
(* announced by an event under its token that is queued or not taken yet.   *)
NoLostWakeup == part = "userpoll" => U!NoLostWakeup

(* A reader gets what the writer at the other end wrote, from the start and *)
(* in order, and no assertion or protocol error stops it.                   *)
(*   tunnel streams: every hop carries a prefix of what the origin writes,  *)
(*     attachments before one end, and no reader goes past that end;        *)
(*   shadower: neither padding nor a byte of another message, whatever the  *)
(*     sizes of buffers, messages and blocks, except after an empty message *)
(*     under Native padding, which the reader does not recover from;        *)
(*   TransportTest: the bytes of its own connection, whatever the order in  *)
(*     which connections are opened and accepted;                           *)
(*   UDP: one whole message that was flushed, also after a failed write;    *)
(*   ExternTransport: without gap, whatever the order of callbacks.         *)
ReadAsWritten ==
  /\ part = "tunnelstream" => S!Relayed
  /\ part = "shadower" => H!RoundTrip
  /\ part = "local" => L!Paired
  /\ part = "udp" => D!Whole
  /\ part = "extern" => X!XInOrder

(* All that is written is read in the end: a query through a tunnel is      *)
(* delivered and answered and its streams are given back by their           *)
(* borrowers, except where a message without reply, or a reply, has several *)
(* attachments: the reader ends the message after the first one (CutShort). *)
(* write_end and flush of a shadower keep nothing back that the reader      *)
(* waits for; no event an ExternTransport stream waits for is lost.         *)
AllRead ==
  <>[](/\ part = "tunnelstream" => S!Ended \/ S!CutShort
       /\ part = "shadower" => H!Done
       /\ part = "extern" => X!Received)
=============================================================================
