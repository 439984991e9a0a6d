---------------------------- MODULE TunnelStream ----------------------------
(***************************************************************************)
(* A message, and the reply to it, on its way through a tunnel             *)
(* (mydht-tunnel/src/lib.rs).  Every hop is a write-once stream of its     *)
(* own.  Its reading end is lent by the read service to the command it     *)
(* causes: the write service of the next stream of the route copies it     *)
(* (proxy), or the one of the reply reads what the reply route needs.      *)
(*                                                                         *)
(* Streams 1..hops+1 are the query, the next rhops+1 the reply.  A stream  *)
(* carries "head", "msg", one "att" per attachment and "end"; the limiter  *)
(* of the tunnel library delimits them.                                    *)
(***************************************************************************)
EXTENDS Naturals, Sequences, FiniteSets, SequencesExt

CONSTANT SConfs

VARIABLES
  sconf,  \* hops, rhops: peers on the way; natt, ratt: attachments of query
          \* and reply; mode: how the query is answered (see Modes); buf:
          \* PROXY_BUF_SIZE, in tokens
  link,   \* the streams, see NewLink
  got     \* history: what the inner services were given

svars == <<sconf, link, got>>

(* What the reader of a query learns about its reply: there is none, the    *)
(* reply writer is initialised by the read service, or (reply_writer_init_  *)
(* init gives nothing) by the global service.  The other states of          *)
(* ReadMsgState end in unimplemented!() and are no configuration.           *)
Modes == {"NoReply", "ReplyDirectInit", "ReplyDirectInitGlobal"}

Token == {"head", "msg", "att", "end"}

Links == 1..(sconf.hops + sconf.rhops + 2)
Query(i) == i <= sconf.hops + 1
Origin(i) == i \in {1, sconf.hops + 2}
Dest(i) == i \in {sconf.hops + 1, sconf.hops + sconf.rhops + 2}
Atts(i) == IF Query(i) THEN sconf.natt ELSE sconf.ratt

(* The write service (w), its TunnelWriterReader (wrem: nb_attach_rem), the *)
(* holder of the reading end (r), and the TunnelWriterReader of the read    *)
(* service (rrem, fin: do_finalize_read, cur: current_reader is set) with   *)
(* the dest reader in the message (dr).                                     *)
NewLink == [data |-> <<>>, w |-> "none", wrem |-> 0,
            rd |-> 0, r |-> "read", rrem |-> 0, fin |-> FALSE, cur |-> FALSE, dr |-> FALSE]

SInit ==
  /\ sconf \in SConfs
  /\ link = [i \in Links |-> IF i = 1 THEN [NewLink EXCEPT !.w = "cmd"] ELSE NewLink]
  /\ got = <<>>

-----------------------------------------------------------------------------
(* Reading and writing. *)
Unread(l) == SubSeq(l.data, l.rd + 1, Len(l.data))

Has(l, toks) == IsPrefix(toks, Unread(l))

(* read_end of the limiter: skips to the end mark. *)
CanEnd(l) == "end" \in ToSet(Unread(l))
read_end(l) == [l EXCEPT !.rd = Len(l.data)]

(* encode_msg_into of TunnelSendOnce and TunnelReplyOnce: header, message,  *)
(* and the end when there is no attachment.                                 *)
encode_msg_into(l, n) ==
  [l EXCEPT !.data = @ \o <<"head", "msg">> \o IF n = 0 THEN <<"end">> ELSE <<>>,
            !.wrem = n, !.w = IF n = 0 THEN "done" ELSE "att"]

(* Mutant: the end is written with the last but one attachment. *)
attach_into_early_end(l) ==
  LET rem == l.wrem - 1
  IN [l EXCEPT !.data = @ \o <<"att">> \o IF rem <= 1 THEN <<"end">> ELSE <<>>,
               !.wrem = rem, !.w = IF rem = 0 THEN "done" ELSE "att"]

(* The next attachment, and the end after the last one. *)
attach_into(l) ==
  LET rem == l.wrem - 1
  IN [l EXCEPT !.data = @ \o <<"att">> \o IF rem = 0 THEN <<"end">> ELSE <<>>,
               !.wrem = rem, !.w = IF rem = 0 THEN "done" ELSE "att"]

-----------------------------------------------------------------------------
(* Write services. *)

TunnelSendOnce ==
  /\ link[1].w = "cmd"
  /\ link' = [link EXCEPT ![1] = encode_msg_into(@, sconf.natt)]
  /\ UNCHANGED <<sconf, got>>

(* reply_writer_init reads the end of the query from the lent stream. *)
TunnelReplyOnce(i) ==
  /\ ~Query(i) /\ Origin(i) /\ link[i].w = "cmd" /\ CanEnd(link[i - 1])
  /\ link' = [link EXCEPT ![i] = encode_msg_into(@, sconf.ratt),
                          ![i - 1] = [read_end(@) EXCEPT !.r = "done"]]
  /\ UNCHANGED <<sconf, got>>

Attach(i) ==
  /\ link[i].w = "att"
  /\ link' = [link EXCEPT ![i] = attach_into(@)]
  /\ UNCHANGED <<sconf, got>>

(* One round of the copy: a buffer of what can be read, the end when        *)
(* nothing is left before it.                                               *)
Copied(from, to) ==
  LET u == Unread(from)
      n == IF Len(u) < sconf.buf THEN Len(u) ELSE sconf.buf
      chunk == SelectSeq(SubSeq(u, 1, n), LAMBDA t : t /= "end")
      start == IF to.data = <<>> THEN <<"head">> ELSE <<>>
  IN IF chunk = <<>>
     THEN <<[read_end(from) EXCEPT !.r = "done"],
            [to EXCEPT !.data = @ \o start \o <<"end">>, !.w = "done"]>>
     ELSE <<[from EXCEPT !.rd = @ + Len(chunk)], [to EXCEPT !.data = @ \o start \o chunk]>>

TunnelProxyOnce(i) ==
  /\ ~Origin(i) /\ link[i].w = "cmd" /\ Unread(link[i - 1]) /= <<>>
  /\ LET c == Copied(link[i - 1], link[i])
     IN link' = [link EXCEPT ![i - 1] = c[1], ![i] = c[2]]
  /\ UNCHANGED <<sconf, got>>

-----------------------------------------------------------------------------
(* Read services. *)

(* The header says whether this node is the destination.  If so the message *)
(* is read as well, and its end when no attachment and no reply follow.     *)
(* The dest reader stays here while attachments are to come, else it goes   *)
(* with the message.                                                        *)
decode_msg_from(i) ==
  LET l == link[i]
      n == Atts(i)
      rep == Query(i) /\ sconf.mode /= "NoReply"
      m == [l EXCEPT !.rd = 2, !.rrem = n, !.fin = ~rep /\ n > 0, !.cur = n > 0,
                     !.dr = rep /\ n = 0, !.r = IF n > 0 THEN "att" ELSE "call"]
  IN /\ l.r = "read"
     /\ \/ /\ ~Dest(i) /\ Has(l, <<"head">>)
           /\ link' = [link EXCEPT ![i].rd = 1, ![i].r = "call"]
        \/ /\ Dest(i) /\ Has(l, <<"head", "msg">>)
           /\ IF ~rep /\ n = 0
              THEN CanEnd(l) /\ link' = [link EXCEPT ![i] = read_end(m)]
              ELSE link' = [link EXCEPT ![i] = m]
     /\ UNCHANGED <<sconf, got>>

attach_from(i) ==
  /\ link[i].r = "att" /\ Has(link[i], <<"att">>)
  /\ LET m == [link[i] EXCEPT !.rd = @ + 1, !.rrem = @ - 1, !.r = IF link[i].rrem = 1 THEN "call" ELSE "att"]
     IN IF m.fin THEN CanEnd(m) /\ link' = [link EXCEPT ![i] = read_end(m)]
        ELSE link' = [link EXCEPT ![i] = m]
  /\ UNCHANGED <<sconf, got>>

(* The command a message becomes, and whether it takes the stream with it. *)
Into(i) == IF Dest(i) THEN "LocalFromRead" ELSE "Proxy"
is_borrow_read(i) == Into(i) = "Proxy" \/ (Query(i) /\ sconf.mode /= "NoReply")

(* Mutant: the dest reader kept for the attachments stays in the read service. *)
put_read_keeps(l) == l

(* The stream and its reader go with the command to the local service. *)
put_read(l) == [l EXCEPT !.dr = @ \/ l.cur, !.cur = FALSE]

(* The local service called with the command: a proxy or a reply is a       *)
(* ForwardServiceOnce for the main loop, or passes through the global       *)
(* service; otherwise the inner service's result is for the api.            *)
LocalTunnelService(i) ==
  /\ link[i].r = "call"
  /\ \/ /\ Into(i) = "Proxy"
        /\ link' = [link EXCEPT ![i].r = "main"] /\ UNCHANGED got
     \/ /\ Into(i) = "LocalFromRead" /\ is_borrow_read(i)
        /\ link' = [link EXCEPT ![i] = [put_read(@) EXCEPT !.r =
                      IF sconf.mode = "ReplyDirectInit" /\ put_read(link[i]).dr THEN "main" ELSE "global"]]
        /\ got' = Append(got, i)
     \/ /\ Into(i) = "LocalFromRead" /\ ~is_borrow_read(i)
        /\ link' = [link EXCEPT ![i].r = "done"] /\ got' = Append(got, i)
  /\ UNCHANGED sconf

(* GlobalTunnelService: TransmitReply.  Without the dest reader, or with a  *)
(* reply writer that was initialised, the code is unreachable!().           *)
TransmitReply(i) ==
  /\ link[i].r = "global"
  /\ link' = [link EXCEPT ![i].r =
       IF link[i].dr /\ sconf.mode = "ReplyDirectInitGlobal" THEN "main" ELSE "panic"]
  /\ UNCHANGED <<sconf, got>>

(* The main loop opens the stream and gives the command to its write service. *)
ForwardServiceOnce(i) ==
  /\ link[i].r = "main"
  /\ link' = [link EXCEPT ![i].r = "lent", ![i + 1].w = "cmd"]
  /\ UNCHANGED <<sconf, got>>

Serve(i) == decode_msg_from(i) \/ attach_from(i) \/ LocalTunnelService(i)
WriteService(i) == TunnelReplyOnce(i) \/ TunnelProxyOnce(i) \/ Attach(i)

SNext ==
  \/ TunnelSendOnce
  \/ \E i \in Links : Serve(i) \/ WriteService(i) \/ TransmitReply(i) \/ ForwardServiceOnce(i)

SFairness ==
  /\ WF_svars(TunnelSendOnce)
  /\ \A i \in 1..5 : WF_svars(i \in Links /\ (Serve(i) \/ TransmitReply(i) \/ ForwardServiceOnce(i)))
  /\ \A i \in 1..5 : WF_svars(i \in Links /\ WriteService(i))

SSpec == SInit /\ [][SNext]_svars /\ SFairness

-----------------------------------------------------------------------------
STypeOK ==
  link \in [Links -> [data : Seq(Token), w : {"none", "cmd", "att", "done"}, wrem : Nat, rd : Nat,
             r : {"read", "att", "call", "global", "main", "lent", "done", "panic"},
             rrem : Nat, fin : BOOLEAN, cur : BOOLEAN, dr : BOOLEAN]]

Frame(n) == <<"head", "msg">> \o [k \in 1..n |-> "att"] \o <<"end">>

(* Every hop carries a prefix of what the origin writes, attachments before *)
(* a single end; nothing is read twice or past the end; the reply writer    *)
(* always has the reader of its query.                                      *)
Relayed ==
  \A i \in Links :
    /\ IsPrefix(link[i].data, Frame(Atts(i)))
    /\ link[i].rd <= Len(link[i].data)
    /\ ~Origin(i) => Len(link[i].data) <= Len(link[i - 1].data)
    /\ link[i].r /= "panic"

(* The query is delivered, answered if an answer is expected, and every     *)
(* stream is read to its end and released.                                  *)
Ended ==
  /\ got = IF sconf.mode = "NoReply" THEN <<sconf.hops + 1>>
           ELSE <<sconf.hops + 1, sconf.hops + sconf.rhops + 2>>
  /\ \A i \in Links : link[i].w /= "none" =>
       link[i].r = "done" /\ Unread(link[i]) = <<>> /\ Last(link[i].data) = "end"

(* Where a message that nothing answers has several attachments, the reader *)
(* calls read_end after the first one (do_finalize_read in attach_from) and *)
(* finds nothing where it looks for the next.                               *)
CutShort ==
  \E i \in Links : /\ Dest(i) /\ link[i].fin /\ Atts(i) > 1
                   /\ link[i].r = "att" /\ link[i].rrem = Atts(i) - 1 /\ Unread(link[i]) = <<>>

Ends == <>[](Ended \/ CutShort)
=============================================================================
