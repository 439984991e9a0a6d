------------------------------ MODULE UserPoll ------------------------------
(***************************************************************************)
(* mydht-userpoll: an event loop without the operating system, for hosts   *)
(* that have no mio.  Registrations are told apart by a descriptor the     *)
(* poll gives them, and their readiness is queued as events that carry the *)
(* token of the registration.                                              *)
(*                                                                         *)
(* The user of the poll is an event loop like the main loop: it gives each *)
(* registration a token free in its table, takes all the events of a poll  *)
(* before it polls again, and for each of them reads what is there for the *)
(* registration its table has under the token.                             *)
(***************************************************************************)
EXTENDS Naturals, Sequences, FiniteSets, Functions

CONSTANTS
  UReg,     \* registrations (a UserRegistration and its UserSetReadiness)
  UToken,   \* tokens, 1..n
  UMax,     \* MAX_USIZE, the largest descriptor
  ULimit,   \* size_limit of the events
  UMsgs,    \* bound on the messages waiting for a registration
  UQueue    \* bound on the events queued

VARIABLES
  uitems,   \* items: the token and topics of each descriptor in use
  ufd,      \* the descriptor of each registration, 0 (FD_UNDEFINED) for none
  ulast,    \* last_new_fd
  uqueue,   \* ev_queue, from front to back
  ucontent, \* UserEvents::content
  utok,     \* the table of the user: the token of each registration, 0 for none
  unread,   \* number of messages a registration was made readable for
  umoved    \* history: registrations given another token by reregister

uvars == <<uitems, ufd, ulast, uqueue, ucontent, utok, unread, umoved>>

Ready == {"Readable", "Writable"}
FD_UNDEFINED == 0

UInit ==
  /\ uitems = <<>> /\ ufd = [c \in UReg |-> FD_UNDEFINED] /\ ulast = FD_UNDEFINED
  /\ uqueue = <<>> /\ ucontent = <<>>
  /\ utok = [c \in UReg |-> 0] /\ unread = [c \in UReg |-> 0] /\ umoved = {}

-----------------------------------------------------------------------------
(* inc_l, i times: descriptor 1 follows the largest. *)
inc_l(v, i) == IF v + i > UMax THEN v + i - UMax ELSE v + i

(* The descriptors new_fd tries, in order: one less than there are. *)
Tried == [i \in 1..(UMax - 1) |-> inc_l(ulast, i)]

FreeFd == {i \in DOMAIN Tried : Tried[i] \notin DOMAIN uitems}
Full == FreeFd = {}
new_fd == Tried[CHOOSE i \in FreeFd : \A j \in FreeFd : i <= j]

(* A known registration keeps its descriptor and its token. *)
ctl_add(c, t, r) ==
  IF ufd[c] = FD_UNDEFINED
  THEN /\ ufd' = [ufd EXCEPT ![c] = new_fd] /\ ulast' = new_fd
       /\ uitems' = [f \in DOMAIN uitems \cup {new_fd} |->
                       IF f = new_fd THEN [token |-> t, topics |-> {r}] ELSE uitems[f]]
  ELSE /\ uitems' = [uitems EXCEPT ![ufd[c]].topics = @ \cup {r}]
       /\ UNCHANGED <<ufd, ulast>>

ctl_rem(c) ==
  /\ ufd' = [ufd EXCEPT ![c] = FD_UNDEFINED]
  /\ uitems' = [f \in DOMAIN uitems \ {ufd[c]} |-> uitems[f]]

(* The queue after the event, which goes to the front; the back is read first. *)
trigger_event(items, f, r) ==
  IF f \in DOMAIN items /\ r \in items[f].topics
  THEN <<[kind |-> r, token |-> items[f].token]>> \o uqueue
  ELSE uqueue

-----------------------------------------------------------------------------
(* Mutant: no event for what came before the registration. *)
register_silent(c, t, r) ==
  /\ utok[c] = 0 /\ \A d \in UReg : utok[d] /= t /\ ~Full
  /\ ctl_add(c, t, r)
  /\ utok' = [utok EXCEPT ![c] = t]
  /\ UNCHANGED <<uqueue, ucontent, unread, umoved>>

register(c, t, r) ==
  /\ utok[c] = 0 /\ \A d \in UReg : utok[d] /= t /\ ~Full
  /\ ctl_add(c, t, r)
  /\ uqueue' = trigger_event(uitems', ufd'[c], r)
  /\ utok' = [utok EXCEPT ![c] = t]
  /\ UNCHANGED <<ucontent, unread, umoved>>

(* With another token, as the main loop does for a read stream that is       *)
(* borrowed, or with another interest.                                       *)
reregister(c, t, r) ==
  /\ utok[c] /= 0 /\ \A d \in UReg \ {c} : utok[d] /= t
  /\ ctl_add(c, t, r)
  /\ utok' = [utok EXCEPT ![c] = t]
  /\ umoved' = IF t = utok[c] THEN umoved ELSE umoved \cup {c}
  /\ UNCHANGED <<uqueue, ucontent, unread>>

deregister(c) ==
  /\ utok[c] /= 0
  /\ ctl_rem(c)
  /\ utok' = [utok EXCEPT ![c] = 0] /\ umoved' = umoved \ {c}
  /\ UNCHANGED <<ulast, uqueue, ucontent, unread>>

(* A message for the registration, registered or not. *)
set_readiness(c) ==
  /\ unread[c] < UMsgs
  /\ unread' = [unread EXCEPT ![c] = @ + 1]
  /\ uqueue' = trigger_event(uitems, ufd[c], "Readable")
  /\ UNCHANGED <<uitems, ufd, ulast, ucontent, utok, umoved>>

(* Mutant: one event more than the limit. *)
poll_one_more ==
  /\ uqueue /= <<>> /\ ucontent = <<>>
  /\ LET ql == Len(uqueue)  nb_mov == IF ULimit < ql THEN ULimit + 1 ELSE ql
     IN /\ ucontent' = SubSeq(uqueue, ql - nb_mov + 1, ql)
        /\ uqueue' = SubSeq(uqueue, 1, ql - nb_mov)
  /\ UNCHANGED <<uitems, ufd, ulast, utok, unread, umoved>>

poll ==
  /\ uqueue /= <<>> /\ ucontent = <<>>
  /\ LET ql == Len(uqueue)  nb_mov == IF ULimit < ql THEN ULimit ELSE ql
     IN /\ ucontent' = SubSeq(uqueue, ql - nb_mov + 1, ql)
        /\ uqueue' = SubSeq(uqueue, 1, ql - nb_mov)
  /\ UNCHANGED <<uitems, ufd, ulast, utok, unread, umoved>>

(* UserEvents::next, and the user's reading of all that is there. *)
next ==
  LET l == Len(ucontent)  e == ucontent[l]
  IN /\ ucontent /= <<>>
     /\ ucontent' = SubSeq(ucontent, 1, l - 1)
     /\ unread' = [c \in UReg |-> IF utok[c] = e.token /\ e.kind = "Readable" THEN 0 ELSE unread[c]]
     /\ UNCHANGED <<uitems, ufd, ulast, uqueue, utok, umoved>>

UNext ==
  \/ /\ Len(uqueue) < UQueue
     /\ \/ \E c \in UReg, t \in UToken, r \in Ready : register(c, t, r) \/ reregister(c, t, r)
        \/ \E c \in UReg : set_readiness(c)
  \/ \E c \in UReg : deregister(c)
  \/ poll \/ next

USpec == UInit /\ [][UNext]_uvars

-----------------------------------------------------------------------------
UTypeOK ==
  /\ ufd \in [UReg -> 0..UMax] /\ ulast \in 0..UMax
  /\ DOMAIN uitems \subseteq 1..UMax
  /\ \A f \in DOMAIN uitems : uitems[f].token \in UToken /\ uitems[f].topics \subseteq Ready
  /\ Len(uqueue) <= UQueue /\ Len(ucontent) <= ULimit
  /\ umoved \subseteq UReg /\ utok \in [UReg -> UToken \cup {0}] /\ unread \in [UReg -> 0..UMsgs]

(* No wake-up is lost: what came for a registration, before or after it was *)
(* registered, is announced by an event under its token that is still to be *)
(* taken, as long as the registration keeps the token and the interest it   *)
(* was registered with (reregister changes neither the item's token nor the *)
(* queue).  Descriptors in use belong to one registration each.             *)
NoLostWakeup ==
  /\ \A c \in UReg : ufd[c] /= FD_UNDEFINED => ufd[c] \in DOMAIN uitems
  /\ \A c, d \in UReg : ufd[c] = ufd[d] /\ ufd[c] /= FD_UNDEFINED => c = d
  /\ \A c \in UReg :
       (/\ utok[c] /= 0 /\ unread[c] > 0 /\ c \notin umoved
        /\ uitems[ufd[c]].topics = {"Readable"})
       => [kind |-> "Readable", token |-> utok[c]] \in Range(uqueue) \cup Range(ucontent)
=============================================================================
