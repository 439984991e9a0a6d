------------------------------ MODULE Shadower ------------------------------
(***************************************************************************)
(* The shadowers: what a peer's messages go through between the encoder    *)
(* and the transport.  OSSLShadowerW/R of mydht-openssl (a symmetric       *)
(* cipher whose key is sent under the reader's public key, the public key  *)
(* alone, or nothing) and the test shadower ShadowTest of mydht-basetest.  *)
(*                                                                         *)
(* A writer sends the messages hconf.lens over one transport, each between *)
(* write_header and write_end, in as many write_into calls as it takes.    *)
(* The reader of the other peer runs at the same time: read_header, then   *)
(* read_from with buffers of any of the sizes HBuf until it has the length *)
(* it expects, then read_end.  A transport read waits for bytes.           *)
(*                                                                         *)
(* A byte is <<message, position>>.  The wire carries tags, keys, cipher   *)
(* blocks and shifted bytes; a block is readable only by a crypter at the  *)
(* same place of the same chain, a byte only with the key that shifted it. *)
(***************************************************************************)
EXTENDS Naturals, Sequences, FiniteSetsExt

CONSTANTS Block,    \* block_size() of the cipher; CRYPTER_BUFF_SIZE is the same
          AsymDec,  \* CRYPTER_ASYM_BUFF_SIZE_DEC, plain bytes of a public key block
          HBuf,     \* sizes of the buffers given to write_into and read_from
          HConfs    \* [mode, pad, lens, bounded]

VARIABLES hconf,    \* the configuration
          hw,       \* the writing shadower and its message
          hr,       \* the reading shadower and its message
          hwire     \* what is in the transport

hvars == <<hconf, hw, hr, hwire>>

\* ASymSymMode, and ShadowModeTest for the test shadower.
ASymSymMode == {"ASymSym", "ASymOnly", "None"}
ShadowModeTest == {"NoShadow", "SimpleShift", "SimpleShiftNoHead"}
CrypterPaddingMode == {"NoPadding", "UnsizedPadding", "Native"}

Tag == [None |-> 0, ASymSym |-> 1, ASymOnly |-> 2,
        NoShadow |-> 0, SimpleShift |-> 1, SimpleShiftNoHead |-> 2]

Shorter(a, b) == IF a < b THEN a ELSE b
Pad == <<0, 0>>
Garbage == <<0, 1>>
Byte(n) == <<hw.msg, n>>
Expected == [n \in 1..hconf.lens[hr.msg] |-> <<hr.msg, n>>]

-----------------------------------------------------------------------------
(* Crypter, of the openssl library. *)

Crypter(iv) == [iv |-> iv, nr |-> 0, held |-> <<>>]

\* Encrypting cuts what it is given into blocks, and holds the rest back.
Encrypt(c, bytes) ==
  LET all == c.held \o bytes
      full == Len(all) >= Block
  IN  [c |-> [c EXCEPT !.held = IF full THEN SubSeq(all, Block + 1, Len(all)) ELSE all,
                       !.nr = IF full THEN @ + 1 ELSE @],
       out |-> IF full THEN <<[kind |-> "block", iv |-> c.iv, nr |-> c.nr,
                               val |-> SubSeq(all, 1, Block)]>>
                       ELSE <<>>]

\* With padding, the last block is filled up, or is all padding.
EncryptEnd(c) == Encrypt(c, [n \in 1..(Block - Len(c.held)) |-> Pad])

Decrypted(c, b) ==
  IF b.kind = "block" /\ b.iv = c.iv /\ b.nr = c.nr THEN b.val
  ELSE [n \in 1..Block |-> Garbage]

\* Decrypting with padding holds the last block back.
Decrypt(c, b) ==
  IF hconf.pad = "Native"
  THEN [c |-> [c EXCEPT !.nr = @ + 1, !.held = Decrypted(c, b)], out |-> c.held]
  ELSE [c |-> [c EXCEPT !.nr = @ + 1], out |-> Decrypted(c, b)]

Unpadded(bytes) == SelectSeq(bytes, LAMBDA b : b # Pad)

-----------------------------------------------------------------------------
(* The writer *)

\* OSSLSym: a crypter, whether it was finalized, and the place in the block.
OSSLSym(iv) == [crypter |-> Crypter(iv), finalize |-> FALSE, symbuffix |-> 0]

Put(units) == hwire' = hwire \o units
TagUnit == [kind |-> "tag", val |-> Tag[hconf.mode]]

\* A new message on the symmetric cipher: after a finalize, a crypter with the
\* next iv (shift_iv); otherwise the chain goes on.
SymHeader(s) == IF hconf.pad = "Native" /\ s.finalize THEN OSSLSym(s.crypter.iv + 1) ELSE s

\* ShadowTest writes its tag with every message, and a fresh key in SimpleShift.
TestHeader(key) ==
  /\ hw' = [hw EXCEPT !.open = TRUE, !.shift = key]
  /\ Put(<<TagUnit>> \o
         IF hconf.mode = "SimpleShift" THEN <<[kind |-> "key", val |-> key]>> ELSE <<>>)

\* OSSLShadowerW writes the tag of its mode, and the key, once.
OsslHeader ==
  /\ hw' = [hw EXCEPT !.open = TRUE, !.init = TRUE,
                      !.sym = IF hconf.mode # "ASymSym" THEN @
                              ELSE IF @ = <<>> THEN <<OSSLSym(0)>> ELSE <<SymHeader(@[1])>>]
  /\ Put((IF hw.init THEN <<>> ELSE <<TagUnit>>) \o
         (IF hconf.mode = "ASymSym" /\ hw.sym = <<>>
          THEN <<[kind |-> "key", val |-> 0]>> ELSE <<>>))

write_header ==
  /\ ~hw.open /\ hw.msg <= Len(hconf.lens)
  /\ \/ hconf.mode \in ASymSymMode /\ OsslHeader
     \/ hconf.mode \in ShadowModeTest
        /\ \E key \in (IF hconf.mode = "SimpleShift" THEN 0..1 ELSE {0}) : TestHeader(key)
  /\ UNCHANGED <<hconf, hr>>

\* The next bytes of the message, at most k of them.
Cont(k) == [n \in 1..Shorter(k, hconf.lens[hw.msg] - hw.pos) |-> Byte(hw.pos + n)]

\* OSSLSymW takes at most the size of its buffer less one block.
SymWrite(k) ==
  LET cont == Cont(Shorter(k, Block))
      s == hw.sym[1]
      u == Encrypt(s.crypter, cont)
  IN  /\ hw' = [hw EXCEPT !.pos = @ + Len(cont),
                          !.sym = <<[s EXCEPT !.crypter = u.c,
                                              !.symbuffix = (@ + Len(cont)) % Block]>>]
      /\ Put(u.out)

\* A public key block is encrypted when its buffer is full, never in the middle.
Flushed == IF Len(hw.asym) = AsymDec THEN <<[kind |-> "asym", val |-> hw.asym]>> ELSE <<>>
Unflushed == IF Len(hw.asym) = AsymDec THEN <<>> ELSE hw.asym

AsymWrite(k) ==
  LET cont == Cont(Shorter(k, AsymDec - Len(Unflushed)))
  IN  /\ hw' = [hw EXCEPT !.pos = @ + Len(cont), !.asym = Unflushed \o cont]
      /\ Put(Flushed)

\* The bytes themselves, shifted with the key of the test shadower.
PlainWrite(k) ==
  LET cont == Cont(k)
  IN  /\ hw' = [hw EXCEPT !.pos = @ + Len(cont)]
      /\ Put([n \in DOMAIN cont |-> [kind |-> "byte", val |-> cont[n], key |-> hw.shift]])

write_into(k) ==
  /\ hw.open /\ hw.pos < hconf.lens[hw.msg]
  /\ CASE hconf.mode = "ASymSym" -> SymWrite(k)
       [] hconf.mode = "ASymOnly" -> AsymWrite(k)
       [] OTHER -> PlainWrite(k)
  /\ UNCHANGED <<hconf, hr>>

\* Only the public key mode has something to flush.
flush_into ==
  /\ hw.open /\ hconf.mode = "ASymOnly" /\ Flushed # <<>>
  /\ hw' = [hw EXCEPT !.asym = Unflushed]
  /\ Put(Flushed)
  /\ UNCHANGED <<hconf, hr>>

\* Mutant: a message that fills its last block is padded as well.
SymEnd_always_pads(s) ==
  CASE hconf.pad = "Native" /\ ~s.finalize ->
         LET u == EncryptEnd(s.crypter)
         IN  [s |-> [s EXCEPT !.finalize = TRUE, !.symbuffix = 0, !.crypter = u.c],
              out |-> u.out, panic |-> FALSE]
    [] hconf.pad = "UnsizedPadding" ->
         LET u == Encrypt(s.crypter, [n \in 1..(Block - s.symbuffix) |-> Pad])
         IN  [s |-> [s EXCEPT !.symbuffix = 0, !.crypter = u.c],
              out |-> u.out, panic |-> u.out = <<>>]
    [] OTHER -> [s |-> s, out |-> <<>>, panic |-> FALSE]

\* The end of a message on the symmetric cipher: finalize, or fill the block up.
\* The code asserts that the fill gives exactly one block.
SymEnd(s) ==
  CASE hconf.pad = "Native" /\ ~s.finalize ->
         LET u == EncryptEnd(s.crypter)
         IN  [s |-> [s EXCEPT !.finalize = TRUE, !.symbuffix = 0, !.crypter = u.c],
              out |-> u.out, panic |-> FALSE]
    [] hconf.pad = "UnsizedPadding" /\ s.symbuffix # 0 ->
         LET u == Encrypt(s.crypter, [n \in 1..(Block - s.symbuffix) |-> Pad])
         IN  [s |-> [s EXCEPT !.symbuffix = 0, !.crypter = u.c],
              out |-> u.out, panic |-> u.out = <<>>]
    [] OTHER -> [s |-> s, out |-> <<>>, panic |-> FALSE]

\* A transport with a length limiter marks the end of the message.
Limit == IF hconf.bounded THEN <<[kind |-> "end", val |-> 0]>> ELSE <<>>

EndMsg(w) == [w EXCEPT !.open = FALSE, !.msg = @ + 1, !.pos = 0]

\* Mutant: the end of a message leaves the last block in the buffer.
write_end_unpadded ==
  /\ hw.open /\ hw.pos = hconf.lens[hw.msg]
  /\ hw' = EndMsg([hw EXCEPT !.asym = <<>>])
  /\ Put(Limit)
  /\ UNCHANGED <<hconf, hr>>

write_end ==
  /\ hw.open /\ hw.pos = hconf.lens[hw.msg]
  /\ CASE hconf.mode = "ASymSym" ->
            LET e == SymEnd(hw.sym[1])
            IN  /\ hw' = EndMsg([hw EXCEPT !.sym = <<e.s>>, !.panic = e.panic])
                /\ Put(e.out \o Limit)
       [] hconf.mode = "ASymOnly" ->
            /\ hw' = EndMsg([hw EXCEPT !.asym = <<>>])
            /\ Put((IF hw.asym = <<>> THEN <<>>
                    ELSE <<[kind |-> "asym", val |-> hw.asym]>>) \o Limit)
       [] OTHER -> hw' = EndMsg(hw) /\ Put(Limit)
  /\ UNCHANGED <<hconf, hr>>

-----------------------------------------------------------------------------
(* The reader.  The fields of hr: the message and what was read of it, the  *)
(* size of the pending read_from (0: none), the mode and key read from the  *)
(* headers, the symmetric cipher, underbuf and the buffer of the public key *)
(* mode.                                                                    *)

Available == hwire # <<>>
AtEnd == Available /\ hwire[1].kind = "end"
Head1 == hwire[1]
IsTest == hconf.mode \in ShadowModeTest

\* The mode a tag byte stands for; OSSLShadowerR takes any other tag for None.
ModeOf(tag) ==
  IF IsTest THEN CHOOSE m \in ShadowModeTest : Tag[m] = tag
  ELSE IF tag \in {1, 2} THEN CHOOSE m \in ASymSymMode : Tag[m] = tag ELSE "None"

\* The tag, then the key where the mode has one.
ReadTag ==
  LET mode == ModeOf(Head1.val)
      keyed == mode \in {"ASymSym", "SimpleShift"}
  IN  /\ IsTest \/ ~hr.init
      /\ Available /\ (keyed => Len(hwire) > 1)
      /\ hr' = [hr EXCEPT !.open = TRUE, !.init = TRUE, !.mode = mode,
                          !.shift = IF mode = "SimpleShift" THEN hwire[2].val ELSE 0,
                          !.sym = IF mode = "ASymSym" THEN <<OSSLSym(hwire[2].val)>> ELSE @,
                          !.err = hwire[1].kind # "tag" \/ (keyed /\ hwire[2].kind # "key")]
      /\ hwire' = SubSeq(hwire, IF keyed THEN 3 ELSE 2, Len(hwire))

\* After a finalize that failed, the buffer of the old cipher is fed to the new one.
Carried(s) ==
  LET n == SymHeader(s)
  IN  IF hconf.pad = "Native" /\ s.finalize /\ s.symbuffix > 0
      THEN [n EXCEPT !.crypter = [@ EXCEPT !.nr = 1, !.held = [i \in 1..Block |-> Garbage]]]
      ELSE n

\* Later headers read nothing: the reader only follows the writer's iv.
NoTag ==
  /\ ~IsTest /\ hr.init
  /\ hr' = [hr EXCEPT !.open = TRUE,
                      !.sym = IF @ = <<>> THEN @ ELSE <<Carried(@[1])>>,
                      !.under = IF hr.sym # <<>> /\ hconf.pad = "Native" /\ hr.sym[1].finalize
                                THEN <<>> ELSE @]
  /\ UNCHANGED hwire

read_header ==
  /\ ~hr.open /\ hr.msg <= Len(hconf.lens)
  /\ ReadTag \/ NoTag
  /\ UNCHANGED <<hconf, hw>>

\* The caller wants the bytes it still expects of the message, k at a time.  It asks
\* for more than is left only where the transport ends with the message.
Ask(k) ==
  /\ hr.open /\ hr.req = 0 /\ Len(hr.got) < hconf.lens[hr.msg]
  /\ k <= hconf.lens[hr.msg] - Len(hr.got) \/ hconf.bounded
  /\ hr' = [hr EXCEPT !.req = k]
  /\ UNCHANGED <<hconf, hw, hwire>>

\* What read_from returns; the caller keeps no more than it expects, because of
\* the padding nobody removes.
Return(r, bytes) ==
  [r EXCEPT !.req = 0,
            !.got = @ \o SubSeq(bytes, 1, Shorter(Len(bytes), hconf.lens[r.msg] - Len(@)))]

\* Of the bytes produced, those the buffer has no room for stay in underbuf.
Serve(r, bytes) ==
  LET n == Shorter(r.req, Len(bytes))
  IN  [Return(r, SubSeq(bytes, 1, n)) EXCEPT !.under = SubSeq(bytes, n + 1, Len(bytes))]

\* One block decrypted.  The Native crypter gives nothing for the first one, and
\* read_from calls itself again: the request stays.
SymRead ==
  LET s == hr.sym[1]
      u == Decrypt(s.crypter, Head1)
      s1 == [s EXCEPT !.crypter = u.c,
                      !.symbuffix = (@ + (IF hconf.pad = "Native" THEN Block ELSE Len(u.out)))
                                    % Block]
      r == [hr EXCEPT !.sym = <<s1>>]
  IN  /\ hr.under = <<>> /\ ~s.finalize /\ Available /\ ~AtEnd
      /\ hr' = IF u.out = <<>> THEN r
               ELSE IF hr.req > Block + Block THEN Return(r, u.out) ELSE Serve(r, u.out)
      /\ hwire' = Tail(hwire)

\* The transport has no more bytes: the Native crypter is finalized, which fails on a
\* block that does not end in padding; the others return 0.
SymReadEnd ==
  LET s == hr.sym[1]
      last == Unpadded(s.crypter.held)
  IN  /\ hr.under = <<>> /\ AtEnd
      /\ hr' = IF hconf.pad = "Native" /\ ~s.finalize
               THEN LET r == [hr EXCEPT !.sym = <<[s EXCEPT !.finalize = TRUE]>>,
                                        !.err = Len(last) = Len(s.crypter.held)]
                    IN  IF hr.req > Block + Block THEN Return(r, last) ELSE Serve(r, last)
               ELSE [hr EXCEPT !.req = 0, !.err = TRUE]
      /\ UNCHANGED hwire

\* The public key mode decrypts a block when its buffer is used up.
AsymRead ==
  LET fresh == hr.under = <<>>
      plain == IF ~fresh THEN hr.under
               ELSE IF Head1.kind = "asym" THEN Head1.val ELSE <<Garbage>>
  IN  /\ fresh => Available
      /\ IF fresh /\ AtEnd
         THEN hr' = [hr EXCEPT !.req = 0, !.err = TRUE] /\ UNCHANGED hwire
         ELSE /\ hr' = Serve(hr, plain)
              /\ hwire' = IF fresh THEN Tail(hwire) ELSE hwire

\* The transport gives the bytes it has; the test shadower shifts them back.
Bytes == {n \in 0..Len(hwire) : \A i \in 1..n : hwire[i].kind = "byte"}

PlainRead ==
  LET n == Shorter(hr.req, Max(Bytes))
  IN  /\ Available
      /\ hr' = IF n = 0 THEN [hr EXCEPT !.req = 0, !.err = TRUE]
               ELSE Return(hr, [i \in 1..n |-> IF hwire[i].key = hr.shift THEN hwire[i].val
                                                                          ELSE Garbage])
      /\ hwire' = SubSeq(hwire, n + 1, Len(hwire))

read_from ==
  /\ hr.open /\ hr.req > 0
  /\ CASE hr.mode = "ASymSym" -> \/ hr.under # <<>> /\ hr' = Serve(hr, hr.under)
                                    /\ UNCHANGED hwire
                                 \/ SymRead
                                 \/ SymReadEnd
       [] hr.mode = "ASymOnly" -> AsymRead
       [] OTHER -> PlainRead
  /\ UNCHANGED <<hconf, hw>>

\* What is left in underbuf is padding.  A Native crypter that was not finalized by a
\* read is finalized here.  An error there, with no padding in the last block or with
\* no block at all, is not returned: the reader takes its buffer for the next message.
SymReadDone(s) ==
  IF hconf.pad = "Native" /\ ~s.finalize
  THEN [s EXCEPT !.finalize = TRUE,
                 !.symbuffix = IF @ # 0 THEN @
                               ELSE IF Unpadded(s.crypter.held) = s.crypter.held THEN Block
                               ELSE Len(Unpadded(s.crypter.held))]
  ELSE s

\* A length limiter skips what is left of the message, to its mark.
Ends == {n \in 1..Len(hwire) : hwire[n].kind = "end"}

read_end ==
  /\ hr.open /\ hr.req = 0 /\ Len(hr.got) = hconf.lens[hr.msg]
  /\ hconf.bounded => Ends # {}
  /\ hr' = [hr EXCEPT !.open = FALSE, !.msg = @ + 1, !.got = <<>>,
                      !.under = IF hr.mode = "ASymSym" /\ hconf.pad # "NoPadding"
                                THEN <<>> ELSE @,
                      !.sym = IF @ = <<>> THEN @ ELSE <<SymReadDone(@[1])>>]
  /\ hwire' = IF hconf.bounded THEN SubSeq(hwire, Min(Ends) + 1, Len(hwire)) ELSE hwire
  /\ UNCHANGED <<hconf, hw>>

-----------------------------------------------------------------------------
HInit ==
  /\ hconf \in HConfs
  /\ hw = [msg |-> 1, pos |-> 0, open |-> FALSE, init |-> FALSE, shift |-> 0,
           sym |-> <<>>, asym |-> <<>>, panic |-> FALSE]
  /\ hr = [msg |-> 1, got |-> <<>>, open |-> FALSE, init |-> FALSE, req |-> 0,
           mode |-> "ASymSym", shift |-> 0, sym |-> <<>>, under |-> <<>>, err |-> FALSE]
  /\ hwire = <<>>

Writer == write_header \/ flush_into \/ write_end \/ \E k \in HBuf : write_into(k)
Reader == read_header \/ read_from \/ read_end \/ \E k \in HBuf : Ask(k)
HNext == Writer \/ Reader
HSpec == HInit /\ [][HNext]_hvars /\ WF_hvars(Writer) /\ WF_hvars(Reader)

-----------------------------------------------------------------------------
HTypeOK ==
  /\ hconf \in HConfs
  /\ hw.msg \in 1..(Len(hconf.lens) + 1) /\ hr.msg \in 1..(Len(hconf.lens) + 1)
  /\ hr.mode \in ASymSymMode \cup ShadowModeTest
  /\ Len(hw.sym) <= 1 /\ Len(hr.sym) <= 1
  /\ Len(hr.under) <= Block + Block + AsymDec

\* A message of no byte was read with Native padding: read_end finalizes a decrypter
\* that was given no block and fails, and read_header then feeds the buffer of that
\* message to the cipher of the next one.
AfterEmpty == hconf.mode = "ASymSym" /\ hconf.pad = "Native" /\ \E m \in 1..(hr.msg - 1) : hconf.lens[m] = 0

\* What a peer reads of a message is what the other wrote of it, from the first byte
\* on, whatever the sizes of the buffers on either side and however far the writer is
\* ahead: no padding, no byte of another message, no block taken with the wrong place
\* of the chain.  Nothing fails: no header is misread, the transport does not end
\* before the message, and the assertion on the padding of a block holds.
\* Nothing is said of what follows an empty message under Native padding, whose
\* block of padding nobody reads: see AfterEmpty.
RoundTrip ==
  /\ ~hw.panic
  /\ AfterEmpty \/ (~hr.err /\ (hr.msg <= Len(hconf.lens) => hr.got = SubSeq(Expected, 1, Len(hr.got))))

\* Every message is read to its end: the bytes a reader waits for are not kept back
\* by the writer, and read_from does not wait for a block of the next message.
Done == hr.msg = Len(hconf.lens) + 1

AllRead == <>Done
=============================================================================
