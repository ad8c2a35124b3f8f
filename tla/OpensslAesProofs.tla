-------------------------- MODULE OpensslAesProofs --------------------------
(***************************************************************************)
(* Proofs about OpensslAes, for every block size and every bound: the      *)
(* room the code asks for is enough, an open message has usable contexts,  *)
(* the decryptor is armed with the first tag, and the back end implements  *)
(* CipherStream.                                                           *)
(***************************************************************************)
EXTENDS OpensslAes, ByteSpansProofs

-----------------------------------------------------------------------------
(* The inductive invariant. *)

\* A context never holds back more than a block.
HeldShort == Len(enc.held) <= Block /\ Len(dec.held) <= Block

\* No context has been given more than the message.
HasFits == enc.has.len <= fed /\ dec.has.len <= fed

\* While a message is open only the context of its direction holds anything back, and
\* what is written and what is held back make up the message.
NothingLost ==
  stream = "open" =>
    /\ dir = "none" => fed = 0
    /\ IF dir = "dec" THEN enc.held = <<>> /\ out \o dec.held = Span(0, fed)
                      ELSE dec.held = <<>> /\ out \o enc.held = Span(0, fed)

\* The good flag is down once a message is finalized.
GoodIsLive == good => life = "live" /\ stream \in {"open", "broken"}

\* There is a message exactly when there is a cipher.
LifeOfStream ==
  IF life = "none"
  THEN stream = "none" /\ fed = 0 /\ out = <<>> /\ ended = <<>> /\ msg = 0
  ELSE stream # "none" /\ msg > 0

\* The tag buffer is filled once, by the first message that is encrypted.
TagOfFirst ==
  mode = "GCM" =>
    /\ ended = <<>> => tag \in {NoTag, Given}
    /\ ended # <<>> /\ tag # Given => tag = ended[1]
    /\ \A e \in DOMAIN ended : ended[e].of > 0

\* The decryptor of an open message has been given what is in the tag buffer.
ArmedWithTag == mode = "GCM" /\ stream = "open" => dec.tag = tag

IInv ==
  /\ OpenMeansReady
  /\ NoOverrun
  /\ HeldShort
  /\ HasFits
  /\ NothingLost
  /\ GoodIsLive
  /\ LifeOfStream
  /\ TagOfFirst
  /\ ArmedWithTag

-----------------------------------------------------------------------------
(* What an update does, whatever the mode and the direction. *)

Ctx(op) == IF op = "enc" THEN enc ELSE dec

\* A context keeps no more than it has, and no more than a block.
LEMMA KeepsRange ==
  ASSUME NEW op, NEW n \in Nat
  PROVE  EVPKeeps(op, n) \in 0..n /\ EVPKeeps(op, n) <= Block
<1> DEFINE q == n \div Block
           r == n % Block
<1>1. Block \in Nat \ {0}
  BY BlockAssumption
<1>2. q \in Nat /\ n = Block * q + r /\ r \in 0..(Block - 1)
  BY <1>1, ModDiv, ModRange, Zenon
<1>3. EVPKeeps(op, n) = 0 \/ EVPKeeps(op, n) = r \/ (n > 0 /\ r = 0 /\ EVPKeeps(op, n) = Block)
  BY DEF EVPKeeps
<1> HIDE DEF q, r
<1>4. Block * q >= 0 /\ (q > 0 => Block * q >= Block)
  BY <1>1, <1>2
<1>5. n > 0 /\ r = 0 => n >= Block
  BY <1>1, <1>2, <1>4
<1> QED
  BY <1>1, <1>2, <1>3, <1>4, <1>5

\* A context that is given k bytes cuts what it has in two: one part is written, and
\* fits a buffer with room for a block more than the input, the other is held back.
UpdateEffect(op, k, of) ==
  \E bytes, held \in Seq(Nat) :
    /\ bytes \o held = Ctx(op).held \o Span(fed, fed + k)
    /\ Len(held) <= Block
    /\ out' = out \o bytes
    /\ Ctx(op)' = [ready |-> Ctx(op).ready, held |-> held,
                   has |-> [of |-> of, len |-> Ctx(op).has.len + k], tag |-> Ctx(op).tag]
    /\ IF op = "enc" THEN dec' = dec ELSE enc' = enc

\* An EVP update that is given enough room has that effect.
LEMMA EVPUpdateStep ==
  ASSUME TypeOK, HeldShort, NoOverrun, NEW op \in {"enc", "dec"}, NEW k \in Nat, NEW of,
         NEW space \in Nat, k + Block <= space, EVPUpdate(op, Ctx(op), k, of, space)
  PROVE  ret' = "ok" /\ NoOverrun' /\ UpdateEffect(op, k, of)
<1> DEFINE ctx == Ctx(op)
           all == ctx.held \o Span(fed, fed + k)
           keep == EVPKeeps(op, Len(all))
           n == Len(all) - keep
<1>1. /\ ctx \in Context /\ ctx.held \in Seq(Nat) /\ Len(ctx.held) <= Block
      /\ Len(ctx.held) \in Nat /\ Block \in Nat
  BY BlockAssumption, LenProperties DEF TypeOK, HeldShort, Ctx, Context
<1>2. all \in Seq(Nat) /\ Len(all) = Len(ctx.held) + k
  <2>1. fed \in Nat /\ fed + k \in Nat /\ fed <= fed + k /\ (fed + k) - fed = k
    BY OpensslAssumption DEF TypeOK
  <2>2. Span(fed, fed + k) \in Seq(Nat) /\ Len(Span(fed, fed + k)) = (fed + k) - fed
    BY <2>1, SpanType, Zenon
  <2> QED
    BY <1>1, <2>1, <2>2, ConcatProperties, Zenon
<1>3. keep \in 0..Len(all) /\ keep <= Block /\ Len(all) \in Nat
  <2>1. Len(all) \in Nat
    BY <1>2, LenProperties, Zenon
  <2> QED
    BY <2>1, KeepsRange, Zenon
<1>4. n \in 0..Len(all) /\ Len(all) - n = keep /\ n <= space
  <2> HIDE DEF keep, all, ctx
  <2> QED
    BY <1>1, <1>2, <1>3
<1>5. /\ ret' = "ok"
      /\ out' = out \o SubSeq(all, 1, n)
      /\ overrun' = (overrun \/ n > space)
      /\ Ctx(op)' = [ctx EXCEPT !.held = SubSeq(all, n + 1, Len(all)),
                                !.has = [of |-> of, len |-> ctx.has.len + k]]
      /\ IF op = "enc" THEN dec' = dec ELSE enc' = enc
  BY Zenon DEF EVPUpdate, Ctx
<1> HIDE DEF n, keep, all
<1>6. /\ SubSeq(all, 1, n) \in Seq(Nat) /\ SubSeq(all, n + 1, Len(all)) \in Seq(Nat)
      /\ Len(SubSeq(all, n + 1, Len(all))) = Len(all) - n
      /\ SubSeq(all, 1, n) \o SubSeq(all, n + 1, Len(all)) = all
  BY <1>2, <1>4, CutInTwo, Zenon
<1>7. NoOverrun'
  <2>1. ~(n > space)
    BY <1>3, <1>4
  <2> QED
    BY <1>5, <2>1, Zenon DEF NoOverrun
<1> DEFINE held == SubSeq(all, n + 1, Len(all))
           bytes == SubSeq(all, 1, n)
<1>8. Ctx(op)' = [ready |-> ctx.ready, held |-> held,
                  has |-> [of |-> of, len |-> ctx.has.len + k], tag |-> ctx.tag]
  <2> DEFINE has == [of |-> of, len |-> ctx.has.len + k]
  <2>1. Ctx(op)' = [ctx EXCEPT !.held = held, !.has = has]
    BY <1>5
  <2> HIDE DEF held, ctx, has
  <2>2. Ctx(op)' = [ready |-> ctx.ready, held |-> held, has |-> has, tag |-> ctx.tag]
    BY <1>1, <2>1, Zenon DEF Context
  <2> QED
    BY <2>2 DEF has
<1>9. /\ held \in Seq(Nat) /\ bytes \in Seq(Nat) /\ bytes \o held = all /\ Len(held) <= Block
  BY <1>3, <1>4, <1>6, Zenon
<1>10. out' = out \o bytes
  BY <1>5
<1> HIDE DEF held, bytes
<1> QED
  BY <1>5, <1>7, <1>8, <1>9, <1>10, Zenon DEF UpdateEffect, all

-----------------------------------------------------------------------------
(* The calls. *)

\* A call that the front end refuses.
Refused == ret' \in Returns /\ UNCHANGED <<life, good, others>>

\* An update that reaches the vtable.
UpdateCall(op, k, of, space) ==
  /\ good /\ good' = (ret' \notin Fatal)
  /\ UNCHANGED life
  /\ fed + k <= MaxFed
  /\ IF op = "enc" THEN s_encrypt(k, space) /\ of = msg ELSE s_decrypt(k, of, space)
  /\ TrackUpdate(op, k)

\* A finalize that reaches the vtable.
FinalCall(op, space) ==
  /\ good /\ good' = FALSE
  /\ UNCHANGED life
  /\ IF op = "enc"
     THEN IF mode = "GCM" THEN s_finalize_gcm_encryption(space)
                          ELSE s_finalize_encryption(space) /\ UNCHANGED tag
     ELSE s_finalize_decryption(space) /\ UNCHANGED tag
  /\ TrackFinalize(op)

\* The front end refuses an update or dispatches it to the vtable.
LEMMA DispatchUpdate ==
  ASSUME NEW space, NEW k, TypeOK,
         Encrypt(k, space) \/ \E of \in {-1} \cup 1..msg : Decrypt(k, of, space)
  PROVE  \/ Refused
         \/ \E op \in {"enc", "dec"} : \E of \in -1..MaxMsg : UpdateCall(op, k, of, space)
<1>1. msg \in -1..MaxMsg /\ \A of \in {-1} \cup 1..msg : of \in -1..MaxMsg
  BY OpensslAssumption DEF TypeOK
<1>2. CASE Encrypt(k, space)
  <2>1. Refused \/ UpdateCall("enc", k, msg, space)
    BY <1>2 DEF Encrypt, Refused, UpdateCall, Returns, aws_symmetric_cipher_encrypt
  <2> QED
    BY <1>1, <2>1
<1>3. ASSUME NEW of \in {-1} \cup 1..msg, Decrypt(k, of, space)
      PROVE  Refused \/ UpdateCall("dec", k, of, space)
  BY <1>3 DEF Decrypt, Refused, UpdateCall, Returns, aws_symmetric_cipher_encrypt,
              aws_symmetric_cipher_decrypt
<1> QED
  BY <1>1, <1>2, <1>3

\* The front end refuses a finalize or dispatches it to the vtable.
LEMMA DispatchFinal ==
  ASSUME NEW space, FinalizeEncryption(space) \/ FinalizeDecryption(space)
  PROVE  Refused \/ FinalCall("enc", space) \/ FinalCall("dec", space)
  BY DEF FinalizeEncryption, FinalizeDecryption, Refused, FinalCall, Returns,
         aws_symmetric_cipher_finalize_encryption, aws_symmetric_cipher_finalize_decryption

\* A refused call, or no step at all, preserves the invariant.
LEMMA RefusedKeeps ==
  ASSUME IInv, (Refused /\ UNCHANGED mode) \/ UNCHANGED vars
  PROVE  IInv'
<1>1. ret' \in Returns /\ UNCHANGED <<life, good, mode, others>>
  BY DEF IInv, OpenMeansReady, TypeOK, Refused, vars
<1>2. UNCHANGED <<life, good, mode, enc, dec, tag, out, fed, dir, stream, msg, ended, overrun>>
  BY <1>1 DEF others
<1>3. OpenMeansReady'
  BY <1>1, <1>2 DEF IInv, OpenMeansReady, TypeOK
<1>4. NoOverrun' /\ HeldShort' /\ HasFits' /\ NothingLost' /\ GoodIsLive'
  BY <1>2 DEF IInv, NoOverrun, HeldShort, HasFits, NothingLost, GoodIsLive
<1>5. LifeOfStream' /\ TagOfFirst' /\ ArmedWithTag'
  BY <1>2 DEF IInv, LifeOfStream, TagOfFirst, ArmedWithTag
<1> QED
  BY <1>3, <1>4, <1>5 DEF IInv

\* An update that reaches the vtable is refused for lack of room, fails in libcrypto, or
\* goes through a context; never is the caller's buffer too small for what is written.
LEMMA UpdateOutcome ==
  ASSUME IInv, NEW op \in {"enc", "dec"}, NEW k \in Nat, NEW of, NEW space \in Nat,
         UpdateCall(op, k, of, space)
  PROVE  /\ NoOverrun'
         /\ \/ ret' \in {"short_buffer", "provider_error"} /\ UNCHANGED <<enc, dec, out>>
            \/ ret' = "ok" /\ UpdateEffect(op, k, of)
<1>1. TypeOK /\ HeldShort /\ NoOverrun
  BY DEF IInv, OpenMeansReady
<1>2. \/ ret' \in {"short_buffer", "provider_error"} /\ UNCHANGED <<enc, dec, out, overrun>>
      \/ k + Block <= space /\ EVPUpdate(op, Ctx(op), k, of, space)
  BY DEF UpdateCall, s_encrypt, s_decrypt, EVPFails, Ctx,
         aws_symmetric_cipher_try_ensure_sufficient_buffer_space
<1> QED
  BY <1>1, <1>2, EVPUpdateStep DEF NoOverrun

\* The context of the message's direction has what is missing of the message, and the
\* other one nothing.
LEMMA MissingPart ==
  ASSUME IInv, stream = "open", NEW op \in {"enc", "dec"}, dir \in {"none", op}
  PROVE  out \o Ctx(op).held = Span(0, fed) /\ (IF op = "enc" THEN dec ELSE enc).held = <<>>
<1>1. /\ out \in Seq(Nat) /\ enc.held \in Seq(Nat) /\ dec.held \in Seq(Nat) /\ fed \in Nat
      /\ NothingLost
  BY OpensslAssumption DEF IInv, OpenMeansReady, TypeOK, Context
<1>2. CASE dir = op
  BY <1>1, <1>2 DEF NothingLost, Ctx
<1>3. CASE dir = "none"
  <2>1. fed = 0 /\ dec.held = <<>> /\ out \o enc.held = Span(0, 0)
    BY <1>1, <1>3 DEF NothingLost
  <2>2. out = <<>> /\ enc.held = <<>> /\ Span(0, 0) = <<>>
    <3>1. 0 \in Nat
      OBVIOUS
    <3>2. Span(0, 0) = <<>>
      BY <3>1, SpanEmpty, Zenon
    <3>3. out \o enc.held = <<>>
      BY <2>1, <3>2
    <3> QED
      BY <1>1, <3>2, <3>3, ConcatEmpty, Zenon
  <2> QED
    BY <2>1, <2>2 DEF Ctx
<1> QED
  BY <1>2, <1>3

\* After an update of an open message nothing is lost.
LEMMA UpdateLosesNothing ==
  ASSUME IInv, NEW op \in {"enc", "dec"}, NEW k \in Nat, NEW of, UpdateEffect(op, k, of),
         TrackUpdate(op, k), ret' = "ok"
  PROVE  NothingLost'
<1> SUFFICES ASSUME stream' = "open"
             PROVE  /\ dir' = "none" => fed' = 0
                    /\ IF dir' = "dec"
                       THEN enc'.held = <<>> /\ out' \o dec'.held = Span(0, fed')
                       ELSE dec'.held = <<>> /\ out' \o enc'.held = Span(0, fed')
  BY DEF NothingLost
<1>1. /\ out \in Seq(Nat) /\ enc.held \in Seq(Nat) /\ dec.held \in Seq(Nat) /\ fed \in Nat
      /\ NothingLost /\ stream = "open" /\ dir \in {"none", "enc", "dec"}
  BY OpensslAssumption DEF IInv, OpenMeansReady, TypeOK, Context, TrackUpdate
<1>2. /\ fed' = fed + k /\ dir \in {"none", dir'}
      /\ dir' = IF k = 0 THEN dir ELSE op
  BY DEF TrackUpdate
<1>3. PICK bytes \in Seq(Nat), held \in Seq(Nat) :
        /\ bytes \o held = Ctx(op).held \o Span(fed, fed + k)
        /\ Len(held) <= Block
        /\ out' = out \o bytes
        /\ Ctx(op)' = [ready |-> Ctx(op).ready, held |-> held,
                       has |-> [of |-> of, len |-> Ctx(op).has.len + k], tag |-> Ctx(op).tag]
        /\ IF op = "enc" THEN dec' = dec ELSE enc' = enc
  BY Zenon DEF UpdateEffect
<1>4. IF op = "enc" THEN enc'.held = held /\ dec' = dec ELSE dec'.held = held /\ enc' = enc
  BY <1>3 DEF Ctx
<1>5. Ctx(op).held \in Seq(Nat)
  BY <1>1 DEF Ctx
<1>6. CASE dir \in {"none", op}
  <2>1. out \o Ctx(op).held = Span(0, fed) /\ (IF op = "enc" THEN dec ELSE enc).held = <<>>
    BY <1>1, <1>6, MissingPart, Zenon
  <2>2. (out \o bytes) \o held = Span(0, fed + k)
    <3>1. out \o (Ctx(op).held \o Span(fed, fed + k)) = Span(0, fed + k)
      BY <1>1, <1>5, <2>1, Extend, ZenonT(40)
    <3>2. (out \o bytes) \o held = out \o (bytes \o held)
      BY <1>1, ConcatAssoc, ZenonT(40)
    <3> QED
      BY <1>3, <3>1, <3>2, Zenon
  <2>3. CASE dir' = op
    BY <1>2, <1>3, <1>4, <2>1, <2>2, <2>3, Zenon
  <2>4. CASE dir' = "none"
    <3>1. k = 0 /\ dir = "none" /\ fed = 0 /\ fed' = 0
      BY <1>1, <1>2, <2>4 DEF NothingLost
    <3>2. 0 \in Nat /\ out' \in Seq(Nat)
      <4>1. out \o bytes \in Seq(Nat)
        BY <1>1, ConcatNat, Zenon
      <4> QED
        BY <1>3, <4>1
    <3>3. Span(0, 0) = <<>>
      BY <3>2, SpanEmpty, Zenon
    <3>4. out' \o held = <<>>
      BY <1>3, <2>2, <3>1, <3>3
    <3>5. out' = <<>> /\ held = <<>>
      BY <3>2, <3>4, <1>3, ConcatEmpty, Zenon
    <3> QED
      BY <1>4, <2>1, <2>4, <3>1, <3>3, <3>4, <3>5
  <2> QED
    BY <1>2, <1>6, <2>3, <2>4
<1>7. CASE dir \notin {"none", op}
  <2>1. k = 0 /\ dir' = dir /\ fed' = fed
    BY <1>1, <1>2, <1>7
  <2>2. Ctx(op).held = <<>>
    BY <1>1, <1>7 DEF NothingLost, Ctx
  <2>3. Span(fed, fed + k) = <<>>
    <3>1. Span(fed, fed) = <<>>
      BY <1>1, SpanEmpty, Zenon
    <3> QED
      BY <1>1, <2>1, <3>1
  <2>4. bytes \o held = <<>>
    BY <1>3, <1>5, <2>2, <2>3, ConcatUnit
  <2>5. bytes = <<>> /\ held = <<>>
    BY <1>3, <2>4, ConcatEmpty, Zenon
  <2>6. out' = out
    BY <1>1, <1>3, <2>5, ConcatUnit
  <2> QED
    BY <1>1, <1>7, <1>4, <2>1, <2>5, <2>6, Zenon DEF NothingLost
<1> QED
  BY <1>6, <1>7

\* An encrypt or decrypt that reaches the vtable preserves the invariant.
LEMMA UpdateKeeps ==
  ASSUME IInv, NEW op \in {"enc", "dec"}, NEW k \in Nat, NEW of \in -1..MaxMsg,
         NEW space \in Nat, UpdateCall(op, k, of, space), UNCHANGED mode
  PROVE  IInv'
<1>1. /\ TypeOK /\ enc \in Context /\ dec \in Context /\ fed \in Nat /\ fed + k <= MaxFed
      /\ good /\ life = "live" /\ stream \in {"open", "broken"} /\ TrackUpdate(op, k)
      /\ MaxFed \in Nat /\ MaxMsg \in Nat
  BY OpensslAssumption DEF IInv, OpenMeansReady, TypeOK, GoodIsLive, UpdateCall
<1>2. /\ NoOverrun'
      /\ \/ ret' \in {"short_buffer", "provider_error"} /\ UNCHANGED <<enc, dec, out>>
         \/ ret' = "ok" /\ UpdateEffect(op, k, of)
  BY UpdateOutcome, Zenon
<1>3. /\ UNCHANGED <<tag, msg, ended>> /\ stream' \in {stream, "broken"}
      /\ fed' = IF ret' = "short_buffer" THEN fed ELSE fed + k
      /\ dir' = IF ret' = "short_buffer" \/ k = 0 THEN dir ELSE op
      /\ stream' # "broken" => stream' = stream /\ ret' \in {"ok", "short_buffer"}
  BY <1>1 DEF TrackUpdate
<1>4. /\ life' \in Lives /\ good' \in BOOLEAN /\ ret' \in Returns /\ overrun' \in BOOLEAN
      /\ mode' \in {"CBC", "CTR", "GCM"} /\ tag' \in Message /\ ended' \in Seq(Message)
      /\ fed' \in 0..MaxFed /\ msg' \in 0..MaxMsg /\ dir' \in {"none", "enc", "dec"}
      /\ stream' \in {"none", "open", "closed", "broken"}
  <2>1. overrun' \in BOOLEAN
    <3>1. CASE UNCHANGED overrun
      BY <1>1, <3>1 DEF TypeOK
    <3>2. CASE \E n : overrun' = (overrun \/ n > space)
      BY <3>2
    <3> QED
      BY <3>1, <3>2, Zenon DEF UpdateCall, s_encrypt, s_decrypt, EVPUpdate, EVPFails
  <2>2. ret' \in Returns /\ life' \in Lives /\ good' \in BOOLEAN
    BY <1>1, <1>2 DEF Returns, UpdateCall, TypeOK
  <2> QED
    BY <1>1, <1>3, <2>1, <2>2 DEF TypeOK
<1>5. GoodIsLive' /\ LifeOfStream' /\ TagOfFirst'
  BY <1>1, <1>3 DEF IInv, GoodIsLive, LifeOfStream, TagOfFirst, UpdateCall
<1>6. CASE ret' \in {"short_buffer", "provider_error"} /\ UNCHANGED <<enc, dec, out>>
  <2>1. OpenMeansReady'
    BY <1>1, <1>3, <1>4, <1>6, Zenon DEF IInv, OpenMeansReady, TypeOK, UpdateCall, Fatal
  <2>2. HeldShort' /\ ArmedWithTag'
    BY <1>3, <1>6 DEF IInv, HeldShort, ArmedWithTag
  <2>3. HasFits'
    <3>1. fed' >= fed /\ enc.has.len \in Int /\ dec.has.len \in Int /\ fed' \in Int
      BY <1>1, <1>3, <1>4 DEF Context, Message
    <3> QED
      BY <1>1, <1>6, <3>1 DEF IInv, HasFits
  <2>4. NothingLost'
    BY <1>3, <1>6, SMTT(30) DEF IInv, NothingLost
  <2> QED
    BY <1>2, <1>5, <2>1, <2>2, <2>3, <2>4 DEF IInv
<1>7. CASE ret' = "ok" /\ UpdateEffect(op, k, of)
  <2>1. PICK bytes \in Seq(Nat), held \in Seq(Nat) :
          /\ bytes \o held = Ctx(op).held \o Span(fed, fed + k)
          /\ Len(held) <= Block
          /\ out' = out \o bytes
          /\ Ctx(op)' = [ready |-> Ctx(op).ready, held |-> held,
                         has |-> [of |-> of, len |-> Ctx(op).has.len + k], tag |-> Ctx(op).tag]
          /\ IF op = "enc" THEN dec' = dec ELSE enc' = enc
    BY <1>7, Zenon DEF UpdateEffect
  <2> DEFINE has == [of |-> of, len |-> Ctx(op).has.len + k]
  <2>2. has \in Message /\ has.len <= fed' /\ fed' = fed + k
    <3>1. Ctx(op).has.len \in Nat /\ Ctx(op).has.len <= fed
      <4>1. enc.has.len \in 0..MaxFed /\ dec.has.len \in 0..MaxFed
        BY <1>1 DEF Context, Message
      <4>2. enc.has.len <= fed /\ dec.has.len <= fed
        BY DEF IInv, HasFits
      <4> QED
        BY <1>1, <4>1, <4>2 DEF Ctx
    <3>2. fed' = fed + k
      BY <1>3, <1>7
    <3>3. Ctx(op).has.len + k \in 0..MaxFed /\ Ctx(op).has.len + k <= fed + k
      BY <1>1, <3>1
    <3> QED
      BY <3>2, <3>3 DEF Message
  <2> HIDE DEF has
  <2>3. /\ Ctx(op)' \in Context /\ Ctx(op)'.held = held /\ Ctx(op)'.has = has
        /\ Ctx(op)'.ready = Ctx(op).ready /\ Ctx(op)'.tag = Ctx(op).tag
    <3>1. Ctx(op) \in Context
      BY <1>1 DEF Ctx
    <3> QED
      BY <2>1, <2>2, <3>1 DEF Context, has
  <2>4. /\ enc' \in Context /\ dec' \in Context
        /\ enc'.ready = enc.ready /\ dec'.ready = dec.ready /\ dec'.tag = dec.tag
    BY <1>1, <2>1, <2>3, SMTT(30) DEF Ctx
  <2>5. out' \in Seq(Nat)
    <3>1. out \in Seq(Nat)
      BY <1>1 DEF TypeOK
    <3>2. out \o bytes \in Seq(Nat)
      BY <3>1, ConcatNat, Zenon
    <3> QED
      BY <2>1, <3>2
  <2>6. OpenMeansReady'
    BY <1>1, <1>3, <1>4, <1>7, <2>4, <2>5, Zenon DEF IInv, OpenMeansReady, TypeOK, UpdateCall, Fatal
  <2>7. HeldShort'
    BY <2>1, <2>3 DEF IInv, HeldShort, Ctx
  <2>8. HasFits'
    <3>1. enc.has.len <= fed + k /\ dec.has.len <= fed + k
      <4>1. enc.has.len \in 0..MaxFed /\ dec.has.len \in 0..MaxFed
        BY <1>1 DEF Context, Message
      <4>2. enc.has.len <= fed /\ dec.has.len <= fed
        BY DEF IInv, HasFits
      <4> QED
        BY <1>1, <4>1, <4>2
    <3>2. (enc'.has = has \/ enc' = enc) /\ (dec'.has = has \/ dec' = dec)
      BY <2>1, <2>3 DEF Ctx
    <3> QED
      BY <2>2, <3>1, <3>2 DEF HasFits
  <2>9. ArmedWithTag'
    BY <1>3, <2>4 DEF IInv, ArmedWithTag
  <2>10. NothingLost'
    BY <1>1, <1>7, UpdateLosesNothing
  <2> QED
    BY <1>2, <1>5, <2>6, <2>7, <2>8, <2>9, <2>10 DEF IInv
<1> QED
  BY <1>2, <1>6, <1>7

\* What a finalize that reaches the vtable does: the bytes held back are written into a
\* buffer that has room for them, and the tag goes into an empty tag buffer.
LEMMA FinalOutcome ==
  ASSUME IInv, NEW op \in {"enc", "dec"}, NEW space \in Nat, FinalCall(op, space)
  PROVE  /\ NoOverrun' /\ overrun' \in BOOLEAN
         /\ ret' \in {"ok", "short_buffer", "provider_error"}
         /\ out' = out \/ out' = out \o Ctx(op).held
         /\ ret' = "ok" => out' = out \o Ctx(op).held
         /\ tag' = IF mode = "GCM" /\ op = "enc" /\ ret' = "ok" /\ tag = NoTag
                   THEN [of |-> msg, len |-> enc.has.len] ELSE tag
<1>1. overrun = FALSE /\ Block \in Nat
  BY BlockAssumption DEF IInv, NoOverrun, OpenMeansReady, TypeOK
<1>2. \/ ret' \in {"short_buffer", "provider_error"} /\ UNCHANGED <<out, overrun>>
      \/ /\ Block <= space /\ ret' \in {"ok", "provider_error"}
         /\ out' = out \o Ctx(op).held
         /\ overrun' = (overrun \/ (mode = "CBC" /\ Block > space))
  BY DEF FinalCall, s_finalize_gcm_encryption, s_finalize_encryption, s_finalize_decryption,
         EVPFinal, EVPFails, Ctx, aws_symmetric_cipher_try_ensure_sufficient_buffer_space
<1>3. overrun' = FALSE
  <2>1. Block <= space => ~(Block > space)
    BY <1>1
  <2> QED
    BY <1>1, <1>2, <2>1, Zenon
<1>4. tag' = IF mode = "GCM" /\ op = "enc" /\ ret' = "ok" /\ tag = NoTag
             THEN [of |-> msg, len |-> enc.has.len] ELSE tag
  BY DEF FinalCall, s_finalize_gcm_encryption, EVPFinal
<1> QED
  BY <1>2, <1>3, <1>4, Zenon DEF NoOverrun

\* The tag buffer keeps the tag of the first message that was encrypted.
LEMMA FinalKeepsTag ==
  ASSUME IInv, NEW op \in {"enc", "dec"}, NEW space \in Nat, FinalCall(op, space), UNCHANGED mode
  PROVE  TagOfFirst' /\ tag' \in Message /\ ended' \in Seq(Message)
<1> DEFINE m == [of |-> msg, len |-> enc.has.len]
<1>1. /\ tag \in Message /\ ended \in Seq(Message) /\ m \in Message /\ m.of = msg /\ msg > 0
      /\ TagOfFirst
  BY DEF IInv, OpenMeansReady, TypeOK, Context, Message, GoodIsLive, LifeOfStream, FinalCall
<1>2. /\ tag' = IF mode = "GCM" /\ op = "enc" /\ ret' = "ok" /\ tag = NoTag THEN m ELSE tag
      /\ ended' = IF op = "enc" /\ ret' = "ok" THEN Append(ended, m) ELSE ended
  BY FinalOutcome, Zenon DEF FinalCall, TrackFinalize
<1> HIDE DEF m
<1>3. CASE ~(op = "enc" /\ ret' = "ok")
  BY <1>1, <1>2, <1>3 DEF TagOfFirst
<1>4. CASE op = "enc" /\ ret' = "ok"
  <2>1. /\ Append(ended, m) \in Seq(Message)
        /\ Len(Append(ended, m)) = Len(ended) + 1 /\ Len(ended) \in Nat
        /\ Append(ended, m)[Len(ended) + 1] = m
        /\ \A e \in DOMAIN Append(ended, m) :
             \/ e \in DOMAIN ended /\ e <= Len(ended) /\ Append(ended, m)[e] = ended[e]
             \/ e = Len(ended) + 1 /\ Append(ended, m)[e] = m
    BY <1>1, AppendLast, Zenon
  <2>2. ended' = Append(ended, m) /\ ended' \in Seq(Message)
    BY <1>2, <1>4, <2>1
  <2>3. tag' \in Message
    BY <1>1, <1>2
  <2>4. ASSUME mode = "GCM"
        PROVE  \A e \in DOMAIN ended' : ended'[e].of > 0
    BY <1>1, <2>1, <2>2, <2>4 DEF TagOfFirst
  <2>5. ended' # <<>> /\ 1 \in DOMAIN ended'
    <3>1. Len(ended') >= 1
      BY <2>1, <2>2
    <3> QED
      BY <2>2, <3>1, EmptySeq, LenProperties
  <2>6. ASSUME mode = "GCM", tag' # Given
        PROVE  tag' = ended'[1]
    <3>1. CASE ended = <<>>
      <4>1. ended'[1] = m
        BY <2>1, <2>2, <2>5, <3>1, EmptySeq
      <4>2. tag = NoTag
        BY <1>1, <1>2, <2>6, <3>1, <1>4 DEF TagOfFirst, Given, NoTag
      <4> QED
        BY <1>2, <1>4, <2>6, <4>1, <4>2
    <3>2. CASE ended # <<>>
      <4>1. 1 \in DOMAIN ended /\ 1 <= Len(ended)
        BY <1>1, <3>2, EmptySeq, LenProperties
      <4>2. ended'[1] = ended[1]
        BY <2>1, <2>2, <2>5, <4>1
      <4>3. ended[1].of > 0
        BY <1>1, <2>6, <4>1 DEF TagOfFirst
      <4>4. tag # NoTag
        <5>1. NoTag.of = 0 /\ Given.of = -1
          BY DEF NoTag, Given
        <5>2. tag = NoTag => tag # Given
          BY <5>1
        <5> QED
          BY <1>1, <2>6, <3>2, <4>3, <5>1, <5>2 DEF TagOfFirst
      <4> QED
        BY <1>1, <1>2, <2>6, <3>2, <4>2, <4>4 DEF TagOfFirst
    <3> QED
      BY <3>1, <3>2
  <2> QED
    BY <2>2, <2>3, <2>4, <2>5, <2>6 DEF TagOfFirst
<1> QED
  BY <1>3, <1>4

\* A finalize that reaches the vtable preserves the invariant.
LEMMA FinalKeeps ==
  ASSUME IInv, NEW op \in {"enc", "dec"}, NEW space \in Nat, FinalCall(op, space), UNCHANGED mode
  PROVE  IInv'
<1>1. TypeOK /\ good /\ life = "live" /\ life' = "live" /\ good' = FALSE
  BY DEF IInv, OpenMeansReady, GoodIsLive, FinalCall
<1>2. /\ NoOverrun' /\ overrun' \in BOOLEAN
      /\ ret' \in {"ok", "short_buffer", "provider_error"}
      /\ out' = out \/ out' = out \o Ctx(op).held
  BY FinalOutcome, Zenon
<1>3. /\ dir' = op /\ stream' \in {"closed", "broken"} /\ UNCHANGED <<enc, dec, fed, msg>>
  BY DEF FinalCall, TrackFinalize
<1>4. TagOfFirst' /\ tag' \in Message /\ ended' \in Seq(Message)
  BY FinalKeepsTag, Zenon
<1>5. out' \in Seq(Nat)
  <2>1. out \in Seq(Nat) /\ Ctx(op).held \in Seq(Nat)
    BY <1>1 DEF TypeOK, Context, Ctx
  <2>2. out \o Ctx(op).held \in Seq(Nat)
    BY <2>1, ConcatNat, Zenon
  <2> QED
    BY <1>2, <2>1, <2>2, Zenon
<1>6. OpenMeansReady'
  BY <1>1, <1>2, <1>3, <1>4, <1>5, Zenon DEF OpenMeansReady, TypeOK, Lives, Returns
<1>7. HeldShort' /\ HasFits' /\ NothingLost' /\ GoodIsLive' /\ LifeOfStream' /\ ArmedWithTag'
  BY <1>1, <1>3 DEF IInv, HeldShort, HasFits, NothingLost, GoodIsLive, LifeOfStream, ArmedWithTag
<1> QED
  BY <1>2, <1>4, <1>6, <1>7 DEF IInv

-----------------------------------------------------------------------------
(* Construction, reset and destruction. *)

\* A context that has seen nothing of the message.
Unused(ctx) == ctx \in Context /\ ctx.held = <<>> /\ ctx.has = NoTag

\* A message that has just begun, or no message at all.
Fresh ==
  /\ life \in Lives /\ good \in BOOLEAN /\ ret \in Returns
  /\ mode \in {"CBC", "CTR", "GCM"}
  /\ Unused(enc) /\ Unused(dec)
  /\ tag \in Message /\ ended \in Seq(Message) /\ TagOfFirst
  /\ out = <<>> /\ fed = 0 /\ dir = "none" /\ msg \in 0..MaxMsg
  /\ stream \in {"none", "open", "broken"}
  /\ stream = "open" => good /\ enc.ready /\ dec.ready /\ (mode = "GCM" => dec.tag = tag)
  /\ good => life = "live"
  /\ IF life = "none" THEN stream = "none" /\ ended = <<>> /\ msg = 0
                      ELSE stream # "none" /\ msg > 0
  /\ overrun = FALSE

\* A cipher that has seen no byte of its message satisfies the invariant.
LEMMA FreshInv == Fresh => IInv
<1> SUFFICES ASSUME Fresh
             PROVE  IInv
  OBVIOUS
<1>1. <<>> \in Seq(Nat) /\ Len(<<>>) = 0 /\ Block \in Nat /\ MaxFed \in Nat
  BY EmptySeq, BlockAssumption, OpensslAssumption
<1>2. Span(0, 0) = <<>> /\ <<>> \o <<>> = <<>>
  BY <1>1, SpanEmpty, ConcatUnit
<1>3. OpenMeansReady
  <2>1. TypeOK
    <3>1. enc \in Context /\ dec \in Context
      BY DEF Fresh, Unused
    <3>2. fed \in 0..MaxFed /\ out \in Seq(Nat) /\ overrun \in BOOLEAN
      <4>1. fed = 0 /\ out = <<>> /\ overrun = FALSE
        BY DEF Fresh
      <4>2. 0 \in 0..MaxFed
        BY <1>1
      <4> QED
        BY <1>1, <4>1, <4>2, Zenon
    <3> QED
      BY <3>1, <3>2, Zenon DEF Fresh, TypeOK
  <2> QED
    BY <2>1, Zenon DEF Fresh, OpenMeansReady
<1>4. HeldShort /\ HasFits
  BY <1>1 DEF Fresh, Unused, HeldShort, HasFits, NoTag
<1>5. NothingLost
  BY <1>2 DEF Fresh, Unused, NothingLost
<1>6. NoOverrun /\ GoodIsLive /\ LifeOfStream /\ ArmedWithTag
  BY DEF Fresh, NoOverrun, GoodIsLive, LifeOfStream, ArmedWithTag
<1> QED
  BY <1>3, <1>4, <1>5, <1>6 DEF IInv, Fresh

\* The messages and contexts of the definitions have their types.
LEMMA BlankType ==
  NoTag \in Message /\ Given \in Message /\ Unused(Blank) /\ <<>> \in Seq(Message)
<1>1. NoTag \in Message /\ Given \in Message /\ <<>> \in Seq(Nat) /\ <<>> \in Seq(Message)
  BY OpensslAssumption, EmptySeq DEF Message, NoTag, Given
<1> QED
  BY <1>1 DEF Blank, Unused, Context

\* The invariant holds before any cipher is constructed.
LEMMA InitInv == Init => IInv
<1>1. 0 \in 0..MaxMsg /\ DOMAIN <<>> = {}
  BY OpensslAssumption
<1>2. Init => TagOfFirst
  BY <1>1, Zenon DEF Init, TagOfFirst
<1>3. Init => Fresh
  BY <1>1, <1>2, BlankType, Zenon DEF Init, Fresh, Lives, Returns
<1> QED
  BY <1>3, FreshInv

\* Setting the contexts up succeeds for both or is an error.
LEMMA ContextsSetUp ==
  ASSUME NEW ctx, ctx.enc = Blank, ctx.dec = Blank, NEW t \in Message,
         InitContexts(ctx, t) \/ s_init_gcm_cipher_materials(ctx, t)
  PROVE  /\ ret' \in {"ok", "provider_error"}
         /\ Unused(enc') /\ Unused(dec')
         /\ ret' = "ok" => enc'.ready /\ dec'.ready /\ dec'.tag = t
<1>1. Unused(Blank) /\ Blank \in Context
  BY BlankType DEF Unused
<1> DEFINE set == [Blank EXCEPT !.ready = TRUE]
           armed == [Blank EXCEPT !.ready = TRUE, !.tag = t]
<1>2. Unused(set) /\ set.ready
  BY <1>1, Zenon DEF Unused, Context
<1>3. Unused(armed) /\ armed.ready /\ armed.tag = t
  BY <1>1, Zenon DEF Unused, Context
<1>4. /\ ret' \in {"ok", "provider_error"}
      /\ enc' \in {Blank, set} /\ dec' \in {Blank, set, armed}
      /\ ret' = "ok" => enc' = set /\ dec' = armed
  BY DEF InitContexts, s_init_gcm_cipher_materials
<1> HIDE DEF set, armed
<1> QED
  BY <1>1, <1>2, <1>3, <1>4

\* What is left when a cipher is destroyed.
LEMMA DestroyedFresh ==
  ASSUME s_destroy, ret' \in Returns, UNCHANGED mode, mode \in {"CBC", "CTR", "GCM"},
         overrun = FALSE
  PROVE  Fresh'
<1>1. 0 \in 0..MaxMsg /\ life' = "none" /\ life' \in Lives
  BY OpensslAssumption DEF s_destroy, Lives
<1>2. ended' = <<>> /\ tag' = NoTag /\ tag' \in Message /\ ended' \in Seq(Message)
  BY BlankType DEF s_destroy
<1>3. TagOfFirst'
  BY <1>2 DEF TagOfFirst
<1>4. Unused(enc') /\ Unused(dec')
  BY BlankType DEF s_destroy
<1> QED
  BY <1>1, <1>2, <1>3, <1>4, Zenon DEF s_destroy, Fresh

\* Construction preserves the invariant, when it fails too.
LEMMA NewKeeps ==
  ASSUME IInv, UNCHANGED mode,
         aws_aes_cbc_256_new_impl \/ aws_aes_ctr_256_new_impl \/ aws_aes_gcm_256_new_impl
  PROVE  IInv'
<1>1. /\ life = "none" /\ msg = 0 /\ ended = <<>> /\ mode \in {"CBC", "CTR", "GCM"}
      /\ overrun = FALSE /\ tag \in Message /\ MaxMsg >= 1 /\ MaxMsg \in Nat
  BY OpensslAssumption
     DEF IInv, OpenMeansReady, TypeOK, NoOverrun, LifeOfStream, New, aws_aes_cbc_256_new_impl,
         aws_aes_ctr_256_new_impl, aws_aes_gcm_256_new_impl
<1>2. CASE ret' = "null" /\ s_destroy
  <2>1. Fresh'
    BY <1>1, <1>2, DestroyedFresh, Zenon DEF Returns
  <2> QED
    BY <2>1, FreshInv, PTL
<1>3. CASE ~(ret' = "null" /\ s_destroy)
  <2> DEFINE ctx == [enc |-> Blank, dec |-> Blank]
  <2>1. /\ ret' = "ok" /\ life' = "live" /\ good' = TRUE /\ NewMessage /\ UNCHANGED ended
        /\ \E t \in {tag, NoTag, Given} :
             /\ InitContexts(ctx, t) \/ s_init_gcm_cipher_materials(ctx, t)
             /\ mode = "GCM" => tag' = t /\ t \in {NoTag, Given}
             /\ tag' \in Message
    BY <1>1, <1>3, BlankType
       DEF New, aws_aes_cbc_256_new_impl, aws_aes_ctr_256_new_impl, aws_aes_gcm_256_new_impl,
           s_init_cbc_cipher_materials, s_init_ctr_cipher_materials
  <2>2. PICK t \in {tag, NoTag, Given} :
          /\ InitContexts(ctx, t) \/ s_init_gcm_cipher_materials(ctx, t)
          /\ mode = "GCM" => tag' = t /\ t \in {NoTag, Given}
          /\ tag' \in Message
    BY <2>1
  <2>3. t \in Message /\ ctx.enc = Blank /\ ctx.dec = Blank
    BY <1>1, BlankType
  <2> HIDE DEF ctx
  <2>4. Unused(enc') /\ Unused(dec') /\ enc'.ready /\ dec'.ready /\ dec'.tag = t
    BY <2>1, <2>2, <2>3, ContextsSetUp
  <2>5. TagOfFirst' /\ ended' = <<>> /\ ended' \in Seq(Message)
    BY <1>1, <2>1, <2>2, BlankType DEF TagOfFirst
  <2>6. Fresh'
    BY <1>1, <2>1, <2>2, <2>4, <2>5 DEF Fresh, NewMessage, Lives, Returns
  <2> QED
    BY <2>6, FreshInv, PTL
<1> QED
  BY <1>2, <1>3

\* reset preserves the invariant; when it fails the cipher is good but the message broken.
LEMMA ResetKeeps ==
  ASSUME IInv, Reset, UNCHANGED mode
  PROVE  IInv'
<1>1. /\ TypeOK /\ life = "live" /\ life' = life /\ msg \in 0..MaxMsg /\ msg < MaxMsg
      /\ overrun = FALSE /\ TagOfFirst /\ UNCHANGED <<tag, ended>> /\ NewMessage
      /\ MaxMsg \in Nat
  BY OpensslAssumption
     DEF IInv, OpenMeansReady, TypeOK, NoOverrun, Reset, aws_symmetric_cipher_reset
<1> DEFINE ctx == s_clear_reusable_state
<1>2. /\ \E t \in {tag, NoTag} : /\ InitContexts(ctx, t) \/ s_init_gcm_cipher_materials(ctx, t)
                                 /\ mode = "GCM" => t = tag
      /\ good' = TRUE
  BY DEF Reset, aws_symmetric_cipher_reset, s_reset_cbc_cipher_materials,
         s_reset_ctr_cipher_materials, s_reset_gcm_cipher_materials,
         s_init_cbc_cipher_materials, s_init_ctr_cipher_materials, s_clear_reusable_state
<1>3. PICK t \in {tag, NoTag} : /\ InitContexts(ctx, t) \/ s_init_gcm_cipher_materials(ctx, t)
                                /\ mode = "GCM" => t = tag
  BY <1>2
<1>4. t \in Message /\ ctx.enc = Blank /\ ctx.dec = Blank
  BY <1>1, BlankType DEF TypeOK, s_clear_reusable_state
<1> HIDE DEF ctx
<1>5. /\ ret' \in {"ok", "provider_error"} /\ Unused(enc') /\ Unused(dec')
      /\ ret' = "ok" => enc'.ready /\ dec'.ready /\ dec'.tag = t
  BY <1>3, <1>4, ContextsSetUp
<1>6. TagOfFirst'
  BY <1>1 DEF TagOfFirst
<1>7. Fresh'
  BY <1>1, <1>2, <1>3, <1>5, <1>6 DEF Fresh, NewMessage, TypeOK, Lives, Returns
<1> QED
  BY <1>7, FreshInv, PTL

\* Destruction preserves the invariant.
LEMMA DestroyKeeps ==
  ASSUME IInv, Destroy, UNCHANGED mode
  PROVE  IInv'
<1>1. mode \in {"CBC", "CTR", "GCM"} /\ overrun = FALSE /\ 0 \in 0..MaxMsg
  BY OpensslAssumption DEF IInv, OpenMeansReady, TypeOK, NoOverrun
<1>2. Fresh'
  BY <1>1, DestroyedFresh, Zenon DEF Destroy, Returns
<1> QED
  BY <1>2, FreshInv, PTL

-----------------------------------------------------------------------------
(* The theorems. *)

\* Every step of the back end, whatever libcrypto answers and whatever room the caller
\* offers, preserves the invariant.
LEMMA NextKeeps ==
  ASSUME IInv, [Next]_vars
  PROVE  IInv'
<1>1. TypeOK /\ \A k \in 0..MaxChunk : k \in Nat
  BY OpensslAssumption DEF IInv, OpenMeansReady
<1>2. ASSUME NEW space \in Spaces, NEW k \in 0..MaxChunk, UNCHANGED mode,
             Encrypt(k, space) \/ \E of \in {-1} \cup 1..msg : Decrypt(k, of, space)
      PROVE  IInv'
  <2>1. space \in Nat /\ k \in Nat
    BY <1>1, OpensslAssumption
  <2>2. \/ Refused
        \/ \E op \in {"enc", "dec"} : \E of \in -1..MaxMsg : UpdateCall(op, k, of, space)
    BY <1>1, <1>2, DispatchUpdate, Zenon
  <2> QED
    BY <1>2, <2>1, <2>2, RefusedKeeps, UpdateKeeps
<1>3. ASSUME NEW space \in Spaces, UNCHANGED mode,
             FinalizeEncryption(space) \/ FinalizeDecryption(space)
      PROVE  IInv'
  <2>1. space \in Nat
    BY OpensslAssumption
  <2>2. Refused \/ FinalCall("enc", space) \/ FinalCall("dec", space)
    BY <1>3, DispatchFinal, Zenon
  <2> QED
    BY <1>3, <2>1, <2>2, RefusedKeeps, FinalKeeps
<1>4. CASE /\ UNCHANGED mode
           /\ aws_aes_cbc_256_new_impl \/ aws_aes_ctr_256_new_impl \/ aws_aes_gcm_256_new_impl
  BY <1>4, NewKeeps
<1>5. CASE Reset /\ UNCHANGED mode
  BY <1>5, ResetKeeps
<1>6. CASE Destroy /\ UNCHANGED mode
  BY <1>6, DestroyKeeps
<1>7. CASE UNCHANGED vars
  BY <1>7, RefusedKeeps
<1> QED
  BY <1>2, <1>3, <1>4, <1>5, <1>6, <1>7 DEF Next

\* The invariant holds in every reachable state.
THEOREM Inductive == Spec => []IInv
<1>1. Init => IInv
  BY InitInv
<1>2. IInv /\ [Next]_vars => IInv'
  BY NextKeeps
<1> QED
  BY <1>1, <1>2, PTL DEF Spec

\* libcrypto never writes past the caller's buffer: the checks before each call ask for
\* enough room, for every block size and every way a message is cut in pieces.
THEOREM NeverOverrun == Spec => []NoOverrun
<1>1. IInv => NoOverrun
  BY DEF IInv
<1> QED
  BY <1>1, Inductive, PTL

\* A message is only open on a good cipher with both contexts set up, and the state has
\* its type.
THEOREM OpenIsReady == Spec => []OpenMeansReady
<1>1. IInv => OpenMeansReady
  BY DEF IInv
<1> QED
  BY <1>1, Inductive, PTL

\* The decryptor of an open message has the tag that the cipher shows, and once something
\* has been encrypted that is the tag of an encrypted message, however many messages and
\* resets there were.
THEOREM ArmedDecryptor == Spec => []DecryptorArmed
<1>1. ASSUME IInv, ended # <<>> PROVE 1 \in DOMAIN ended
  BY <1>1 DEF IInv, OpenMeansReady, TypeOK
<1>2. IInv => DecryptorArmed
  BY <1>1 DEF IInv, ArmedWithTag, TagOfFirst, DecryptorArmed
<1> QED
  BY <1>2, Inductive, PTL

-----------------------------------------------------------------------------
(* The back end implements CipherStream, step by step. *)

\* An encrypt or decrypt that reaches the vtable is an update of the stream, breaks it, or
\* leaves it as it is.
LEMMA UpdateRefines ==
  ASSUME IInv, IInv', NEW op \in {"enc", "dec"}, NEW k \in Nat, NEW of, NEW space \in Nat,
         UpdateCall(op, k, of, space)
  PROVE  [Stream!Next]_(Stream!streamVars)
<1>1. /\ stream \in {"open", "broken"} /\ TrackUpdate(op, k) /\ fed \in Nat
      /\ out \in Seq(Nat)
  BY OpensslAssumption DEF IInv, OpenMeansReady, TypeOK, GoodIsLive, UpdateCall
<1>2. \/ ret' \in {"short_buffer", "provider_error"} /\ UNCHANGED <<enc, dec, out>>
      \/ ret' = "ok" /\ UpdateEffect(op, k, of)
  BY UpdateOutcome, Zenon
<1>3. /\ fed' = IF ret' = "short_buffer" THEN fed ELSE fed + k
      /\ stream' \in {stream, "broken"}
      /\ stream' # "broken" => stream' = stream /\ ret' \in {"ok", "short_buffer"}
  BY <1>1 DEF TrackUpdate
<1>4. CASE stream' = "broken"
  BY <1>1, <1>4 DEF Stream!Next, Stream!Break
<1>5. CASE stream' = "open" /\ ret' = "short_buffer"
  BY <1>1, <1>2, <1>3, <1>5 DEF Stream!streamVars
<1>6. CASE stream' = "open" /\ ret' = "ok"
  <2>1. /\ out' \in Seq(Nat) /\ enc'.held \in Seq(Nat) /\ dec'.held \in Seq(Nat)
        /\ fed' \in Nat /\ fed' = fed + k
        /\ out' \o enc'.held = Span(0, fed') \/ out' \o dec'.held = Span(0, fed')
    <3>1. fed' \in Nat /\ fed' = fed + k
      BY <1>1, <1>3, <1>6
    <3>2. out' \in Seq(Nat) /\ enc' \in Context /\ dec' \in Context
      BY DEF IInv, OpenMeansReady, TypeOK
    <3>3. out' \o enc'.held = Span(0, fed') \/ out' \o dec'.held = Span(0, fed')
      BY <1>6 DEF IInv, NothingLost
    <3> QED
      BY <3>1, <3>2, <3>3, Zenon DEF Context
  <2>2. Len(out') \in 0..fed' /\ out' = Span(0, Len(out'))
    BY <2>1, PrefixOfSpan, Zenon
  <2>3. out' = [i \in 1..Len(out') |-> i]
    <3>1. Len(out') \in Nat
      BY <2>1, LenProperties
    <3>2. Span(0, Len(out')) = [i \in 1..Len(out') |-> i]
      BY <3>1, MessageType, Zenon
    <3> QED
      BY <2>2, <3>2
  <2>4. PICK bytes \in Seq(Nat) : out' = out \o bytes
    BY <1>2, <1>6, Zenon DEF UpdateEffect
  <2>5. Len(out') = Len(out) + Len(bytes) /\ Len(out) \in Nat /\ Len(bytes) \in Nat
    BY <1>1, <2>4, ConcatProperties, LenProperties
  <2>6. Len(out') \in Len(out)..fed' /\ fed' >= fed
    BY <1>1, <2>1, <2>2, <2>5
  <2> QED
    BY <1>1, <1>3, <1>6, <2>1, <2>3, <2>6 DEF Stream!Next, Stream!Update, Stream!Prefix
<1> QED
  BY <1>1, <1>3, <1>4, <1>5, <1>6

\* A finalize that reaches the vtable completes the stream, or breaks it.
LEMMA FinalRefines ==
  ASSUME IInv, NEW op \in {"enc", "dec"}, NEW space \in Nat, FinalCall(op, space)
  PROVE  Stream!Next
<1>1. stream \in {"open", "broken"} /\ fed \in Nat /\ TrackFinalize(op)
  BY OpensslAssumption DEF IInv, OpenMeansReady, TypeOK, GoodIsLive, FinalCall
<1>2. ret' = "ok" => out' = out \o Ctx(op).held
  BY FinalOutcome, Zenon
<1>3. CASE stream' = "broken"
  BY <1>1, <1>3 DEF Stream!Next, Stream!Break
<1>4. CASE stream' # "broken"
  <2>1. /\ stream' = "closed" /\ stream = "open" /\ ret' = "ok" /\ dir \in {"none", op}
        /\ fed' = fed
    BY <1>1, <1>4 DEF TrackFinalize
  <2>2. out \o Ctx(op).held = Span(0, fed)
    BY <2>1, MissingPart, SMTT(30)
  <2>3. Span(0, fed) = [i \in 1..fed |-> i]
    BY <1>1, MessageType, Zenon
  <2> QED
    BY <1>2, <2>1, <2>2, <2>3 DEF Stream!Next, Stream!Finalize, Stream!Prefix
<1> QED
  BY <1>3, <1>4

\* Every step of the back end is a step of the stream, or leaves it as it is.
LEMMA NextRefines ==
  ASSUME IInv, IInv', [Next]_vars
  PROVE  [Stream!Next]_(Stream!streamVars)
<1>1. TypeOK /\ (\A k \in 0..MaxChunk : k \in Nat) /\ (Refused => UNCHANGED Stream!streamVars)
  BY OpensslAssumption DEF IInv, OpenMeansReady, Refused, others, Stream!streamVars
<1>2. ASSUME NEW space \in Spaces, NEW k \in 0..MaxChunk,
             Encrypt(k, space) \/ \E of \in {-1} \cup 1..msg : Decrypt(k, of, space)
      PROVE  [Stream!Next]_(Stream!streamVars)
  <2>1. space \in Nat /\ k \in Nat
    BY <1>1, OpensslAssumption
  <2>2. \/ Refused
        \/ \E op \in {"enc", "dec"} : \E of \in -1..MaxMsg : UpdateCall(op, k, of, space)
    BY <1>1, <1>2, DispatchUpdate, Zenon
  <2> QED
    BY <1>1, <2>1, <2>2, UpdateRefines
<1>3. ASSUME NEW space \in Spaces, FinalizeEncryption(space) \/ FinalizeDecryption(space)
      PROVE  [Stream!Next]_(Stream!streamVars)
  <2>1. space \in Nat
    BY OpensslAssumption
  <2>2. Refused \/ FinalCall("enc", space) \/ FinalCall("dec", space)
    BY <1>3, DispatchFinal, Zenon
  <2> QED
    BY <1>1, <2>1, <2>2, FinalRefines
<1>4. CASE aws_aes_cbc_256_new_impl \/ aws_aes_ctr_256_new_impl \/ aws_aes_gcm_256_new_impl
  <2>1. stream = "none" /\ fed = 0 /\ out = <<>>
    BY <1>4 DEF IInv, LifeOfStream, New, aws_aes_cbc_256_new_impl, aws_aes_ctr_256_new_impl,
                aws_aes_gcm_256_new_impl
  <2>2. fed' = 0 /\ out' = <<>> /\ stream' \in {"none", "open", "broken"}
    BY <1>4 DEF New, aws_aes_cbc_256_new_impl, aws_aes_ctr_256_new_impl,
                aws_aes_gcm_256_new_impl, NewMessage, s_destroy
  <2> QED
    BY <2>1, <2>2 DEF Stream!Next, Stream!Create, Stream!streamVars
<1>5. CASE Reset
  <2>1. stream # "none"
    BY <1>5 DEF IInv, LifeOfStream, Reset, aws_symmetric_cipher_reset
  <2>2. fed' = 0 /\ out' = <<>> /\ stream' \in {"open", "broken"}
    BY <1>5 DEF Reset, aws_symmetric_cipher_reset, NewMessage
  <2> QED
    BY <2>1, <2>2 DEF Stream!Next, Stream!Reset, Stream!Break
<1>6. CASE Destroy
  BY <1>6 DEF IInv, LifeOfStream, Destroy, s_destroy, Stream!Next, Stream!Destroy
<1>7. CASE UNCHANGED vars
  BY <1>7 DEF vars, others, Stream!streamVars
<1> QED
  BY <1>2, <1>3, <1>4, <1>5, <1>6, <1>7 DEF Next

\* AES-CBC, AES-CTR and AES-GCM over libcrypto implement the stream the header promises,
\* for every block size and every way a message is cut in pieces.
THEOREM StreamRefined == Spec => ImplementsStream
<1>1. Init => Stream!Init
  BY DEF Init, Stream!Init
<1>2. IInv /\ IInv' /\ [Next]_vars => [Stream!Next]_(Stream!streamVars)
  BY NextRefines
<1> QED
  BY <1>1, <1>2, Inductive, PTL DEF Spec, ImplementsStream, Stream!Spec
=============================================================================
