------------------------ MODULE CommonCryptoAesProofs ------------------------
(***************************************************************************)
(* Proofs about CommonCryptoAes, for every block size and every bound: a   *)
(* cryptor never lacks room, an open message has cryptors, the tag is the  *)
(* one of the message just encrypted, and the back end implements          *)
(* CipherStream.                                                           *)
(***************************************************************************)
EXTENDS CommonCryptoAes, ByteSpansProofs

-----------------------------------------------------------------------------
(* The inductive invariant. *)

\* An encryptor holds back less than a block, a decryptor at most one, and both only with
\* padding.
HeldShort ==
  /\ Len(enc.held) < Block /\ Len(dec.held) <= Block
  /\ mode # "CBC" => enc.held = <<>> /\ dec.held = <<>>

\* No cryptor has been given more than the message.
HasFits == enc.has <= fed /\ dec.has <= fed

\* While a message is open only the cryptor of its direction holds anything back; what is
\* written and what is held back make up the message; and it has had all of it.
NothingLost ==
  stream = "open" =>
    /\ dir = "none" => fed = 0
    /\ IF dir = "dec" THEN enc.held = <<>> /\ out \o dec.held = Span(0, fed)
                      ELSE dec.held = <<>> /\ out \o enc.held = Span(0, fed) /\ enc.has = fed

\* The good flag is down once a message is finalized.
GoodIsLive == good => life = "live" /\ stream \in {"open", "broken"}

\* There is a message exactly when there is a cipher.
LifeOfStream ==
  IF life = "none" THEN stream = "none" /\ fed = 0 /\ out = <<>> /\ msg = 0
                   ELSE stream # "none"

IInv ==
  /\ OpenMeansReady
  /\ ProviderHasRoom
  /\ HeldShort
  /\ HasFits
  /\ NothingLost
  /\ GoodIsLive
  /\ LifeOfStream
  /\ TagOfMostRecentEncrypt

-----------------------------------------------------------------------------
(* What an update does, whatever the mode and the direction. *)

Handle(op) == IF op = "enc" THEN enc ELSE dec

\* What a cryptor may hold back.
MayHold(op, n) ==
  /\ n <= Block
  /\ op = "enc" => n < Block
  /\ mode # "CBC" => n = 0

\* A cryptor keeps no more than it has, no more than it may, and something of something
\* if it decrypts with padding.
LEMMA KeepsRange ==
  ASSUME NEW op \in {"enc", "dec"}, NEW n \in Nat
  PROVE  /\ Keeps(op, n) \in 0..n /\ MayHold(op, Keeps(op, n))
         /\ mode = "CBC" /\ op = "dec" /\ n > 0 => Keeps(op, n) > 0
<1> DEFINE q == n \div Block
           r == n % Block
<1>1. Block \in Nat \ {0}
  BY BlockAssumption
<1>2. q \in Nat /\ n = Block * q + r /\ r \in 0..(Block - 1)
  BY <1>1, ModDiv, ModRange, Zenon
<1>3. \/ mode # "CBC" /\ Keeps(op, n) = 0
      \/ mode = "CBC" /\ op = "enc" /\ Keeps(op, n) = r
      \/ mode = "CBC" /\ op = "dec" /\ Keeps(op, n) = IF n > 0 /\ r = 0 THEN Block ELSE r
  <2>1. CASE mode # "CBC"
    <3>1. Keeps(op, n) = 0
      BY <2>1 DEF Keeps
    <3> QED
      BY <2>1, <3>1
  <2>2. CASE mode = "CBC" /\ op = "enc"
    <3>1. Keeps(op, n) = n % Block
      BY <2>2 DEF Keeps
    <3> QED
      BY <2>2, <3>1
  <2>3. CASE mode = "CBC" /\ op = "dec"
    <3>1. ~(mode # "CBC") /\ ~(op = "enc")
      BY <2>3
    <3>2. Keeps(op, n) = IF n > 0 /\ n % Block = 0 THEN Block ELSE n % Block
      BY <3>1 DEF Keeps
    <3> QED
      BY <2>3, <3>2
  <2> QED
    BY <2>1, <2>2, <2>3
<1> HIDE DEF q, r
<1>4. Block * q >= 0 /\ (q > 0 => Block * q >= Block)
  BY <1>1, <1>2
<1>5. n > 0 /\ r = 0 => n >= Block
  BY <1>1, <1>2, <1>4
<1> QED
  BY <1>1, <1>2, <1>3, <1>4, <1>5 DEF MayHold

\* A cryptor that is given k bytes cuts what it has in two: one part is written, the other
\* is held back.
UpdateEffect(op, k) ==
  \E bytes, held \in Seq(Nat) :
    /\ bytes \o held = Handle(op).held \o Span(fed, fed + k)
    /\ MayHold(op, Len(held))
    /\ out' = out \o bytes
    /\ Handle(op)' = [ready |-> Handle(op).ready, held |-> held, has |-> Handle(op).has + k]
    /\ IF op = "enc" THEN dec' = dec ELSE enc' = enc

\* A buffer with room for the input and all but one byte of a block is large enough for
\* what the cryptor writes.
LEMMA CryptorUpdateStep ==
  ASSUME TypeOK, HeldShort, ProviderHasRoom, NEW op \in {"enc", "dec"}, NEW k \in Nat,
         NEW space \in Nat, k + Block - 1 <= space, CCCryptorUpdate(op, Handle(op), k, space)
  PROVE  /\ cramped' = FALSE
         /\ \/ ret' = "provider_error" /\ UNCHANGED <<enc, dec, out>>
            \/ ret' = "ok" /\ UpdateEffect(op, k)
<1> DEFINE handle == Handle(op)
           all == handle.held \o Span(fed, fed + k)
           keep == Keeps(op, Len(all))
           n == Len(all) - keep
<1>1. /\ handle \in Cryptor /\ handle.held \in Seq(Nat) /\ Len(handle.held) <= Block
      /\ op = "enc" => Len(handle.held) < Block
      /\ mode # "CBC" => Len(handle.held) = 0
      /\ Len(handle.held) \in Nat /\ Block \in Nat \ {0}
  BY BlockAssumption, LenProperties, EmptySeq DEF TypeOK, HeldShort, Handle, Cryptor
<1>2. all \in Seq(Nat) /\ Len(all) = Len(handle.held) + k
  <2>1. fed \in Nat /\ fed + k \in Nat /\ fed <= fed + k /\ (fed + k) - fed = k
    BY CommonCryptoAssumption DEF TypeOK
  <2>2. Span(fed, fed + k) \in Seq(Nat) /\ Len(Span(fed, fed + k)) = (fed + k) - fed
    BY <2>1, SpanType, Zenon
  <2> QED
    BY <1>1, <2>1, <2>2, ConcatProperties, Zenon
<1>3. /\ keep \in 0..Len(all) /\ MayHold(op, keep) /\ Len(all) \in Nat
      /\ mode = "CBC" /\ op = "dec" /\ Len(all) > 0 => keep > 0
  <2>1. Len(all) \in Nat
    BY <1>2, LenProperties, Zenon
  <2> QED
    BY <2>1, KeepsRange, Zenon
<1>4. n \in 0..Len(all) /\ Len(all) - n = keep /\ n <= space
  <2> HIDE DEF keep, all, handle
  <2>1. n <= k + Block - 1
    BY <1>1, <1>2, <1>3, SMTT(30)
  <2> QED
    BY <1>1, <1>2, <1>3, <2>1
<1> DEFINE held == SubSeq(all, n + 1, Len(all))
           bytes == SubSeq(all, 1, n)
<1>5. /\ bytes \in Seq(Nat) /\ held \in Seq(Nat)
      /\ Len(held) = Len(all) - n /\ bytes \o held = all
  <2> HIDE DEF n, keep, all
  <2> QED
    BY <1>2, <1>4, CutInTwo, Zenon
<1>6. MayHold(op, Len(held))
  BY <1>3, <1>4, <1>5, Zenon
<1>7. /\ cramped' = cramped
      /\ \/ ret' = "provider_error" /\ UNCHANGED <<enc, dec, out>>
         \/ /\ ret' = "ok"
            /\ out' = out \o bytes
            /\ Handle(op)' = [handle EXCEPT !.held = held, !.has = @ + k]
            /\ IF op = "enc" THEN dec' = dec ELSE enc' = enc
  <2>1. ~(n > space)
    <3> HIDE DEF n, keep, all
    <3>1. n \in Int /\ n <= space
      BY <1>3, <1>4
    <3> QED
      BY <3>1
  <2>2. \/ Fails
        \/ handle.ready /\ n > space
        \/ /\ handle.ready /\ n <= space
           /\ ret' = "ok"
           /\ out' = out \o bytes
           /\ enc' = IF op = "enc" THEN [handle EXCEPT !.held = held, !.has = @ + k] ELSE enc
           /\ dec' = IF op = "dec" THEN [handle EXCEPT !.held = held, !.has = @ + k] ELSE dec
           /\ UNCHANGED cramped
    BY Zenon DEF CCCryptorUpdate
  <2> HIDE DEF n, keep, all, held, bytes, handle
  <2> QED
    BY <2>1, <2>2 DEF Fails, Handle
<1> HIDE DEF n, keep, all, held, bytes
<1>8. CASE ret' = "ok" /\ Handle(op)' = [handle EXCEPT !.held = held, !.has = @ + k]
  <2>1. Handle(op)' = [ready |-> handle.ready, held |-> held, has |-> handle.has + k]
    <3> HIDE DEF handle
    <3> QED
      BY <1>1, <1>8, Zenon DEF Cryptor
  <2> QED
    BY <1>5, <1>6, <1>7, <1>8, <2>1, Zenon DEF UpdateEffect, all, ProviderHasRoom, TypeOK
<1> QED
  BY <1>7, <1>8, Zenon DEF ProviderHasRoom, TypeOK

-----------------------------------------------------------------------------
(* The calls. *)

\* A call that the front end refuses.
Refused == ret' \in Returns /\ UNCHANGED <<life, good, others>>

\* An update that reaches the vtable.
UpdateCall(op, k, space) ==
  /\ good /\ good' = (ret' \notin Fatal)
  /\ UNCHANGED life
  /\ fed + k <= MaxFed
  /\ IF op = "enc" THEN s_encrypt(k, space) ELSE s_decrypt(k, space)
  /\ TrackUpdate(op, k)

\* A finalize that reaches the vtable.
FinalCall(op, space) ==
  /\ good /\ good' = FALSE
  /\ UNCHANGED life
  /\ IF mode = "GCM"
     THEN IF op = "enc" THEN s_finalize_gcm_encryption ELSE s_finalize_gcm_decryption
     ELSE /\ IF op = "enc" THEN s_finalize_encryption(space) ELSE s_finalize_decryption(space)
          /\ UNCHANGED <<tag, tagBuffer>>
  /\ TrackFinalize(op)

\* The front end refuses an update or dispatches it to the vtable.
LEMMA DispatchUpdate ==
  ASSUME NEW space, NEW k, Encrypt(k, space) \/ Decrypt(k, space)
  PROVE  Refused \/ UpdateCall("enc", k, space) \/ UpdateCall("dec", k, space)
  BY DEF Encrypt, Decrypt, Refused, UpdateCall, Returns, aws_symmetric_cipher_encrypt,
         aws_symmetric_cipher_decrypt

\* The front end refuses a finalize or dispatches it to the vtable.
LEMMA DispatchFinal ==
  ASSUME NEW space, FinalizeEncryption(space) \/ FinalizeDecryption(space)
  PROVE  Refused \/ FinalCall("enc", space) \/ FinalCall("dec", space)
  BY DEF FinalizeEncryption, FinalizeDecryption, Refused, FinalCall, Returns,
         aws_symmetric_cipher_finalize_encryption, aws_symmetric_cipher_finalize_decryption

\* A refused call, or no step at all, preserves the invariant.
LEMMA RefusedKeeps ==
  ASSUME IInv, (Refused /\ UNCHANGED mode) \/ UNCHANGED vars
  PROVE  IInv'
<1>1. ret' \in Returns /\ UNCHANGED <<life, good, mode, others>>
  BY DEF IInv, OpenMeansReady, TypeOK, Refused, vars
<1>2. UNCHANGED <<life, good, mode, enc, dec, tag, tagBuffer, out, fed, dir, stream, msg,
                  specified, cramped>>
  BY <1>1 DEF others
<1>3. OpenMeansReady'
  BY <1>1, <1>2 DEF IInv, OpenMeansReady, TypeOK
<1>4. ProviderHasRoom' /\ HeldShort' /\ HasFits' /\ NothingLost'
  BY <1>2 DEF IInv, ProviderHasRoom, HeldShort, HasFits, NothingLost
<1>5. GoodIsLive' /\ LifeOfStream' /\ TagOfMostRecentEncrypt'
  BY <1>2 DEF IInv, GoodIsLive, LifeOfStream, TagOfMostRecentEncrypt
<1> QED
  BY <1>3, <1>4, <1>5 DEF IInv

\* An update that reaches the vtable lacks room, fails in the cryptor, or has its effect;
\* the cryptor never lacks room.
LEMMA UpdateOutcome ==
  ASSUME IInv, NEW op \in {"enc", "dec"}, NEW k \in Nat, NEW space \in Nat,
         UpdateCall(op, k, space)
  PROVE  /\ cramped' = FALSE
         /\ \/ ret' \in {"short_buffer", "provider_error"} /\ UNCHANGED <<enc, dec, out>>
            \/ ret' = "ok" /\ UpdateEffect(op, k)
<1>1. TypeOK /\ HeldShort /\ ProviderHasRoom
  BY DEF IInv, OpenMeansReady
<1>2. \/ NoRoom
      \/ k + Block - 1 <= space /\ CCCryptorUpdate(op, Handle(op), k, space)
  BY DEF UpdateCall, s_encrypt, s_decrypt, Handle,
         aws_symmetric_cipher_try_ensure_sufficient_buffer_space
<1>3. CASE NoRoom
  BY <1>1, <1>3 DEF NoRoom, ProviderHasRoom, TypeOK
<1>4. CASE k + Block - 1 <= space /\ CCCryptorUpdate(op, Handle(op), k, space)
  BY <1>1, <1>4, CryptorUpdateStep, Zenon
<1> QED
  BY <1>2, <1>3, <1>4, Zenon

\* The part of an open message that is not written is held back by the cryptor of its
\* direction, or by either before there is one; the encryptor of a message that is not
\* decrypted has had all of it.
LEMMA MissingPart ==
  ASSUME IInv, stream = "open", NEW op \in {"enc", "dec"}, dir \in {"none", op}
  PROVE  /\ out \o Handle(op).held = Span(0, fed)
         /\ (IF op = "enc" THEN dec ELSE enc).held = <<>>
         /\ op = "enc" => enc.has = fed
<1>1. NothingLost /\ out \in Seq(Nat) /\ enc.held \in Seq(Nat) /\ dec.held \in Seq(Nat)
  BY DEF IInv, OpenMeansReady, TypeOK, Cryptor
<1>2. CASE dir = op
  BY <1>1, <1>2 DEF NothingLost, Handle
<1>3. CASE dir = "none"
  <2>1. dec.held = <<>> /\ out \o enc.held = Span(0, fed) /\ fed = 0 /\ enc.has = fed
    BY <1>1, <1>3 DEF NothingLost
  <2>2. enc.held = <<>>
    <3>1. Span(0, 0) = <<>>
      BY SpanEmpty
    <3> QED
      BY <1>1, <2>1, <3>1, ConcatEmpty
  <2> QED
    BY <2>1, <2>2, Zenon DEF Handle
<1> QED
  BY <1>2, <1>3

\* After an update of an open message nothing is lost.
LEMMA UpdateLosesNothing ==
  ASSUME IInv, NEW op \in {"enc", "dec"}, NEW k \in Nat, UpdateEffect(op, k),
         TrackUpdate(op, k), ret' = "ok"
  PROVE  NothingLost'
<1> SUFFICES ASSUME stream' = "open"
             PROVE  /\ dir' = "none" => fed' = 0
                    /\ IF dir' = "dec"
                       THEN enc'.held = <<>> /\ out' \o dec'.held = Span(0, fed')
                       ELSE /\ dec'.held = <<>> /\ out' \o enc'.held = Span(0, fed')
                            /\ enc'.has = fed'
  BY DEF NothingLost
<1>1. /\ out \in Seq(Nat) /\ enc.held \in Seq(Nat) /\ dec.held \in Seq(Nat) /\ fed \in Nat
      /\ NothingLost /\ stream = "open" /\ dir \in {"none", "enc", "dec"}
  BY CommonCryptoAssumption DEF IInv, OpenMeansReady, TypeOK, Cryptor, TrackUpdate
<1>2. /\ fed' = fed + k /\ dir \in {"none", dir'}
      /\ dir' = IF k = 0 THEN dir ELSE op
  BY DEF TrackUpdate
<1>3. PICK bytes \in Seq(Nat), held \in Seq(Nat) :
        /\ bytes \o held = Handle(op).held \o Span(fed, fed + k)
        /\ MayHold(op, Len(held))
        /\ out' = out \o bytes
        /\ Handle(op)' = [ready |-> Handle(op).ready, held |-> held, has |-> Handle(op).has + k]
        /\ IF op = "enc" THEN dec' = dec ELSE enc' = enc
  BY Zenon DEF UpdateEffect
<1>4. IF op = "enc" THEN enc'.held = held /\ enc'.has = enc.has + k /\ dec' = dec
                    ELSE dec'.held = held /\ enc' = enc
  BY <1>3 DEF Handle
<1>5. Handle(op).held \in Seq(Nat)
  BY <1>1 DEF Handle
<1>6. dir' # "dec" => enc'.has = fed'
  <2>1. dir' # "dec" => enc.has = fed
    BY <1>1, <1>2 DEF NothingLost
  <2>2. dir' # "dec" => op = "enc" \/ k = 0
    BY <1>2
  <2> QED
    BY <1>1, <1>2, <1>4, <2>1, <2>2
<1>7. CASE dir \in {"none", op}
  <2>1. out \o Handle(op).held = Span(0, fed) /\ (IF op = "enc" THEN dec ELSE enc).held = <<>>
    BY <1>1, <1>7, MissingPart, Zenon
  <2>2. (out \o bytes) \o held = Span(0, fed + k)
    <3>1. out \o (Handle(op).held \o Span(fed, fed + k)) = Span(0, fed + k)
      BY <1>1, <1>5, <2>1, Extend, ZenonT(40)
    <3>2. (out \o bytes) \o held = out \o (bytes \o held)
      BY <1>1, ConcatAssoc, ZenonT(40)
    <3> QED
      BY <1>3, <3>1, <3>2, Zenon
  <2>3. CASE dir' = op
    BY <1>2, <1>3, <1>4, <1>6, <2>1, <2>2, <2>3, Zenon
  <2>4. CASE dir' = "none"
    <3>1. k = 0 /\ dir = "none" /\ fed = 0 /\ fed' = 0
      BY <1>1, <1>2, <2>4 DEF NothingLost
    <3>2. 0 \in Nat /\ out' \in Seq(Nat)
      <4>1. out \o bytes \in Seq(Nat)
        BY <1>1, ConcatNat, Zenon
      <4> QED
        BY <1>3, <4>1
    <3>3. Span(0, 0) = <<>>
      BY <3>2, SpanEmpty, Zenon
    <3>4. out' \o held = <<>>
      BY <1>3, <2>2, <3>1, <3>3
    <3>5. out' = <<>> /\ held = <<>>
      BY <3>2, <3>4, <1>3, ConcatEmpty, Zenon
    <3> QED
      BY <1>4, <1>6, <2>1, <2>4, <3>1, <3>3, <3>4, <3>5
  <2> QED
    BY <1>2, <1>7, <2>3, <2>4
<1>8. CASE dir \notin {"none", op}
  <2>1. k = 0 /\ dir' = dir /\ fed' = fed
    BY <1>1, <1>2, <1>8
  <2>2. Handle(op).held = <<>>
    BY <1>1, <1>8 DEF NothingLost, Handle
  <2>3. Span(fed, fed + k) = <<>>
    <3>1. Span(fed, fed) = <<>>
      BY <1>1, SpanEmpty, Zenon
    <3> QED
      BY <1>1, <2>1, <3>1
  <2>4. bytes \o held = <<>>
    BY <1>3, <1>5, <2>2, <2>3, ConcatUnit
  <2>5. bytes = <<>> /\ held = <<>>
    BY <1>3, <2>4, ConcatEmpty, Zenon
  <2>6. out' = out
    BY <1>1, <1>3, <2>5, ConcatUnit
  <2> QED
    BY <1>1, <1>8, <1>4, <1>6, <2>1, <2>5, <2>6, Zenon DEF NothingLost
<1> QED
  BY <1>7, <1>8

\* An encrypt or decrypt that reaches the vtable preserves the invariant.
LEMMA UpdateKeeps ==
  ASSUME IInv, NEW op \in {"enc", "dec"}, NEW k \in Nat, NEW space \in Nat,
         UpdateCall(op, k, space), UNCHANGED mode
  PROVE  IInv'
<1>1. /\ TypeOK /\ enc \in Cryptor /\ dec \in Cryptor /\ fed \in Nat /\ fed + k <= MaxFed
      /\ good /\ life = "live" /\ stream \in {"open", "broken"} /\ TrackUpdate(op, k)
      /\ MaxFed \in Nat /\ MaxMsg \in Nat
  BY CommonCryptoAssumption DEF IInv, OpenMeansReady, TypeOK, GoodIsLive, UpdateCall
<1>2. /\ cramped' = FALSE
      /\ \/ ret' \in {"short_buffer", "provider_error"} /\ UNCHANGED <<enc, dec, out>>
         \/ ret' = "ok" /\ UpdateEffect(op, k)
  BY UpdateOutcome, Zenon
<1>3. /\ UNCHANGED <<tag, tagBuffer, msg, specified>> /\ stream' \in {stream, "broken"}
      /\ fed' = IF ret' = "short_buffer" THEN fed ELSE fed + k
      /\ dir' = IF ret' = "short_buffer" \/ k = 0 THEN dir ELSE op
      /\ stream' # "broken" => stream' = stream /\ ret' \in {"ok", "short_buffer"}
  BY <1>1 DEF TrackUpdate
<1>4. /\ life' \in Lives /\ good' \in BOOLEAN /\ ret' \in Returns /\ cramped' \in BOOLEAN
      /\ mode' \in {"CBC", "CTR", "GCM"} /\ tag' \in Message /\ tagBuffer' \in BOOLEAN
      /\ specified' \in {NoTag, Given}
      /\ fed' \in 0..MaxFed /\ msg' \in 0..MaxMsg /\ dir' \in {"none", "enc", "dec"}
      /\ stream' \in {"none", "open", "closed", "broken"}
  <2>1. ret' \in Returns /\ life' \in Lives /\ good' \in BOOLEAN
    BY <1>1, <1>2 DEF Returns, UpdateCall, TypeOK
  <2>2. cramped' \in BOOLEAN /\ tagBuffer' \in BOOLEAN
    BY <1>1, <1>2, <1>3, Zenon DEF TypeOK
  <2> QED
    BY <1>1, <1>3, <2>1, <2>2 DEF TypeOK
<1>5. ProviderHasRoom' /\ GoodIsLive' /\ LifeOfStream' /\ TagOfMostRecentEncrypt'
  BY <1>1, <1>2, <1>3
     DEF IInv, ProviderHasRoom, GoodIsLive, LifeOfStream, TagOfMostRecentEncrypt, UpdateCall
<1>6. CASE ret' \in {"short_buffer", "provider_error"} /\ UNCHANGED <<enc, dec, out>>
  <2>1. OpenMeansReady'
    BY <1>1, <1>3, <1>4, <1>6, Zenon DEF IInv, OpenMeansReady, TypeOK, UpdateCall, Fatal
  <2>2. HeldShort'
    BY <1>3, <1>6 DEF IInv, HeldShort
  <2>3. HasFits'
    <3>1. fed' >= fed /\ enc.has \in Int /\ dec.has \in Int /\ fed' \in Int
      BY <1>1, <1>3, <1>4 DEF Cryptor
    <3> QED
      BY <1>1, <1>6, <3>1 DEF IInv, HasFits
  <2>4. NothingLost'
    BY <1>3, <1>6 DEF IInv, NothingLost
  <2> QED
    BY <1>5, <2>1, <2>2, <2>3, <2>4 DEF IInv
<1>7. CASE ret' = "ok" /\ UpdateEffect(op, k)
  <2>1. PICK bytes \in Seq(Nat), held \in Seq(Nat) :
          /\ bytes \o held = Handle(op).held \o Span(fed, fed + k)
          /\ MayHold(op, Len(held))
          /\ out' = out \o bytes
          /\ Handle(op)' = [ready |-> Handle(op).ready, held |-> held,
                            has |-> Handle(op).has + k]
          /\ IF op = "enc" THEN dec' = dec ELSE enc' = enc
    BY <1>7, Zenon DEF UpdateEffect
  <2> DEFINE has == Handle(op).has + k
  <2>2. has \in 0..MaxFed /\ has <= fed' /\ fed' = fed + k
    <3>1. Handle(op).has \in Nat /\ Handle(op).has <= fed
      <4>1. enc.has \in 0..MaxFed /\ dec.has \in 0..MaxFed
        BY <1>1 DEF Cryptor
      <4>2. enc.has <= fed /\ dec.has <= fed
        BY DEF IInv, HasFits
      <4> QED
        BY <1>1, <4>1, <4>2 DEF Handle
    <3>2. fed' = fed + k
      BY <1>3, <1>7
    <3>3. Handle(op).has + k \in 0..MaxFed /\ Handle(op).has + k <= fed + k
      BY <1>1, <3>1
    <3> QED
      BY <3>2, <3>3
  <2> HIDE DEF has
  <2>3. /\ Handle(op)' \in Cryptor /\ Handle(op)'.held = held /\ Handle(op)'.has = has
        /\ Handle(op)'.ready = Handle(op).ready
    <3>1. Handle(op) \in Cryptor
      BY <1>1 DEF Handle
    <3> QED
      BY <2>1, <2>2, <3>1 DEF Cryptor, has
  <2>4. /\ enc' \in Cryptor /\ dec' \in Cryptor
        /\ enc'.ready = enc.ready /\ dec'.ready = dec.ready
    BY <1>1, <2>1, <2>3 DEF Handle
  <2>5. out' \in Seq(Nat)
    <3>1. out \in Seq(Nat)
      BY <1>1 DEF TypeOK
    <3>2. out \o bytes \in Seq(Nat)
      BY <3>1, ConcatNat, Zenon
    <3> QED
      BY <2>1, <3>2
  <2>6. OpenMeansReady'
    BY <1>1, <1>3, <1>4, <1>7, <2>4, <2>5, Zenon DEF IInv, OpenMeansReady, TypeOK, UpdateCall, Fatal
  <2>7. HeldShort'
    <3>1. /\ Len(held) <= Block /\ (op = "enc" => Len(held) < Block)
          /\ mode # "CBC" => held = <<>>
      BY <2>1, EmptySeq DEF MayHold
    <3>2. IF op = "enc" THEN enc'.held = held /\ dec' = dec ELSE dec'.held = held /\ enc' = enc
      BY <2>1, <2>3 DEF Handle
    <3> QED
      BY <3>1, <3>2 DEF IInv, HeldShort
  <2>8. HasFits'
    <3>1. enc.has <= fed + k /\ dec.has <= fed + k
      <4>1. enc.has \in 0..MaxFed /\ dec.has \in 0..MaxFed
        BY <1>1 DEF Cryptor
      <4>2. enc.has <= fed /\ dec.has <= fed
        BY DEF IInv, HasFits
      <4> QED
        BY <1>1, <4>1, <4>2
    <3>2. (enc'.has = has \/ enc' = enc) /\ (dec'.has = has \/ dec' = dec)
      BY <2>1, <2>3 DEF Handle
    <3> QED
      BY <2>2, <3>1, <3>2 DEF HasFits
  <2>9. NothingLost'
    BY <1>1, <1>7, UpdateLosesNothing
  <2> QED
    BY <1>5, <2>6, <2>7, <2>8, <2>9 DEF IInv
<1> QED
  BY <1>2, <1>6, <1>7

\* What a finalize that reaches the vtable does: the bytes held back are written into a
\* buffer that has room for them, and the tag of what the encryptor has had is kept.
LEMMA FinalOutcome ==
  ASSUME IInv, NEW op \in {"enc", "dec"}, NEW space \in Nat, FinalCall(op, space)
  PROVE  /\ cramped' = FALSE /\ UNCHANGED <<enc, dec>>
         /\ ret' \in {"ok", "short_buffer", "provider_error"}
         /\ out' = out \/ out' = out \o Handle(op).held
         /\ ret' = "ok" => out' = out \o Handle(op).held
         /\ tag' = tag \/ tag' = [of |-> msg, len |-> enc.has]
         /\ mode = "GCM" /\ op = "enc" /\ ret' = "ok" => tag' = [of |-> msg, len |-> enc.has]
         /\ tagBuffer' \in BOOLEAN
<1>1. /\ cramped = FALSE /\ Block \in Nat /\ out \in Seq(Nat) /\ HeldShort
      /\ Handle(op).held \in Seq(Nat) /\ Len(Handle(op).held) \in Nat
      /\ Len(Handle(op).held) <= Block /\ tagBuffer \in BOOLEAN
  <2>1. out \in Seq(Nat) /\ enc.held \in Seq(Nat) /\ dec.held \in Seq(Nat) /\ Block \in Nat
    BY BlockAssumption DEF IInv, OpenMeansReady, TypeOK, Cryptor
  <2>2. cramped = FALSE /\ tagBuffer \in BOOLEAN
    BY Zenon DEF IInv, ProviderHasRoom, OpenMeansReady, TypeOK
  <2> QED
    BY <2>1, <2>2, LenProperties DEF IInv, HeldShort, Handle
<1>2. CASE mode = "GCM"
  <2>1. Handle(op).held = <<>> /\ out \o <<>> = out
    BY <1>1, <1>2, ConcatUnit DEF HeldShort, Handle
  <2>2. UNCHANGED <<out, enc, dec, cramped>> /\ tagBuffer' \in {TRUE, tagBuffer}
    BY <1>2, Zenon DEF FinalCall, s_finalize_gcm_encryption, s_finalize_gcm_decryption
  <2>3. /\ ret' \in {"ok", "provider_error"}
        /\ tag' = tag \/ tag' = [of |-> msg, len |-> enc.has]
    <3>1. CASE op = "enc"
      BY <1>2, <3>1 DEF FinalCall, s_finalize_gcm_encryption, s_cc_crypto_gcm_finalize
    <3>2. CASE op = "dec"
      <4>1. s_finalize_gcm_decryption
        BY <1>2, <3>2 DEF FinalCall
      <4> QED
        BY <4>1 DEF s_finalize_gcm_decryption, s_cc_crypto_gcm_finalize
    <3> QED
      BY <3>1, <3>2
  <2>4. op = "enc" /\ ret' = "ok" => tag' = [of |-> msg, len |-> enc.has]
    BY <1>2 DEF FinalCall, s_finalize_gcm_encryption, s_cc_crypto_gcm_finalize
  <2>5. tagBuffer' \in BOOLEAN
    BY <1>1, <2>2, Zenon
  <2> QED
    BY <1>1, <2>1, <2>2, <2>3, <2>4, <2>5
<1>3. CASE mode # "GCM"
  <2>1. /\ UNCHANGED <<tag, tagBuffer>>
        /\ NoRoom \/ (Block <= space /\ CCCryptorFinal(op, Handle(op), space))
    BY <1>3 DEF FinalCall, s_finalize_encryption, s_finalize_decryption, Handle,
                aws_symmetric_cipher_try_ensure_sufficient_buffer_space
  <2>2. CASE NoRoom
    BY <1>1, <1>3, <2>1, <2>2 DEF NoRoom
  <2>3. CASE Block <= space /\ CCCryptorFinal(op, Handle(op), space)
    <3> DEFINE n == IF mode # "CBC" THEN 0
                    ELSE IF op = "enc" THEN Block ELSE Len(Handle(op).held)
    <3>1. ~(n > space)
      BY <1>1, <2>3
    <3>2. \/ Fails
          \/ ret' = "ok" /\ out' = out \o Handle(op).held /\ UNCHANGED <<enc, dec, cramped>>
      BY <2>3, <3>1, Zenon DEF CCCryptorFinal
    <3> QED
      BY <1>1, <1>3, <2>1, <3>2 DEF Fails
  <2> QED
    BY <2>1, <2>2, <2>3, Zenon
<1> QED
  BY <1>2, <1>3, Zenon

\* A finalize that reaches the vtable preserves the invariant.
LEMMA FinalKeeps ==
  ASSUME IInv, NEW op \in {"enc", "dec"}, NEW space \in Nat, FinalCall(op, space), UNCHANGED mode
  PROVE  IInv'
<1> DEFINE m == [of |-> msg, len |-> enc.has]
<1>1. /\ TypeOK /\ good /\ life = "live" /\ life' = "live" /\ good' = FALSE
      /\ m \in Message /\ m = [of |-> msg, len |-> enc.has]
  BY CommonCryptoAssumption
     DEF IInv, OpenMeansReady, GoodIsLive, FinalCall, TypeOK, Cryptor, Message
<1> HIDE DEF m
<1>2. /\ cramped' = FALSE /\ UNCHANGED <<enc, dec>>
      /\ ret' \in {"ok", "short_buffer", "provider_error"}
      /\ out' = out \/ out' = out \o Handle(op).held
      /\ tag' = tag \/ tag' = m
      /\ mode = "GCM" /\ op = "enc" /\ ret' = "ok" => tag' = m
      /\ tagBuffer' \in BOOLEAN
  BY <1>1, FinalOutcome, Zenon
<1>3. /\ dir' = op /\ stream' \in {"closed", "broken"} /\ UNCHANGED <<fed, msg, specified>>
      /\ stream' = "closed" => stream = "open" /\ ret' = "ok" /\ dir \in {"none", op}
  BY <1>1 DEF FinalCall, TrackFinalize
<1>4. out' \in Seq(Nat)
  <2>1. out \in Seq(Nat) /\ Handle(op).held \in Seq(Nat)
    BY <1>1 DEF TypeOK, Cryptor, Handle
  <2>2. out \o Handle(op).held \in Seq(Nat)
    BY <2>1, ConcatNat, Zenon
  <2> QED
    BY <1>2, <2>1, <2>2, Zenon
<1>5. OpenMeansReady'
  <2>1. cramped' \in BOOLEAN /\ tagBuffer' \in BOOLEAN
    BY <1>2, Zenon
  <2> QED
    BY <1>1, <1>2, <1>3, <1>4, <2>1, Zenon DEF OpenMeansReady, TypeOK, Lives, Returns
<1>6. TagOfMostRecentEncrypt'
  <2> SUFFICES ASSUME mode = "GCM", stream' = "closed", op = "enc"
               PROVE  tag' = [of |-> msg, len |-> fed]
    BY <1>3 DEF TagOfMostRecentEncrypt
  <2>1. enc.has = fed
    BY <1>3, MissingPart
  <2> QED
    BY <1>1, <1>2, <1>3, <2>1
<1>7. ProviderHasRoom' /\ HeldShort' /\ HasFits' /\ NothingLost' /\ GoodIsLive' /\ LifeOfStream'
  BY <1>1, <1>2, <1>3
     DEF IInv, ProviderHasRoom, HeldShort, HasFits, NothingLost, GoodIsLive, LifeOfStream
<1> QED
  BY <1>5, <1>6, <1>7 DEF IInv

-----------------------------------------------------------------------------
(* Construction, reset and destruction. *)

\* A message that has just begun, or no message at all.
FreshState ==
  /\ life \in Lives /\ good \in BOOLEAN /\ ret \in Returns
  /\ mode \in {"CBC", "CTR", "GCM"}
  /\ enc \in {NULL, Fresh} /\ dec \in {NULL, Fresh}
  /\ tag \in Message /\ tagBuffer \in BOOLEAN /\ specified \in {NoTag, Given}
  /\ out = <<>> /\ fed = 0 /\ dir = "none" /\ msg \in 0..MaxMsg
  /\ stream \in {"none", "open", "broken"}
  /\ stream = "open" => good /\ enc = Fresh /\ dec = Fresh
  /\ good => life = "live"
  /\ IF life = "none" THEN stream = "none" /\ msg = 0 ELSE stream # "none"
  /\ cramped = FALSE

\* NULL and a cryptor that has just been made have seen nothing of the message.
LEMMA CryptorType ==
  /\ NULL \in Cryptor /\ NULL.held = <<>> /\ NULL.has = 0
  /\ Fresh \in Cryptor /\ Fresh.held = <<>> /\ Fresh.has = 0 /\ Fresh.ready
  /\ NoTag \in Message /\ Given \in Message
<1>1. <<>> \in Seq(Nat)
  BY EmptySeq
<1>2. NULL \in Cryptor /\ NULL.held = <<>> /\ NULL.has = 0
  BY <1>1, CommonCryptoAssumption DEF NULL, Cryptor
<1>3. Fresh \in Cryptor /\ Fresh.held = <<>> /\ Fresh.has = 0 /\ Fresh.ready
  BY <1>2, Zenon DEF Fresh, Cryptor
<1> QED
  BY <1>2, <1>3, CommonCryptoAssumption DEF Message, NoTag, Given

\* A cipher that has seen no byte of its message satisfies the invariant.
LEMMA FreshInv == FreshState => IInv
<1> SUFFICES ASSUME FreshState
             PROVE  IInv
  OBVIOUS
<1>1. <<>> \in Seq(Nat) /\ Len(<<>>) = 0 /\ Block \in Nat \ {0} /\ MaxFed \in Nat
  BY EmptySeq, BlockAssumption, CommonCryptoAssumption
<1>2. Span(0, 0) = <<>> /\ <<>> \o <<>> = <<>>
  BY <1>1, SpanEmpty, ConcatUnit
<1>3. /\ enc \in Cryptor /\ enc.held = <<>> /\ enc.has = 0
      /\ dec \in Cryptor /\ dec.held = <<>> /\ dec.has = 0
      /\ stream = "open" => enc.ready /\ dec.ready
  BY CryptorType DEF FreshState
<1>4. OpenMeansReady
  <2>1. fed \in 0..MaxFed /\ out \in Seq(Nat) /\ cramped \in BOOLEAN
    <3>1. fed = 0 /\ out = <<>> /\ cramped = FALSE
      BY DEF FreshState
    <3>2. 0 \in 0..MaxFed
      BY <1>1
    <3> QED
      BY <1>1, <3>1, <3>2, Zenon
  <2>2. dir \in {"none", "enc", "dec"} /\ stream \in {"none", "open", "closed", "broken"}
    BY DEF FreshState
  <2>3. TypeOK
    BY <1>3, <2>1, <2>2, Zenon DEF FreshState, TypeOK
  <2> QED
    BY <1>3, <2>3, Zenon DEF FreshState, OpenMeansReady
<1>5. HeldShort /\ HasFits /\ NothingLost
  BY <1>1, <1>2, <1>3 DEF FreshState, HeldShort, HasFits, NothingLost
<1>6. ProviderHasRoom /\ GoodIsLive /\ LifeOfStream /\ TagOfMostRecentEncrypt
  BY DEF FreshState, ProviderHasRoom, GoodIsLive, LifeOfStream, TagOfMostRecentEncrypt
<1> QED
  BY <1>4, <1>5, <1>6 DEF IInv

\* The invariant holds before any cipher is constructed.
LEMMA InitInv == Init => IInv
<1>1. 0 \in 0..MaxMsg
  BY CommonCryptoAssumption
<1>2. Init => FreshState
  BY <1>1, CryptorType, Zenon DEF Init, FreshState, Lives, Returns
<1> QED
  BY <1>2, FreshInv

\* Making the cryptors succeeds for both or is an error.
LEMMA CryptorsMade ==
  ASSUME InitBoth(s_reset) \/ s_initialize_gcm_cipher_materials(s_reset)
  PROVE  /\ ret' \in {"ok", "provider_error"}
         /\ enc' \in {NULL, Fresh} /\ dec' \in {NULL, Fresh}
         /\ ret' = "ok" => enc' = Fresh /\ dec' = Fresh
<1>1. s_reset.enc = NULL /\ s_reset.dec = NULL
  BY DEF s_reset
<1> QED
  BY <1>1 DEF InitBoth, s_initialize_gcm_cipher_materials

\* What is left when a cipher is destroyed.
LEMMA DestroyedFresh ==
  ASSUME IInv, s_destroy, ret' \in Returns, UNCHANGED mode
  PROVE  FreshState'
<1>1. 0 \in 0..MaxMsg /\ mode \in {"CBC", "CTR", "GCM"}
  BY CommonCryptoAssumption DEF IInv, OpenMeansReady, TypeOK
<1>2. tagBuffer' \in BOOLEAN /\ good' \in BOOLEAN /\ cramped' = FALSE
  BY Zenon DEF s_destroy, IInv, ProviderHasRoom, OpenMeansReady, TypeOK
<1>3. enc' = NULL /\ dec' = NULL
  BY DEF s_destroy, s_reset
<1> QED
  BY <1>1, <1>2, <1>3, CryptorType DEF s_destroy, FreshState, Lives

\* Construction preserves the invariant, when it fails too.
LEMMA NewKeeps ==
  ASSUME IInv, UNCHANGED mode,
         aws_aes_cbc_256_new_impl \/ aws_aes_ctr_256_new_impl \/ aws_aes_gcm_256_new_impl
  PROVE  IInv'
<1>1. /\ life = "none" /\ msg = 0 /\ mode \in {"CBC", "CTR", "GCM"}
      /\ tag \in Message /\ specified \in {NoTag, Given} /\ MaxMsg >= 1 /\ MaxMsg \in Nat
  BY CommonCryptoAssumption
     DEF IInv, OpenMeansReady, TypeOK, LifeOfStream, New, aws_aes_cbc_256_new_impl,
         aws_aes_ctr_256_new_impl, aws_aes_gcm_256_new_impl
<1>2. CASE ret' = "null" /\ s_destroy
  <2>1. FreshState'
    BY <1>2, DestroyedFresh DEF Returns
  <2> QED
    BY <2>1, FreshInv, PTL
<1>3. CASE ~(ret' = "null" /\ s_destroy)
  <2>1. /\ ret' = "ok" /\ life' = "live" /\ good' = TRUE /\ NewMessage
        /\ InitBoth(s_reset) \/ s_initialize_gcm_cipher_materials(s_reset)
        /\ \/ UNCHANGED <<tag, tagBuffer, specified>>
           \/ \E t \in {NoTag, Given} : specified' = t /\ tag' = t /\ tagBuffer' = (t = Given)
    BY <1>3
       DEF New, aws_aes_cbc_256_new_impl, aws_aes_ctr_256_new_impl, aws_aes_gcm_256_new_impl,
           s_initialize_cbc_cipher_materials, s_initialize_ctr_cipher_materials
  <2>2. enc' = Fresh /\ dec' = Fresh
    BY <2>1, CryptorsMade
  <2>3. tag' \in Message /\ specified' \in {NoTag, Given}
    BY <1>1, <2>1, CryptorType
  <2>4. tagBuffer' \in BOOLEAN /\ cramped' = FALSE
    <3>1. tagBuffer \in BOOLEAN /\ cramped = FALSE
      BY Zenon DEF IInv, ProviderHasRoom, OpenMeansReady, TypeOK
    <3>2. UNCHANGED cramped
      BY <2>1 DEF NewMessage
    <3> QED
      BY <2>1, <3>1, <3>2, Zenon
  <2>5. FreshState'
    BY <1>1, <2>1, <2>2, <2>3, <2>4 DEF FreshState, NewMessage, Lives, Returns
  <2> QED
    BY <2>5, FreshInv, PTL
<1> QED
  BY <1>2, <1>3

\* reset preserves the invariant; when it fails the flag stays and the message is broken.
LEMMA ResetKeeps ==
  ASSUME IInv, Reset, UNCHANGED mode
  PROVE  IInv'
<1>1. /\ TypeOK /\ life = "live" /\ life' = life /\ msg \in 0..MaxMsg /\ msg < MaxMsg
      /\ UNCHANGED <<tag, tagBuffer, specified>> /\ NewMessage /\ MaxMsg \in Nat
      /\ good' = IF ret' = "ok" THEN TRUE ELSE good
      /\ InitBoth(s_reset) \/ s_initialize_gcm_cipher_materials(s_reset)
  BY CommonCryptoAssumption
     DEF IInv, OpenMeansReady, TypeOK, Reset, aws_symmetric_cipher_reset, s_cbc_reset,
         s_ctr_reset, s_gcm_reset, s_initialize_cbc_cipher_materials,
         s_initialize_ctr_cipher_materials
<1>2. /\ ret' \in {"ok", "provider_error"}
      /\ enc' \in {NULL, Fresh} /\ dec' \in {NULL, Fresh}
      /\ ret' = "ok" => enc' = Fresh /\ dec' = Fresh
  BY <1>1, CryptorsMade
<1>3. cramped' = FALSE /\ tagBuffer' \in BOOLEAN /\ good' \in BOOLEAN
  <2>1. cramped' = FALSE
    BY <1>1, Zenon DEF NewMessage, IInv, ProviderHasRoom, TypeOK
  <2>2. tagBuffer \in BOOLEAN /\ good \in BOOLEAN
    BY <1>1, Zenon DEF TypeOK
  <2> QED
    BY <1>1, <2>1, <2>2, Zenon
<1>4. /\ life' = "live" /\ life' \in Lives /\ ret' \in Returns /\ msg' \in 0..MaxMsg
      /\ stream' = IF ret' = "ok" THEN "open" ELSE "broken"
      /\ out' = <<>> /\ fed' = 0 /\ dir' = "none"
  BY <1>1, <1>2 DEF NewMessage, Lives, Returns
<1>5. /\ life' # "none" /\ stream' # "none" /\ stream' \in {"none", "open", "broken"}
      /\ stream' = "open" => ret' = "ok"
  BY <1>4
<1>6. /\ mode' \in {"CBC", "CTR", "GCM"}
      /\ tag' \in Message /\ specified' \in {NoTag, Given}
  BY <1>1 DEF TypeOK
<1>7. FreshState'
  BY <1>1, <1>2, <1>3, <1>4, <1>5, <1>6, Zenon DEF FreshState
<1> QED
  BY <1>7, FreshInv, PTL

\* Destruction preserves the invariant.
LEMMA DestroyKeeps ==
  ASSUME IInv, Destroy, UNCHANGED mode
  PROVE  IInv'
<1>1. FreshState'
  BY DestroyedFresh DEF Destroy, Returns
<1> QED
  BY <1>1, FreshInv, PTL

-----------------------------------------------------------------------------
(* The theorems. *)

\* Every step of the back end, whatever CommonCrypto answers and whatever room the caller
\* offers, preserves the invariant.
LEMMA NextKeeps ==
  ASSUME IInv, [Next]_vars
  PROVE  IInv'
<1>1. TypeOK /\ \A k \in 0..MaxChunk : k \in Nat
  BY CommonCryptoAssumption DEF IInv, OpenMeansReady
<1>2. ASSUME NEW space \in Spaces, NEW k \in 0..MaxChunk, UNCHANGED mode,
             Encrypt(k, space) \/ Decrypt(k, space)
      PROVE  IInv'
  <2>1. space \in Nat /\ k \in Nat
    BY <1>1, CommonCryptoAssumption
  <2>2. Refused \/ UpdateCall("enc", k, space) \/ UpdateCall("dec", k, space)
    BY <1>2, DispatchUpdate, Zenon
  <2> QED
    BY <1>2, <2>1, <2>2, RefusedKeeps, UpdateKeeps
<1>3. ASSUME NEW space \in Spaces, UNCHANGED mode,
             FinalizeEncryption(space) \/ FinalizeDecryption(space)
      PROVE  IInv'
  <2>1. space \in Nat
    BY CommonCryptoAssumption
  <2>2. Refused \/ FinalCall("enc", space) \/ FinalCall("dec", space)
    BY <1>3, DispatchFinal, Zenon
  <2> QED
    BY <1>3, <2>1, <2>2, RefusedKeeps, FinalKeeps
<1>4. CASE /\ UNCHANGED mode
           /\ aws_aes_cbc_256_new_impl \/ aws_aes_ctr_256_new_impl \/ aws_aes_gcm_256_new_impl
  BY <1>4, NewKeeps
<1>5. CASE Reset /\ UNCHANGED mode
  BY <1>5, ResetKeeps
<1>6. CASE Destroy /\ UNCHANGED mode
  BY <1>6, DestroyKeeps
<1>7. CASE UNCHANGED vars
  BY <1>7, RefusedKeeps
<1> QED
  BY <1>2, <1>3, <1>4, <1>5, <1>6, <1>7 DEF Next

\* The invariant holds in every reachable state.
THEOREM Inductive == Spec => []IInv
<1>1. Init => IInv
  BY InitInv
<1>2. IInv /\ [Next]_vars => IInv'
  BY NextKeeps
<1> QED
  BY <1>1, <1>2, PTL DEF Spec

\* CommonCrypto never fails a cipher for want of room: what the code asks the caller for
\* before each call is enough, for every block size and every way a message is cut in pieces.
THEOREM RoomEnough == Spec => []ProviderHasRoom
<1>1. IInv => ProviderHasRoom
  BY DEF IInv
<1> QED
  BY <1>1, Inductive, PTL

\* A message is only open on a good cipher with both cryptors made, also when a reset has
\* failed half way; and the state has its type.
THEOREM OpenIsReady == Spec => []OpenMeansReady
<1>1. IInv => OpenMeansReady
  BY DEF IInv
<1> QED
  BY <1>1, Inductive, PTL

\* Once an encryption with GCM is finalized the cipher has the tag of all of its message,
\* however many messages and resets there were and whatever tag was there before.
THEOREM TagIsCurrent == Spec => []TagOfMostRecentEncrypt
<1>1. IInv => TagOfMostRecentEncrypt
  BY DEF IInv
<1> QED
  BY <1>1, Inductive, PTL

-----------------------------------------------------------------------------
(* The back end implements CipherStream, step by step. *)

\* An encrypt or decrypt that reaches the vtable is an update of the stream, breaks it, or
\* leaves it as it is.
LEMMA UpdateRefines ==
  ASSUME IInv, IInv', NEW op \in {"enc", "dec"}, NEW k \in Nat, NEW space \in Nat,
         UpdateCall(op, k, space)
  PROVE  [Stream!Next]_(Stream!streamVars)
<1>1. /\ stream \in {"open", "broken"} /\ TrackUpdate(op, k) /\ fed \in Nat
      /\ out \in Seq(Nat)
  BY CommonCryptoAssumption DEF IInv, OpenMeansReady, TypeOK, GoodIsLive, UpdateCall
<1>2. \/ ret' \in {"short_buffer", "provider_error"} /\ UNCHANGED <<enc, dec, out>>
      \/ ret' = "ok" /\ UpdateEffect(op, k)
  BY UpdateOutcome, Zenon
<1>3. /\ fed' = IF ret' = "short_buffer" THEN fed ELSE fed + k
      /\ stream' \in {stream, "broken"}
      /\ stream' # "broken" => stream' = stream /\ ret' \in {"ok", "short_buffer"}
  BY <1>1 DEF TrackUpdate
<1>4. CASE stream' = "broken"
  BY <1>1, <1>4 DEF Stream!Next, Stream!Break
<1>5. CASE stream' = "open" /\ ret' = "short_buffer"
  BY <1>1, <1>2, <1>3, <1>5 DEF Stream!streamVars
<1>6. CASE stream' = "open" /\ ret' = "ok"
  <2>1. /\ out' \in Seq(Nat) /\ enc'.held \in Seq(Nat) /\ dec'.held \in Seq(Nat)
        /\ fed' \in Nat /\ fed' = fed + k
        /\ out' \o enc'.held = Span(0, fed') \/ out' \o dec'.held = Span(0, fed')
    <3>1. fed' \in Nat /\ fed' = fed + k
      BY <1>1, <1>3, <1>6
    <3>2. out' \in Seq(Nat) /\ enc' \in Cryptor /\ dec' \in Cryptor
      BY DEF IInv, OpenMeansReady, TypeOK
    <3>3. out' \o enc'.held = Span(0, fed') \/ out' \o dec'.held = Span(0, fed')
      BY <1>6 DEF IInv, NothingLost
    <3> QED
      BY <3>1, <3>2, <3>3, SMTT(30) DEF Cryptor
  <2>2. Len(out') \in 0..fed' /\ out' = Span(0, Len(out'))
    BY <2>1, PrefixOfSpan, Zenon
  <2>3. out' = [i \in 1..Len(out') |-> i]
    <3>1. Len(out') \in Nat
      BY <2>1, LenProperties
    <3>2. Span(0, Len(out')) = [i \in 1..Len(out') |-> i]
      BY <3>1, MessageType, Zenon
    <3> QED
      BY <2>2, <3>2
  <2>4. PICK bytes \in Seq(Nat) : out' = out \o bytes
    BY <1>2, <1>6, Zenon DEF UpdateEffect
  <2>5. Len(out') = Len(out) + Len(bytes) /\ Len(out) \in Nat /\ Len(bytes) \in Nat
    BY <1>1, <2>4, ConcatProperties, LenProperties
  <2>6. Len(out') \in Len(out)..fed' /\ fed' >= fed
    BY <1>1, <2>1, <2>2, <2>5
  <2> QED
    BY <1>1, <1>3, <1>6, <2>1, <2>3, <2>6 DEF Stream!Next, Stream!Update, Stream!Prefix
<1> QED
  BY <1>1, <1>3, <1>4, <1>5, <1>6

\* A finalize that reaches the vtable completes the stream, or breaks it.
LEMMA FinalRefines ==
  ASSUME IInv, NEW op \in {"enc", "dec"}, NEW space \in Nat, FinalCall(op, space)
  PROVE  Stream!Next
<1>1. stream \in {"open", "broken"} /\ fed \in Nat /\ TrackFinalize(op)
  BY CommonCryptoAssumption DEF IInv, OpenMeansReady, TypeOK, GoodIsLive, FinalCall
<1>2. ret' = "ok" => out' = out \o Handle(op).held
  BY FinalOutcome, Zenon
<1>3. CASE stream' = "broken"
  BY <1>1, <1>3 DEF Stream!Next, Stream!Break
<1>4. CASE stream' # "broken"
  <2>1. /\ stream' = "closed" /\ stream = "open" /\ ret' = "ok" /\ dir \in {"none", op}
        /\ fed' = fed
    BY <1>1, <1>4 DEF TrackFinalize
  <2>2. out \o Handle(op).held = Span(0, fed)
    BY <2>1, MissingPart, SMTT(30)
  <2>3. Span(0, fed) = [i \in 1..fed |-> i]
    BY <1>1, MessageType, Zenon
  <2> QED
    BY <1>2, <2>1, <2>2, <2>3 DEF Stream!Next, Stream!Finalize, Stream!Prefix
<1> QED
  BY <1>3, <1>4

\* Every step of the back end is a step of the stream, or leaves it as it is.
LEMMA NextRefines ==
  ASSUME IInv, IInv', [Next]_vars
  PROVE  [Stream!Next]_(Stream!streamVars)
<1>1. TypeOK /\ (\A k \in 0..MaxChunk : k \in Nat) /\ (Refused => UNCHANGED Stream!streamVars)
  BY CommonCryptoAssumption DEF IInv, OpenMeansReady, Refused, others, Stream!streamVars
<1>2. ASSUME NEW space \in Spaces, NEW k \in 0..MaxChunk,
             Encrypt(k, space) \/ Decrypt(k, space)
      PROVE  [Stream!Next]_(Stream!streamVars)
  <2>1. space \in Nat /\ k \in Nat
    BY <1>1, CommonCryptoAssumption
  <2>2. Refused \/ UpdateCall("enc", k, space) \/ UpdateCall("dec", k, space)
    BY <1>2, DispatchUpdate, Zenon
  <2> QED
    BY <1>1, <2>1, <2>2, UpdateRefines
<1>3. ASSUME NEW space \in Spaces, FinalizeEncryption(space) \/ FinalizeDecryption(space)
      PROVE  [Stream!Next]_(Stream!streamVars)
  <2>1. space \in Nat
    BY CommonCryptoAssumption
  <2>2. Refused \/ FinalCall("enc", space) \/ FinalCall("dec", space)
    BY <1>3, DispatchFinal, Zenon
  <2> QED
    BY <1>1, <2>1, <2>2, FinalRefines
<1>4. CASE aws_aes_cbc_256_new_impl \/ aws_aes_ctr_256_new_impl \/ aws_aes_gcm_256_new_impl
  <2>1. stream = "none" /\ fed = 0 /\ out = <<>>
    BY <1>4 DEF IInv, LifeOfStream, New, aws_aes_cbc_256_new_impl, aws_aes_ctr_256_new_impl,
                aws_aes_gcm_256_new_impl
  <2>2. fed' = 0 /\ out' = <<>> /\ stream' \in {"none", "open", "broken"}
    BY <1>4 DEF New, aws_aes_cbc_256_new_impl, aws_aes_ctr_256_new_impl,
                aws_aes_gcm_256_new_impl, NewMessage, s_destroy
  <2> QED
    BY <2>1, <2>2 DEF Stream!Next, Stream!Create, Stream!streamVars
<1>5. CASE Reset
  <2>1. stream # "none"
    BY <1>5 DEF IInv, LifeOfStream, Reset, aws_symmetric_cipher_reset
  <2>2. fed' = 0 /\ out' = <<>> /\ stream' \in {"open", "broken"}
    BY <1>5 DEF Reset, aws_symmetric_cipher_reset, NewMessage
  <2> QED
    BY <2>1, <2>2 DEF Stream!Next, Stream!Reset, Stream!Break
<1>6. CASE Destroy
  BY <1>6 DEF IInv, LifeOfStream, Destroy, s_destroy, Stream!Next, Stream!Destroy
<1>7. CASE UNCHANGED vars
  BY <1>7 DEF vars, others, Stream!streamVars
<1> QED
  BY <1>2, <1>3, <1>4, <1>5, <1>6, <1>7 DEF Next

\* AES-CBC, AES-CTR and AES-GCM over CommonCrypto implement the stream the header promises,
\* for every block size and every way a message is cut in pieces.
THEOREM StreamRefined == Spec => ImplementsStream
<1>1. Init => Stream!Init
  BY DEF Init, Stream!Init
<1>2. IInv /\ IInv' /\ [Next]_vars => [Stream!Next]_(Stream!streamVars)
  BY NextRefines
<1> QED
  BY <1>1, <1>2, Inductive, PTL DEF Spec, ImplementsStream, Stream!Spec
=============================================================================
