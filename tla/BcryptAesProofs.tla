-------------------------- MODULE BcryptAesProofs --------------------------
(***************************************************************************)
(* What the Windows CBC and GCM ciphers guarantee for every block size,    *)
(* every sequence of calls and every choice of the bounds.                 *)
(***************************************************************************)
EXTENDS BcryptAes, ByteSpansProofs

-----------------------------------------------------------------------------
(* How much is held back. *)

\* s_fill_in_overflow holds back some of what is buffered, and something if there is
\* anything.
LEMMA CbcKeeps ==
  ASSUME NEW n \in Nat
  PROVE  /\ s_fill_in_overflow(n) \in 0..n
         /\ n > 0 => s_fill_in_overflow(n) > 0
<1>1. RESERVE_SIZE \in Nat \ {0}
  BY BlockAssumption DEF RESERVE_SIZE
<1>2. n % RESERVE_SIZE \in 0..(RESERVE_SIZE - 1)
  BY <1>1, ModRange
<1> QED
  BY <1>1, <1>2 DEF s_fill_in_overflow

\* What CBC does not hold back is a number of whole reserves, so of whole blocks.
LEMMA CbcReleasesBlocks ==
  ASSUME NEW n \in Nat
  PROVE  (n - s_fill_in_overflow(n)) % Block = 0
<1> DEFINE R == RESERVE_SIZE
           q == n \div R
<1>1. R \in Nat \ {0} /\ Block \in Nat \ {0} /\ R = 2 * Block
  BY BlockAssumption DEF RESERVE_SIZE
<1>2. q \in Nat /\ n = R * q + (n % R) /\ n % R \in 0..(R - 1)
  BY <1>1, ModDiv, ModRange, Zenon
<1> HIDE DEF R, q
<1>3. CASE n <= R
  <2>1. n - s_fill_in_overflow(n) = Block * 0
    BY <1>1, <1>3 DEF s_fill_in_overflow, R
  <2> QED
    BY <1>1, <2>1, MultipleMod
<1>4. CASE n > R /\ n % R = 0
  <2>1. q >= 1
    BY <1>1, <1>2, <1>4
  <2>2. n - s_fill_in_overflow(n) = n - R
    BY <1>1, <1>4 DEF s_fill_in_overflow, R
  <2>3. n - R = R * (q - 1)
    BY <1>1, <1>2, <1>4, <2>1
  <2>4. R * (q - 1) = Block * (2 * (q - 1))
    BY <1>1, <1>2, <2>1
  <2>5. 2 * (q - 1) \in Nat
    BY <1>2, <2>1
  <2> QED
    BY <1>1, <2>2, <2>3, <2>4, <2>5, MultipleMod
<1>5. CASE n > R /\ n % R # 0
  <2>1. n - s_fill_in_overflow(n) = n - (n % R)
    BY <1>1, <1>5 DEF s_fill_in_overflow, R
  <2>2. n - (n % R) = R * q
    BY <1>1, <1>2
  <2>3. R * q = Block * (2 * q)
    BY <1>1, <1>2
  <2> QED
    BY <1>1, <1>2, <2>1, <2>2, <2>3, MultipleMod
<1> QED
  BY <1>1, <1>3, <1>4, <1>5

\* What GCM holds back, and that the rest is whole blocks.
LEMMA GcmKeeps ==
  ASSUME NEW n \in Nat
  PROVE  /\ s_gcm_overflow(n) \in 0..n
         /\ n > 0 => s_gcm_overflow(n) > 0
         /\ s_gcm_overflow(n) < 2 * Block
         /\ (n - s_gcm_overflow(n)) % Block = 0
<1> DEFINE q == n \div Block
<1>1. Block \in Nat \ {0}
  BY BlockAssumption
<1>2. q \in Nat /\ n = Block * q + (n % Block) /\ n % Block \in 0..(Block - 1)
  BY <1>1, ModDiv, ModRange, Zenon
<1> HIDE DEF q
<1>3. CASE n <= Block
  <2>1. s_gcm_overflow(n) = n /\ n - n = Block * 0
    BY <1>1, <1>3 DEF s_gcm_overflow
  <2>2. (Block * 0) % Block = 0
    BY <1>1, MultipleMod
  <2> QED
    BY <1>1, <1>3, <2>1, <2>2
<1>4. CASE n > Block
  <2>1. s_gcm_overflow(n) = Block + (n % Block)
    BY <1>1, <1>4 DEF s_gcm_overflow
  <2>2. q >= 1
    BY <1>1, <1>2, <1>4
  <2>3. q - 1 \in Nat /\ n - (Block + (n % Block)) = Block * (q - 1) /\ Block * (q - 1) >= 0
    BY <1>1, <1>2, <2>2
  <2>4. (n - s_gcm_overflow(n)) % Block = 0
    BY <1>1, <2>1, <2>3, MultipleMod
  <2> QED
    BY <1>1, <1>2, <2>1, <2>3, <2>4
<1> QED
  BY <1>1, <1>3, <1>4

-----------------------------------------------------------------------------
(* The inductive invariant. *)

\* As long as a message is open and not empty, some of it is held back: that is
\* what gives finalize a last call to make.
OpenHoldsBack == stream = "open" /\ fed > 0 => overflow # <<>>

\* GCM holds back less than two blocks, and never sets the padding flag.
GcmHoldsBack == mode = "GCM" => Len(overflow) < 2 * Block /\ cipher_flags = "none"

\* What CNG has authenticated is what it has processed.
MacIsOutput == mode = "GCM" => mac = out

\* There is a message exactly when there is a cipher.
LifeOfStream ==
  IF life = "none" THEN stream = "none" /\ fed = 0 /\ out = <<>> ELSE stream # "none"

IInv ==
  /\ TypeOK
  /\ NothingLost
  /\ ProviderContract
  /\ GoodMeansUsable
  /\ OpenHoldsBack
  /\ GcmHoldsBack
  /\ MacIsOutput
  /\ TagOfMostRecentEncrypt
  /\ LifeOfStream

-----------------------------------------------------------------------------
(* What an update does, whatever the mode and the direction. *)

\* The buffered bytes are cut in whole blocks, which go to the provider unless there
\* are none, and a tail, which is held back.
UpdateEffect(k) ==
  \E bytes, held \in Seq(Nat) :
    /\ bytes \o held = Buffered(k)
    /\ Len(bytes) % Block = 0
    /\ Len(overflow) + k > 0 => held # <<>>
    /\ overflow' = held
    /\ cipher_flags' \in {"none", "padding"}
    /\ UNCHANGED <<key_handle, auth_info, tag>>
    /\ mode = "GCM" => Len(held) < 2 * Block /\ UNCHANGED cipher_flags
    /\ mac' \in Seq(Nat) /\ (mode = "GCM" => mac' = out')
    /\ \/ ret' = "ok" /\ bytes = <<>> /\ UNCHANGED <<out, calls>>
       \/ /\ ret' = "ok" /\ out' = out \o bytes
          /\ calls' = Append(calls, [len |-> Len(bytes), last |-> FALSE])
       \/ ret' \in {"short_buffer", "provider_error"} /\ UNCHANGED <<out, calls>>

\* The overflow followed by the new input is a sequence of as many bytes as both.
LEMMA BufferedType ==
  ASSUME TypeOK, NEW k \in Nat
  PROVE  Buffered(k) \in Seq(Nat) /\ Len(Buffered(k)) = Len(overflow) + k
<1>1. fed \in Nat /\ fed + k \in Nat /\ fed <= fed + k /\ (fed + k) - fed = k
  BY DEF TypeOK
<1>2. Span(fed, fed + k) \in Seq(Nat) /\ Len(Span(fed, fed + k)) = (fed + k) - fed
  BY <1>1, SpanType, Zenon
<1>3. overflow \in Seq(Nat)
  BY DEF TypeOK
<1> QED
  BY <1>1, <1>2, <1>3, ConcatProperties, Zenon DEF Buffered

\* The bytes released and the bytes held back are the buffered bytes, cut in two.
LEMMA Cut ==
  ASSUME NEW s \in Seq(Nat), NEW keep \in 0..Len(s)
  PROVE  /\ Released(s, keep) \in Seq(Nat) /\ Len(Released(s, keep)) = Len(s) - keep
         /\ Held(s, keep) \in Seq(Nat) /\ Len(Held(s, keep)) = keep
         /\ Released(s, keep) \o Held(s, keep) = s
<1>1. Len(s) \in Nat
  BY LenProperties
<1> DEFINE n == Len(s) - keep
<1>2. n \in 0..Len(s) /\ Len(s) - n = keep
  BY <1>1
<1> HIDE DEF n
<1>3. /\ SubSeq(s, 1, n) \in Seq(Nat) /\ Len(SubSeq(s, 1, n)) = n
      /\ SubSeq(s, n + 1, Len(s)) \in Seq(Nat)
      /\ Len(SubSeq(s, n + 1, Len(s))) = Len(s) - n
      /\ SubSeq(s, 1, n) \o SubSeq(s, n + 1, Len(s)) = s
  BY <1>2, CutInTwo, Zenon
<1>4. Released(s, keep) = SubSeq(s, 1, n) /\ Held(s, keep) = SubSeq(s, n + 1, Len(s))
  BY DEF Released, Held, n
<1> QED
  BY <1>2, <1>3, <1>4, Zenon DEF n

\* The call of the provider and its early returns; last says which flags it was given.
LEMMA ProcessEffect ==
  ASSUME TypeOK, MacIsOutput, NEW op, NEW bytes \in Seq(Nat), NEW need, NEW space,
         NEW last \in BOOLEAN, LastCall = last,
         Process(op, bytes, need, space)
  PROVE  /\ mac' \in Seq(Nat) /\ tag' \in [of : Int, bytes : Seq(Nat)]
         /\ mode = "GCM" => mac' = out'
         /\ ~last => tag' = tag
         /\ mode = "GCM" /\ op = "enc" /\ last /\ ret' = "ok" /\ bytes # <<>> =>
              tag' = [of |-> msg, bytes |-> mac']
         /\ \/ ret' = "ok" /\ bytes = <<>> /\ UNCHANGED <<out, calls>>
            \/ /\ ret' = "ok" /\ out' = out \o bytes
               /\ calls' = Append(calls, [len |-> Len(bytes), last |-> last])
            \/ ret' \in {"short_buffer", "provider_error"} /\ UNCHANGED <<out, calls>>
<1>1. mac \in Seq(Nat) /\ tag \in [of : Int, bytes : Seq(Nat)] /\ msg \in Int
  BY DEF TypeOK
<1>2. mac \o bytes \in Seq(Nat)
  BY <1>1, ConcatProperties
<1>3. CASE UNCHANGED <<out, calls, mac, tag>> /\ (ret' = "ok" => bytes = <<>>)
  BY <1>1, <1>3 DEF Process, BCryptCall, MacIsOutput
<1>4. CASE ~(UNCHANGED <<out, calls, mac, tag>> /\ (ret' = "ok" => bytes = <<>>))
  <2>1. /\ ret' = "ok" /\ out' = out \o bytes
        /\ calls' = Append(calls, [len |-> Len(bytes), last |-> LastCall])
        /\ mac' = IF mode = "GCM" THEN mac \o bytes ELSE mac
        /\ tag' = IF mode = "GCM" /\ op = "enc" /\ LastCall
                  THEN [of |-> msg, bytes |-> mac'] ELSE tag
    BY <1>4 DEF Process, BCryptCall
  <2>2. mac' \in Seq(Nat)
    BY <1>1, <1>2, <2>1
  <2>3. tag' \in [of : Int, bytes : Seq(Nat)]
    BY <1>1, <2>1, <2>2
  <2>4. mode = "GCM" => mac' = out'
    BY <2>1 DEF MacIsOutput
  <2>5. /\ ~last => tag' = tag
        /\ mode = "GCM" /\ op = "enc" /\ last => tag' = [of |-> msg, bytes |-> mac']
    BY <2>1, Zenon
  <2> QED
    BY <2>1, <2>2, <2>3, <2>4, <2>5, Zenon
<1> QED
  BY <1>3, <1>4

Vtable_update(op, k, space) ==
  IF mode = "CBC"
  THEN IF op = "enc" THEN s_aes_cbc_encrypt(k, space) ELSE s_aes_cbc_decrypt(k, space)
  ELSE IF op = "enc" THEN s_aes_gcm_encrypt(k, space) ELSE s_aes_gcm_decrypt(k, space)

\* encrypt and decrypt of either vtable do what UpdateEffect says: move the input behind
\* the overflow, hand whole blocks to the provider and hold the rest back.
LEMMA UpdateStep ==
  ASSUME TypeOK, GoodMeansUsable, MacIsOutput, GcmHoldsBack, good,
         NEW op, NEW k \in Nat, NEW space, Vtable_update(op, k, space)
  PROVE  UpdateEffect(k)
<1> DEFINE n == Len(overflow) + k
           s == Buffered(k)
<1>1. n \in Nat /\ Len(overflow) \in Nat
  BY LenProperties DEF TypeOK
<1>2. s \in Seq(Nat) /\ Len(s) = n
  BY BufferedType
<1>3. ASSUME NEW keep \in 0..n, NEW need, NEW dirn,
             n > 0 => keep > 0,
             mode = "GCM" => keep < 2 * Block /\ UNCHANGED cipher_flags,
             (n - keep) % Block = 0,
             overflow' = Held(s, keep),
             cipher_flags' \in {"none", "padding"},
             UNCHANGED <<key_handle, auth_info>>,
             LastCall = FALSE,
             Process(dirn, Released(s, keep), need, space)
      PROVE  UpdateEffect(k)
  <2> DEFINE bytes == Released(s, keep)
             held == Held(s, keep)
  <2>1. /\ bytes \in Seq(Nat) /\ Len(bytes) = n - keep
        /\ held \in Seq(Nat) /\ Len(held) = keep
        /\ bytes \o held = s
    BY <1>2, <1>3, Cut, ZenonT(40)
  <2>2. n > 0 => held # <<>>
    BY <1>1, <1>3, <2>1, EmptySeq
  <2>3. /\ mac' \in Seq(Nat) /\ tag' = tag
        /\ mode = "GCM" => mac' = out'
        /\ \/ ret' = "ok" /\ bytes = <<>> /\ UNCHANGED <<out, calls>>
           \/ /\ ret' = "ok" /\ out' = out \o bytes
              /\ calls' = Append(calls, [len |-> Len(bytes), last |-> FALSE])
           \/ ret' \in {"short_buffer", "provider_error"} /\ UNCHANGED <<out, calls>>
    BY <1>3, <2>1, ProcessEffect, Zenon
  <2> HIDE DEF bytes, held, s
  <2>4. overflow' = held
    BY <1>3 DEF held
  <2>5. Len(bytes) % Block = 0
    BY <1>3, <2>1
  <2>6. mode = "GCM" => Len(held) < 2 * Block /\ UNCHANGED cipher_flags
    BY <1>3, <2>1
  <2> QED
    BY <1>3, <2>1, <2>2, <2>3, <2>4, <2>5, <2>6, Zenon DEF s, UpdateEffect
<1>4. CASE mode = "CBC"
  <2> DEFINE keep == s_fill_in_overflow(n)
  <2>1. keep \in 0..n /\ (n > 0 => keep > 0) /\ (n - keep) % Block = 0
    BY <1>1, CbcKeeps, CbcReleasesBlocks
  <2>2. /\ cipher_flags' = "none"
        /\ overflow' = Held(s, keep)
        /\ UNCHANGED <<key_handle, auth_info>>
        /\ \/ s_aes_default_encrypt(Released(s, keep), space)
           \/ s_default_aes_decrypt(Released(s, keep), space)
    BY <1>4 DEF Vtable_update, s_aes_cbc_encrypt, s_aes_cbc_decrypt
  <2>3. LastCall = FALSE
    BY <1>4, <2>2 DEF LastCall
  <2>4. \E dirn, need : Process(dirn, Released(s, keep), need, space)
    BY <2>2 DEF s_aes_default_encrypt, s_default_aes_decrypt
  <2> QED
    BY <1>3, <1>4, <2>1, <2>2, <2>3, <2>4, Zenon
<1>5. CASE mode = "GCM"
  <2> DEFINE keep == IF k = 0 THEN Len(overflow) ELSE s_gcm_overflow(n)
  <2>1. keep \in 0..n /\ (n > 0 => keep > 0) /\ (n - keep) % Block = 0 /\ keep < 2 * Block
    <3>1. CASE k = 0
      <4>1. keep = n /\ n - keep = Block * 0 /\ n < 2 * Block
        BY <1>1, <1>5, <3>1, BlockAssumption DEF GcmHoldsBack
      <4> QED
        BY <1>1, <4>1, MultipleMod, BlockAssumption
    <3>2. CASE k # 0
      BY <1>1, <3>2, GcmKeeps
    <3> QED
      BY <3>1, <3>2
  <2>2. /\ cipher_flags' = cipher_flags
        /\ overflow' = Held(s, keep)
        /\ UNCHANGED <<key_handle, auth_info>>
        /\ \/ s_aes_default_encrypt(Released(s, keep), space)
           \/ s_default_aes_decrypt(Released(s, keep), space)
    BY <1>5 DEF Vtable_update, s_aes_gcm_encrypt, s_aes_gcm_decrypt
  <2>3. LastCall = FALSE
    BY <1>5, <2>2 DEF LastCall, GoodMeansUsable
  <2>4. \E dirn, need : Process(dirn, Released(s, keep), need, space)
    BY <2>2 DEF s_aes_default_encrypt, s_default_aes_decrypt
  <2>5. cipher_flags' \in {"none", "padding"}
    BY <2>2 DEF TypeOK
  <2> QED
    BY <1>3, <2>1, <2>2, <2>3, <2>4, <2>5, Zenon
<1> QED
  BY <1>4, <1>5 DEF TypeOK

-----------------------------------------------------------------------------
(* What a finalize does, whatever the mode and the direction. *)

FinalEffect(op) ==
  /\ overflow' = <<>>
  /\ cipher_flags' \in {"none", "padding"}
  /\ auth_info' \in {"null", "chained", "final"}
  /\ UNCHANGED key_handle
  /\ mac' \in Seq(Nat) /\ tag' \in [of : Int, bytes : Seq(Nat)]
  /\ mode = "GCM" => mac' = out' /\ UNCHANGED cipher_flags
  /\ mode = "GCM" /\ op = "enc" /\ ret' = "ok" /\ overflow # <<>> =>
       tag' = [of |-> msg, bytes |-> mac']
  /\ \/ ret' = "ok" /\ overflow = <<>> /\ UNCHANGED <<out, calls>>
     \/ /\ ret' = "ok" /\ out' = out \o overflow
        /\ calls' = Append(calls, [len |-> Len(overflow), last |-> TRUE])
     \/ ret' \in {"short_buffer", "provider_error"} /\ UNCHANGED <<out, calls>>

Vtable_finalize(op, space) ==
  IF mode = "CBC"
  THEN IF op = "enc" THEN s_aes_cbc_finalize_encryption(space)
                     ELSE s_aes_cbc_finalize_decryption(space)
  ELSE IF op = "enc" THEN s_aes_gcm_finalize_encryption(space)
                     ELSE s_aes_gcm_finalize_decryption(space)

\* finalize of either vtable does what FinalEffect says: empty the overflow in one last
\* call of the provider.
LEMMA FinalStep ==
  ASSUME TypeOK, MacIsOutput, NEW op \in {"enc", "dec"}, NEW space, Vtable_finalize(op, space)
  PROVE  FinalEffect(op)
<1>1. /\ overflow' = <<>> /\ UNCHANGED key_handle
      /\ cipher_flags' \in {"none", "padding"}
      /\ auth_info' \in {"null", "chained", "final"}
      /\ overflow # <<>> => LastCall
      /\ mode = "GCM" => UNCHANGED cipher_flags
      /\ \E need : Process(op, overflow, need, space)
  <2>1. CASE mode = "CBC"
    BY <2>1 DEF Vtable_finalize, s_aes_cbc_finalize_encryption, s_aes_cbc_finalize_decryption,
                TypeOK, LastCall, s_aes_default_encrypt, s_default_aes_decrypt
  <2>2. CASE mode = "GCM"
    BY <2>2 DEF Vtable_finalize, s_aes_gcm_finalize_encryption, s_aes_gcm_finalize_decryption,
                TypeOK, LastCall, s_aes_default_encrypt, s_default_aes_decrypt
  <2> QED
    BY <2>1, <2>2 DEF TypeOK
<1>2. overflow \in Seq(Nat)
  BY DEF TypeOK
<1>3. CASE overflow = <<>>
  <2>1. ret' = "ok" /\ UNCHANGED <<out, calls, mac, tag>>
    BY <1>1, <1>3 DEF Process
  <2> QED
    BY <1>1, <1>3, <2>1 DEF FinalEffect, TypeOK, MacIsOutput
<1>4. CASE overflow # <<>>
  <2>1. LastCall = TRUE
    BY <1>1, <1>4 DEF LastCall
  <2>2. PICK need : Process(op, overflow, need, space)
    BY <1>1
  <2>3. /\ mac' \in Seq(Nat) /\ tag' \in [of : Int, bytes : Seq(Nat)]
        /\ mode = "GCM" => mac' = out'
        /\ mode = "GCM" /\ op = "enc" /\ TRUE /\ ret' = "ok" /\ overflow # <<>> =>
             tag' = [of |-> msg, bytes |-> mac']
        /\ \/ ret' = "ok" /\ overflow = <<>> /\ UNCHANGED <<out, calls>>
           \/ /\ ret' = "ok" /\ out' = out \o overflow
              /\ calls' = Append(calls, [len |-> Len(overflow), last |-> TRUE])
           \/ ret' \in {"short_buffer", "provider_error"} /\ UNCHANGED <<out, calls>>
    BY <1>2, <2>1, <2>2, ProcessEffect, Zenon
  <2> QED
    BY <1>1, <2>3 DEF FinalEffect
<1> QED
  BY <1>3, <1>4

-----------------------------------------------------------------------------
(* The invariant is preserved. *)

\* A call the front end refuses changes nothing but what it returns.
Refused == ret' \in Returns /\ UNCHANGED <<life, good, others>>

\* An update that reaches the vtable.
UpdateCall(op, k, space) ==
  /\ good /\ good' = (ret' \notin Fatal)
  /\ UNCHANGED life
  /\ Vtable_update(op, k, space)
  /\ Track(op, k, "open")

\* A finalize that reaches the vtable.
FinalCall(op, space) ==
  /\ good /\ good' = FALSE
  /\ UNCHANGED life
  /\ Vtable_finalize(op, space)
  /\ Track(op, 0, "closed")

\* The front end refuses a call or dispatches it to the vtable of the mode.
LEMMA Dispatch ==
  ASSUME NEW space,
         \/ \E k \in 0..MaxChunk : Encrypt(k, space) \/ Decrypt(k, space)
         \/ FinalizeEncryption(space)
         \/ FinalizeDecryption(space)
  PROVE  \/ Refused
         \/ \E op \in {"enc", "dec"} : FinalCall(op, space) \/ \E k \in Nat : UpdateCall(op, k, space)
<1>1. ASSUME NEW k \in 0..MaxChunk, Encrypt(k, space) \/ Decrypt(k, space)
      PROVE  Refused \/ UpdateCall("enc", k, space) \/ UpdateCall("dec", k, space)
  BY <1>1 DEF Encrypt, Decrypt, Refused, UpdateCall, Vtable_update, Returns,
              aws_symmetric_cipher_encrypt, aws_symmetric_cipher_decrypt
<1>2. ASSUME FinalizeEncryption(space) \/ FinalizeDecryption(space)
      PROVE  Refused \/ FinalCall("enc", space) \/ FinalCall("dec", space)
  BY <1>2 DEF FinalizeEncryption, FinalizeDecryption, Refused, FinalCall, Vtable_finalize,
              Returns, aws_symmetric_cipher_finalize_encryption,
              aws_symmetric_cipher_finalize_decryption
<1>3. \A k \in 0..MaxChunk : k \in Nat
  BY BoundsAssumption
<1> QED
  BY <1>1, <1>2, <1>3, Zenon

\* A refused call, or no step at all, preserves the invariant.
LEMMA RefusedKeeps ==
  ASSUME IInv, (Refused /\ UNCHANGED mode) \/ UNCHANGED vars
  PROVE  IInv'
<1>1. ret' \in Returns /\ UNCHANGED <<life, good, mode, others>>
  BY DEF IInv, TypeOK, Refused, vars
<1>2. UNCHANGED <<life, good, mode, overflow, cipher_flags, key_handle, auth_info, mac, tag,
                  out, fed, dir, stream, calls, msg>>
  BY <1>1 DEF others, impl
<1>3. TypeOK'
  BY <1>1, <1>2 DEF IInv, TypeOK
<1>4. NothingLost' /\ OpenHoldsBack'
  BY <1>2 DEF IInv, NothingLost, OpenHoldsBack
<1>5. ProviderContract' /\ GoodMeansUsable'
  BY <1>2 DEF IInv, ProviderContract, GoodMeansUsable
<1>6. GcmHoldsBack' /\ MacIsOutput' /\ TagOfMostRecentEncrypt' /\ LifeOfStream'
  BY <1>2 DEF IInv, GcmHoldsBack, MacIsOutput, TagOfMostRecentEncrypt, LifeOfStream
<1> QED
  BY <1>3, <1>4, <1>5, <1>6 DEF IInv

\* What the history variables record of a call to the vtable.
LEMMA TrackType ==
  ASSUME TypeOK, NEW k \in Nat, NEW op \in {"enc", "dec"},
         NEW done \in {"open", "closed"}, Track(op, k, done)
  PROVE  /\ fed' \in Nat /\ fed' = fed + k /\ msg' \in Nat
         /\ dir' \in {"none", "enc", "dec"}
         /\ stream' \in {done, "broken"}
         /\ stream' = done => stream = "open" /\ ret' = "ok"
  BY DEF TypeOK, Track

\* An encrypt or decrypt that reaches the vtable preserves the invariant.
LEMMA UpdateKeeps ==
  ASSUME IInv, NEW op \in {"enc", "dec"}, NEW k \in Nat, NEW space, UpdateCall(op, k, space),
         UNCHANGED mode
  PROVE  IInv'
<1>1. TypeOK /\ GoodMeansUsable /\ MacIsOutput /\ GcmHoldsBack /\ good
  BY DEF IInv, UpdateCall
<1>2. UpdateEffect(k)
  BY <1>1, UpdateStep DEF UpdateCall
<1>3. Track(op, k, "open")
  BY DEF UpdateCall
<1>4. /\ fed' \in Nat /\ fed' = fed + k /\ msg' \in Nat
      /\ dir' \in {"none", "enc", "dec"}
      /\ stream' \in {"open", "broken"}
      /\ stream' = "open" => stream = "open" /\ ret' = "ok"
  BY <1>1, <1>3, TrackType
<1>5. PICK bytes \in Seq(Nat), held \in Seq(Nat) :
        /\ bytes \o held = Buffered(k)
        /\ Len(bytes) % Block = 0
        /\ Len(overflow) + k > 0 => held # <<>>
        /\ overflow' = held
        /\ cipher_flags' \in {"none", "padding"}
        /\ UNCHANGED <<key_handle, auth_info, tag>>
        /\ mode = "GCM" => Len(held) < 2 * Block /\ UNCHANGED cipher_flags
        /\ mac' \in Seq(Nat) /\ (mode = "GCM" => mac' = out')
        /\ \/ ret' = "ok" /\ bytes = <<>> /\ UNCHANGED <<out, calls>>
           \/ /\ ret' = "ok" /\ out' = out \o bytes
              /\ calls' = Append(calls, [len |-> Len(bytes), last |-> FALSE])
           \/ ret' \in {"short_buffer", "provider_error"} /\ UNCHANGED <<out, calls>>
  BY <1>2, Zenon DEF UpdateEffect
<1> DEFINE call == [len |-> Len(bytes), last |-> FALSE]
<1>6. /\ out \in Seq(Nat) /\ overflow \in Seq(Nat) /\ fed \in Nat
      /\ calls \in Seq([len : Nat, last : BOOLEAN])
      /\ call \in [len : Nat, last : BOOLEAN]
  BY <1>1, LenProperties DEF TypeOK
<1>7. TypeOK'
  <2>1. out' \in Seq(Nat)
    <3>1. out \o bytes \in Seq(Nat)
      BY <1>6, ConcatNat, Zenon
    <3> QED
      BY <1>5, <1>6, <3>1, Zenon
  <2>2. calls' \in Seq([len : Nat, last : BOOLEAN])
    <3>1. Append(calls, call) \in Seq([len : Nat, last : BOOLEAN])
      BY <1>6, AppendLast, Zenon
    <3> QED
      BY <1>5, <1>6, <3>1, Zenon
  <2>3. life' \in Lives /\ good' \in BOOLEAN /\ ret' \in Returns
    BY <1>1, <1>5 DEF UpdateCall, TypeOK, Returns
  <2> QED
    BY <1>1, <1>4, <1>5, <2>1, <2>2, <2>3 DEF TypeOK
<1>8. NothingLost'
  <2> SUFFICES ASSUME stream' = "open"
               PROVE  out' \o overflow' = Span(0, fed')
    BY <1>4 DEF NothingLost
  <2>1. stream = "open" /\ ret' = "ok" /\ out \o overflow = Span(0, fed)
    BY <1>4 DEF IInv, NothingLost
  <2>2. out' = out \o bytes
    <3>1. out \o <<>> = out
      BY <1>6, ConcatUnit, Zenon
    <3>2. (bytes = <<>> /\ out' = out) \/ out' = out \o bytes
      BY <1>5, <2>1
    <3> QED
      BY <3>1, <3>2, Zenon
  <2>3. bytes \o held = overflow \o Span(fed, fed + k)
    BY <1>5 DEF Buffered
  <2>4. (out \o bytes) \o held = Span(0, fed + k)
    <3>1. out \o (overflow \o Span(fed, fed + k)) = Span(0, fed + k)
      BY <1>6, <2>1, Extend, ZenonT(40)
    <3>2. (out \o bytes) \o held = out \o (bytes \o held)
      BY <1>6, ConcatAssoc, Zenon
    <3> QED
      BY <2>3, <3>1, <3>2
  <2> QED
    BY <1>4, <1>5, <2>2, <2>4
<1>9. \A i \in DOMAIN calls' :
        \/ i \in DOMAIN calls /\ calls'[i] = calls[i]
        \/ calls'[i] = call
  <2> HIDE DEF call
  <2>1. \A i \in DOMAIN Append(calls, call) :
          \/ i \in DOMAIN calls /\ i <= Len(calls) /\ Append(calls, call)[i] = calls[i]
          \/ i = Len(calls) + 1 /\ Append(calls, call)[i] = call
    BY <1>6, AppendLast, Zenon
  <2>2. calls' = calls \/ calls' = Append(calls, call)
    BY <1>5 DEF call
  <2> QED
    BY <2>1, <2>2, Zenon
<1>10. \A i \in DOMAIN calls : ~calls[i].last /\ calls[i].len % Block = 0
  BY <1>1 DEF GoodMeansUsable, IInv, ProviderContract
<1>11. \A i \in DOMAIN calls' : ~calls'[i].last /\ calls'[i].len % Block = 0
  <2>1. ~call.last /\ call.len % Block = 0
    BY <1>5
  <2> QED
    BY <1>9, <1>10, <2>1, Zenon
<1>12. ProviderContract'
  BY <1>4, <1>11 DEF ProviderContract
<1>13. GoodMeansUsable'
  BY <1>1, <1>5, <1>11 DEF GoodMeansUsable, UpdateCall
<1>14. OpenHoldsBack'
  <2> SUFFICES ASSUME stream' = "open", fed' > 0
               PROVE  overflow' # <<>>
    BY DEF OpenHoldsBack
  <2>1. k > 0 \/ overflow # <<>>
    BY <1>4, <1>6 DEF IInv, OpenHoldsBack
  <2>2. Len(overflow) + k > 0
    BY <1>6, <2>1, EmptySeq, LenProperties
  <2> QED
    BY <1>5, <2>2
<1>15. GcmHoldsBack' /\ MacIsOutput'
  BY <1>1, <1>5 DEF GcmHoldsBack, MacIsOutput
<1>16. TagOfMostRecentEncrypt' /\ LifeOfStream'
  BY <1>1, <1>4 DEF TagOfMostRecentEncrypt, LifeOfStream, GoodMeansUsable, UpdateCall
<1> QED
  BY <1>7, <1>8, <1>12, <1>13, <1>14, <1>15, <1>16 DEF IInv

\* A finalize that reaches the vtable preserves the invariant.
LEMMA FinalKeeps ==
  ASSUME IInv, NEW op \in {"enc", "dec"}, NEW space, FinalCall(op, space), UNCHANGED mode
  PROVE  IInv'
<1>1. TypeOK /\ GoodMeansUsable /\ MacIsOutput /\ good
  BY DEF IInv, FinalCall
<1>2. FinalEffect(op)
  BY <1>1, FinalStep DEF FinalCall
<1>3. Track(op, 0, "closed")
  BY DEF FinalCall
<1>4. /\ fed' \in Nat /\ fed' = fed + 0 /\ msg' \in Nat
      /\ dir' \in {"none", "enc", "dec"}
      /\ stream' \in {"closed", "broken"}
      /\ stream' = "closed" => stream = "open" /\ ret' = "ok"
  BY <1>1, <1>3, TrackType
<1> DEFINE call == [len |-> Len(overflow), last |-> TRUE]
<1>5. /\ out \in Seq(Nat) /\ overflow \in Seq(Nat) /\ fed \in Nat
      /\ calls \in Seq([len : Nat, last : BOOLEAN])
      /\ call \in [len : Nat, last : BOOLEAN]
  BY <1>1, LenProperties DEF TypeOK
<1>6. /\ ret' = "ok" => \/ overflow = <<>> /\ UNCHANGED <<out, calls>>
                        \/ out' = out \o overflow /\ calls' = Append(calls, call)
      /\ ret' # "ok" => UNCHANGED <<out, calls>>
      /\ ret' \in {"ok", "short_buffer", "provider_error"}
  BY <1>2 DEF FinalEffect
<1> HIDE DEF call
<1>7. /\ out \o overflow \in Seq(Nat) /\ out \o <<>> = out
      /\ Append(calls, call) \in Seq([len : Nat, last : BOOLEAN])
      /\ Len(Append(calls, call)) = Len(calls) + 1 /\ Len(calls) \in Nat
      /\ Append(calls, call)[Len(calls) + 1] = call
      /\ \A i \in DOMAIN Append(calls, call) :
           \/ i \in DOMAIN calls /\ i <= Len(calls) /\ Append(calls, call)[i] = calls[i]
           \/ i = Len(calls) + 1 /\ Append(calls, call)[i] = call
  <2>1. out \o overflow \in Seq(Nat)
    BY <1>5, ConcatNat, Zenon
  <2>2. out \o <<>> = out
    BY <1>5, ConcatUnit, Zenon
  <2>3. /\ Append(calls, call) \in Seq([len : Nat, last : BOOLEAN])
        /\ Len(Append(calls, call)) = Len(calls) + 1 /\ Len(calls) \in Nat
        /\ Append(calls, call)[Len(calls) + 1] = call
        /\ \A i \in DOMAIN Append(calls, call) :
             \/ i \in DOMAIN calls /\ i <= Len(calls) /\ Append(calls, call)[i] = calls[i]
             \/ i = Len(calls) + 1 /\ Append(calls, call)[i] = call
    BY <1>5, AppendLast, Zenon
  <2> QED
    BY <2>1, <2>2, <2>3
<1>8. TypeOK'
  <2>1. out' \in Seq(Nat) /\ calls' \in Seq([len : Nat, last : BOOLEAN])
    BY <1>5, <1>6, <1>7, Zenon
  <2>2. life' \in Lives /\ good' \in BOOLEAN /\ ret' \in Returns
    BY <1>1, <1>6, Zenon DEF FinalCall, TypeOK, Returns
  <2>3. overflow' \in Seq(Nat)
    BY <1>2, EmptySeq DEF FinalEffect
  <2> QED
    BY <1>1, <1>2, <1>4, <2>1, <2>2, <2>3 DEF TypeOK, FinalEffect
<1>9. NothingLost'
  <2> SUFFICES ASSUME stream' = "closed"
               PROVE  out' = Span(0, fed')
    BY <1>4 DEF NothingLost
  <2>1. stream = "open" /\ ret' = "ok" /\ out \o overflow = Span(0, fed)
    BY <1>4 DEF IInv, NothingLost
  <2>2. out' = out \o overflow
    BY <1>6, <1>7, <2>1, Zenon
  <2> QED
    BY <1>4, <1>5, <2>1, <2>2
<1>10. \A i \in DOMAIN calls : ~calls[i].last /\ calls[i].len % Block = 0
  BY <1>1 DEF GoodMeansUsable, IInv, ProviderContract
<1>11. call.last
  BY DEF call
<1>12. ProviderContract'
  <2>1. ASSUME stream' = "closed", fed' > 0
        PROVE  calls' # <<>> /\ calls'[Len(calls')].last
    <3>1. stream = "open" /\ ret' = "ok" /\ overflow # <<>>
      BY <1>4, <1>5, <2>1 DEF IInv, OpenHoldsBack
    <3>2. calls' = Append(calls, call)
      BY <1>6, <3>1
    <3>3. calls'[Len(calls')] = call /\ Len(calls') # 0
      BY <1>7, <3>2
    <3>4. calls' # <<>>
      BY <3>3, EmptySeq
    <3> QED
      BY <1>11, <3>3, <3>4
  <2>2. CASE calls' = calls
    BY <1>10, <2>1, <2>2 DEF ProviderContract
  <2>3. CASE calls' = Append(calls, call)
    <3>1. \A i \in DOMAIN calls' : /\ ~calls'[i].last => calls'[i].len % Block = 0
                                   /\ calls'[i].last => i = Len(calls')
      BY <1>7, <1>10, <1>11, <2>3, Zenon
    <3> QED
      BY <2>1, <3>1 DEF ProviderContract
  <2> QED
    BY <1>6, <2>2, <2>3
<1>13. GoodMeansUsable' /\ OpenHoldsBack' /\ LifeOfStream'
  BY <1>1, <1>4 DEF GoodMeansUsable, OpenHoldsBack, LifeOfStream, FinalCall
<1>14. GcmHoldsBack' /\ MacIsOutput'
  <2>1. Len(<<>>) = 0 /\ 0 < 2 * Block
    BY BlockAssumption
  <2> QED
    BY <1>2, <2>1 DEF IInv, GcmHoldsBack, MacIsOutput, FinalEffect
<1>15. TagOfMostRecentEncrypt'
  <2> SUFFICES ASSUME mode' = "GCM", stream' = "closed", dir' = "enc", fed' > 0
               PROVE  tag' = [of |-> msg', bytes |-> Span(0, fed')]
    BY DEF TagOfMostRecentEncrypt
  <2>1. op = "enc" /\ msg' = msg /\ ret' = "ok" /\ overflow # <<>>
    BY <1>3, <1>4, <1>5 DEF Track, IInv, OpenHoldsBack
  <2>2. tag' = [of |-> msg, bytes |-> mac'] /\ mac' = out'
    BY <1>2, <2>1 DEF FinalEffect
  <2> QED
    BY <1>9, <2>1, <2>2 DEF NothingLost
<1> QED
  BY <1>8, <1>9, <1>12, <1>13, <1>14, <1>15 DEF IInv

\* A message that has just begun, or no message at all.
Fresh ==
  /\ overflow = <<>> /\ mac = <<>> /\ out = <<>> /\ calls = <<>>
  /\ fed = 0 /\ dir = "none" /\ msg \in Nat
  /\ mode \in {"CBC", "GCM"}
  /\ life \in Lives /\ good \in BOOLEAN /\ ret \in Returns
  /\ cipher_flags \in {"none", "padding"}
  /\ key_handle \in {"null", "live"}
  /\ auth_info \in {"null", "chained", "final"}
  /\ tag \in [of : Int, bytes : Seq(Nat)]
  /\ stream \in {"none", "open", "broken"}
  /\ good => /\ life = "live" /\ key_handle = "live"
             /\ auth_info = IF mode = "GCM" THEN "chained" ELSE "null"
  /\ mode = "GCM" => cipher_flags = "none"
  /\ life = "none" <=> stream = "none"

\* A cipher that has seen no byte of its message satisfies the invariant.
LEMMA FreshInv == Fresh => IInv
<1> SUFFICES ASSUME Fresh
             PROVE  IInv
  OBVIOUS
<1>1. <<>> \in Seq(Nat) /\ <<>> \in Seq([len : Nat, last : BOOLEAN]) /\ DOMAIN <<>> = {}
  BY EmptySeq
<1>2. TypeOK
  BY <1>1 DEF Fresh, TypeOK
<1>3. Span(0, 0) = <<>> /\ <<>> \o <<>> = <<>>
  BY <1>1, SpanEmpty, ConcatUnit
<1>4. NothingLost
  BY <1>3 DEF Fresh, NothingLost
<1>5. ProviderContract /\ GoodMeansUsable /\ OpenHoldsBack
  BY <1>1 DEF Fresh, ProviderContract, GoodMeansUsable, OpenHoldsBack
<1>6. Len(<<>>) = 0 /\ 0 < 2 * Block
  BY BlockAssumption
<1>7. GcmHoldsBack /\ MacIsOutput /\ TagOfMostRecentEncrypt /\ LifeOfStream
  BY <1>6 DEF Fresh, GcmHoldsBack, MacIsOutput, TagOfMostRecentEncrypt, LifeOfStream
<1> QED
  BY <1>2, <1>4, <1>5, <1>7 DEF IInv

\* The two tags a cipher can be constructed with have the type of a tag.
LEMMA TagType ==
  {NoTag, GivenTag} \subseteq [of : Int, bytes : Seq(Nat)]
  BY EmptySeq DEF NoTag, GivenTag

\* The invariant holds before any cipher is constructed.
LEMMA InitInv == Init => IInv
<1>1. NoTag \in [of : Int, bytes : Seq(Nat)]
  BY TagType
<1>2. Init => Fresh
  <2>1. 0 \in Nat
    OBVIOUS
  <2> QED
    BY <1>1, <2>1, Zenon DEF Init, Fresh, Lives, Returns
<1> QED
  BY <1>2, FreshInv

\* The key import and its two failures.
LEMMA MaterialsType ==
  ASSUME TypeOK, GcmHoldsBack, s_initialize_cipher_materials
  PROVE  /\ ret' \in {"ok", "provider_error"}
         /\ mode = "GCM" => cipher_flags' = "none"
         /\ cipher_flags' \in {"none", "padding"}
         /\ key_handle' \in {"null", "live"}
         /\ auth_info' \in {"null", "chained", "final"}
         /\ ret' = "ok" => /\ key_handle' = "live"
                           /\ auth_info' = IF mode = "GCM" THEN "chained" ELSE "null"
  BY DEF TypeOK, GcmHoldsBack, s_initialize_cipher_materials

\* Construction preserves the invariant, when it fails too.
LEMMA NewKeeps ==
  ASSUME IInv, aws_aes_cbc_256_new_impl \/ aws_aes_gcm_256_new_impl, UNCHANGED mode
  PROVE  IInv'
<1>1. TypeOK /\ GcmHoldsBack /\ msg \in Nat /\ mode' = mode /\ mode \in {"CBC", "GCM"}
  BY DEF IInv, TypeOK
<1>2. tag' \in [of : Int, bytes : Seq(Nat)]
  BY TagType DEF aws_aes_cbc_256_new_impl, aws_aes_gcm_256_new_impl, Nothing
<1>3. CASE s_initialize_cipher_materials /\ NewMessage
  <2>1. /\ cipher_flags' \in {"none", "padding"}
        /\ mode = "GCM" => cipher_flags' = "none"
        /\ key_handle' \in {"null", "live"}
        /\ auth_info' \in {"null", "chained", "final"}
        /\ ret' = "ok" => /\ key_handle' = "live"
                          /\ auth_info' = IF mode = "GCM" THEN "chained" ELSE "null"
    BY <1>1, <1>3, MaterialsType
  <2>2. CASE life' = "live" /\ ret' = "ok" /\ overflow' = <<>> /\ mac' = <<>> /\ good' = TRUE
    <3>1. Fresh'
      BY <1>1, <1>2, <1>3, <2>1, <2>2 DEF Fresh, NewMessage, Lives, Returns
    <3> QED
      BY <3>1, FreshInv, PTL
  <2>3. CASE /\ Nothing /\ ret' = "null"
             /\ <<life', stream'>> \in {<<"none", "none">>, <<"crashed", "broken">>}
    <3>1. Fresh'
      BY <1>1, <1>2, <2>3, Zenon DEF Fresh, Nothing, Lives, Returns
    <3> QED
      BY <3>1, FreshInv, PTL
  <2> QED
    BY <2>2, <2>3, Zenon DEF aws_aes_cbc_256_new_impl, aws_aes_gcm_256_new_impl
<1>4. CASE ~(s_initialize_cipher_materials /\ NewMessage)
  <2>1. /\ Nothing /\ ret' = "null"
        /\ <<life', stream'>> \in {<<"none", "none">>, <<"crashed", "broken">>}
    BY <1>4 DEF aws_aes_cbc_256_new_impl, aws_aes_gcm_256_new_impl
  <2>2. Fresh'
    BY <1>1, <1>2, <2>1, Zenon DEF Fresh, Nothing, Lives, Returns
  <2> QED
    BY <2>2, FreshInv, PTL
<1> QED
  BY <1>3, <1>4

\* reset preserves the invariant, when it fails too.
LEMMA ResetKeeps ==
  ASSUME IInv, Reset, UNCHANGED mode
  PROVE  IInv'
<1>1. /\ TypeOK /\ GcmHoldsBack /\ msg \in Nat /\ life = "live" /\ tag' = tag
      /\ mode' = mode /\ mode \in {"CBC", "GCM"}
  BY DEF IInv, TypeOK, Reset, aws_symmetric_cipher_reset, s_reset_cbc_cipher, s_reset_gcm_cipher
<1>2. /\ s_initialize_cipher_materials /\ s_clear_reusable_components /\ NewMessage
      /\ good' = (IF ret' = "ok" THEN TRUE ELSE FALSE) /\ life' = life
  BY DEF Reset, aws_symmetric_cipher_reset, s_reset_cbc_cipher, s_reset_gcm_cipher
<1>3. /\ ret' \in {"ok", "provider_error"}
      /\ cipher_flags' \in {"none", "padding"}
      /\ mode = "GCM" => cipher_flags' = "none"
      /\ key_handle' \in {"null", "live"}
      /\ auth_info' \in {"null", "chained", "final"}
      /\ ret' = "ok" => /\ key_handle' = "live"
                        /\ auth_info' = IF mode = "GCM" THEN "chained" ELSE "null"
  BY <1>1, <1>2, MaterialsType
<1>4. Fresh'
  BY <1>1, <1>2, <1>3 DEF Fresh, NewMessage, s_clear_reusable_components, Lives, Returns, TypeOK
<1> QED
  BY <1>4, FreshInv, PTL

\* Destruction preserves the invariant.
LEMMA DestroyKeeps ==
  ASSUME IInv, s_aes_default_destroy, UNCHANGED mode
  PROVE  IInv'
<1>1. tag' \in [of : Int, bytes : Seq(Nat)] /\ mode' \in {"CBC", "GCM"}
  BY TagType DEF s_aes_default_destroy, Nothing, IInv, TypeOK
<1>2. Fresh'
  BY <1>1, Zenon DEF s_aes_default_destroy, Fresh, Nothing, Lives, Returns
<1> QED
  BY <1>2, FreshInv, PTL

-----------------------------------------------------------------------------
(* The theorems. *)

\* Every step of the back end, whatever CNG answers and whatever room the caller
\* offers, preserves the invariant.
LEMMA NextKeeps ==
  ASSUME IInv, [Next]_vars
  PROVE  IInv'
<1>1. ASSUME NEW space \in Spaces, UNCHANGED mode,
             \/ \E k \in 0..MaxChunk : Encrypt(k, space) \/ Decrypt(k, space)
             \/ FinalizeEncryption(space)
             \/ FinalizeDecryption(space)
      PROVE  IInv'
  <2>1. \/ Refused
        \/ \E op \in {"enc", "dec"} : FinalCall(op, space) \/ \E k \in Nat : UpdateCall(op, k, space)
    BY <1>1, Dispatch, Zenon
  <2> QED
    BY <1>1, <2>1, RefusedKeeps, UpdateKeeps, FinalKeeps
<1>2. CASE (aws_aes_cbc_256_new_impl \/ aws_aes_gcm_256_new_impl) /\ UNCHANGED mode
  BY <1>2, NewKeeps
<1>3. CASE Reset /\ UNCHANGED mode
  BY <1>3, ResetKeeps
<1>4. CASE s_aes_default_destroy /\ UNCHANGED mode
  BY <1>4, DestroyKeeps
<1>5. CASE UNCHANGED vars
  BY <1>5, RefusedKeeps
<1> QED
  BY <1>1, <1>2, <1>3, <1>4, <1>5 DEF Next

\* The invariant holds in every reachable state.
THEOREM Inductive == Spec => []IInv
<1>1. Init => IInv
  BY InitInv
<1>2. IInv /\ [Next]_vars => IInv'
  BY NextKeeps
<1> QED
  BY <1>1, <1>2, PTL DEF Spec

\* The state always has its type.
THEOREM TypeCorrect == Spec => []TypeOK
<1>1. IInv => TypeOK
  BY DEF IInv
<1> QED
  BY <1>1, Inductive, PTL

\* CBC and GCM hand CNG exactly the bytes of the message, in order, none lost and
\* none twice, for every block size and every way a message is cut in pieces.
THEOREM StreamIntact == Spec => []NothingLost
<1>1. IInv => NothingLost
  BY DEF IInv
<1> QED
  BY <1>1, Inductive, PTL

\* CNG gets whole blocks until the one last call, and a finished message that is
\* not empty has had that call.
THEOREM ProviderContractKept == Spec => []ProviderContract
<1>1. IInv => ProviderContract
  BY DEF IInv
<1> QED
  BY <1>1, Inductive, PTL

\* A cipher that says it is good has what the next call dereferences.
THEOREM GoodIsUsable == Spec => []GoodMeansUsable
<1>1. IInv => GoodMeansUsable
  BY DEF IInv
<1> QED
  BY <1>1, Inductive, PTL

\* After an encryption that was finished and not empty, the tag is the one of that
\* message, computed over all of it, however often the cipher was reset before.
THEOREM TagIsCurrent == Spec => []TagOfMostRecentEncrypt
<1>1. IInv => TagOfMostRecentEncrypt
  BY DEF IInv
<1> QED
  BY <1>1, Inductive, PTL

-----------------------------------------------------------------------------
(* Room. *)

\* Of n bytes GCM releases none, or leaves at least a block.
LEMMA GcmReleases ==
  ASSUME NEW n \in Nat, n - s_gcm_overflow(n) # 0
  PROVE  n - s_gcm_overflow(n) <= n - Block
<1>1. Block \in Nat \ {0} /\ n % Block \in 0..(Block - 1)
  BY BlockAssumption, ModRange
<1> QED
  BY <1>1 DEF s_gcm_overflow

\* An update in GCM mode that is refused for lack of room had less than the header
\* asks for: a block more than the input.
LEMMA GcmUpdateRoom ==
  ASSUME IInv, mode = "GCM", NEW k \in Nat, NEW space \in Nat, ret' = "short_buffer",
         s_aes_gcm_encrypt(k, space) \/ s_aes_gcm_decrypt(k, space)
  PROVE  space < k + Block
<1> DEFINE n == Len(overflow) + k
           keep == IF k = 0 THEN Len(overflow) ELSE s_gcm_overflow(n)
           bytes == Released(Buffered(k), keep)
<1>1. /\ TypeOK /\ Len(overflow) < 2 * Block /\ cipher_flags = "none"
      /\ overflow \in Seq(Nat) /\ Len(overflow) \in Nat /\ n \in Nat
      /\ Block \in Nat \ {0}
  BY BlockAssumption, LenProperties DEF IInv, TypeOK, GcmHoldsBack
<1>2. Buffered(k) \in Seq(Nat) /\ Len(Buffered(k)) = n
  BY <1>1, BufferedType, Zenon
<1>3. keep \in 0..n
  <2>1. s_gcm_overflow(n) \in 0..n
    BY <1>1, GcmKeeps, Zenon
  <2> QED
    BY <1>1, <2>1
<1>4. bytes \in Seq(Nat) /\ Len(bytes) = n - keep
  <2> HIDE DEF n, keep
  <2> QED
    BY <1>2, <1>3, Cut, Zenon
<1>5. bytes # <<>> /\ ~(Len(bytes) <= space)
  <2>1. cipher_flags' = "none"
    BY <1>1 DEF s_aes_gcm_encrypt, s_aes_gcm_decrypt
  <2>2. \E op : Process(op, bytes, Len(bytes), space)
    BY <2>1 DEF s_aes_gcm_encrypt, s_aes_gcm_decrypt, s_aes_default_encrypt,
                s_default_aes_decrypt, predicted_write_length
  <2> HIDE DEF bytes
  <2> QED
    BY <2>2 DEF Process, BCryptCall, aws_symmetric_cipher_try_ensure_sufficient_buffer_space
<1>6. Len(bytes) # 0
  BY <1>4, <1>5, EmptySeq
<1> HIDE DEF bytes
<1>7. k # 0 /\ keep = s_gcm_overflow(n)
  BY <1>1, <1>4, <1>6
<1>8. n - keep <= n - Block
  BY <1>1, <1>4, <1>6, <1>7, GcmReleases
<1> HIDE DEF keep
<1> QED
  BY <1>1, <1>3, <1>4, <1>5, <1>8

\* So is a finalize, which needs at most the two blocks the header asks for.
LEMMA GcmFinalRoom ==
  ASSUME IInv, mode = "GCM", NEW space \in Nat, ret' = "short_buffer",
         s_aes_gcm_finalize_encryption(space) \/ s_aes_gcm_finalize_decryption(space)
  PROVE  space < 2 * Block
<1>1. /\ Len(overflow) < 2 * Block /\ cipher_flags = "none" /\ Len(overflow) \in Nat
      /\ Block \in Nat \ {0}
  BY BlockAssumption, LenProperties DEF IInv, TypeOK, GcmHoldsBack
<1>2. cipher_flags' = "none"
  BY <1>1 DEF s_aes_gcm_finalize_encryption, s_aes_gcm_finalize_decryption
<1>3. \E op : Process(op, overflow, Len(overflow), space)
  BY <1>2 DEF s_aes_gcm_finalize_encryption, s_aes_gcm_finalize_decryption,
              s_aes_default_encrypt, s_default_aes_decrypt, predicted_write_length
<1>4. ~(Len(overflow) <= space)
  BY <1>3 DEF Process, BCryptCall, aws_symmetric_cipher_try_ensure_sufficient_buffer_space
<1> QED
  BY <1>1, <1>4

\* The room the header asks for is enough in GCM mode, for every block size and every
\* length of input, although almost two blocks may wait in the overflow.
THEOREM RoomInGcm == Spec => DocumentedRoomInGcm
<1>1. ASSUME IInv, mode = "GCM", ret' = "short_buffer", NEW space \in Spaces
      PROVE  /\ \A k \in 0..MaxChunk : Encrypt(k, space) \/ Decrypt(k, space) => space < k + Block
             /\ FinalizeEncryption(space) \/ FinalizeDecryption(space) => space < 2 * Block
  <2>1. space \in Nat
    BY BoundsAssumption
  <2>2. ASSUME NEW k \in 0..MaxChunk, Encrypt(k, space) \/ Decrypt(k, space)
        PROVE  space < k + Block
    <3>1. k \in Nat
      BY BoundsAssumption
    <3>2. s_aes_gcm_encrypt(k, space) \/ s_aes_gcm_decrypt(k, space)
      BY <1>1, <2>2 DEF Encrypt, Decrypt, aws_symmetric_cipher_encrypt,
                        aws_symmetric_cipher_decrypt
    <3> QED
      BY <1>1, <2>1, <3>1, <3>2, GcmUpdateRoom
  <2>3. ASSUME FinalizeEncryption(space) \/ FinalizeDecryption(space)
        PROVE  space < 2 * Block
    <3>1. s_aes_gcm_finalize_encryption(space) \/ s_aes_gcm_finalize_decryption(space)
      BY <1>1, <2>3 DEF FinalizeEncryption, FinalizeDecryption,
                        aws_symmetric_cipher_finalize_encryption,
                        aws_symmetric_cipher_finalize_decryption
    <3> QED
      BY <1>1, <2>1, <3>1, GcmFinalRoom
  <2> QED
    BY <2>2, <2>3
<1>2. IInv => [mode = "GCM" => RoomAsDocumented]_vars
  BY <1>1 DEF RoomAsDocumented
<1> QED
  BY <1>2, Inductive, PTL DEF DocumentedRoomInGcm

-----------------------------------------------------------------------------
(* The back end implements CipherStream, step by step. *)

\* An encrypt or decrypt that reaches the vtable is an update of the stream, or breaks
\* it.
LEMMA UpdateRefines ==
  ASSUME IInv, IInv', NEW op \in {"enc", "dec"}, NEW k \in Nat, NEW space,
         UpdateCall(op, k, space)
  PROVE  Stream!Next
<1>1. /\ TypeOK /\ GoodMeansUsable /\ MacIsOutput /\ GcmHoldsBack /\ good
      /\ stream # "none" /\ Track(op, k, "open")
  BY DEF IInv, UpdateCall, GoodMeansUsable, LifeOfStream
<1>2. /\ fed' \in Nat /\ fed' = fed + k /\ stream' \in {"open", "broken"}
      /\ stream' = "open" => stream = "open" /\ ret' = "ok"
  BY <1>1, TrackType
<1>3. CASE stream' = "broken"
  BY <1>1, <1>3 DEF Stream!Next, Stream!Break
<1>4. CASE stream' = "open"
  <2>1. /\ out \in Seq(Nat) /\ out' \in Seq(Nat) /\ overflow' \in Seq(Nat) /\ fed \in Nat
        /\ out' \o overflow' = Span(0, fed')
    BY <1>4, SMTT(30) DEF IInv, TypeOK, NothingLost
  <2>2. Len(out') \in 0..fed' /\ out' = Span(0, Len(out'))
    BY <1>2, <2>1, PrefixOfSpan, Zenon
  <2>3. out' = [i \in 1..Len(out') |-> i]
    <3>1. Len(out') \in Nat
      BY <2>1, LenProperties
    <3>2. Span(0, Len(out')) = [i \in 1..Len(out') |-> i]
      BY <3>1, MessageType, Zenon
    <3> QED
      BY <2>2, <3>2
  <2>4. Len(out) <= Len(out')
    <3>1. UpdateEffect(k)
      BY <1>1, UpdateStep DEF UpdateCall
    <3>2. PICK bytes \in Seq(Nat) : out' = out \/ out' = out \o bytes
      BY <3>1, Zenon DEF UpdateEffect
    <3>3. Len(out \o bytes) = Len(out) + Len(bytes) /\ Len(out) \in Nat /\ Len(bytes) \in Nat
      BY <2>1, ConcatProperties, LenProperties
    <3> QED
      BY <3>2, <3>3
  <2>5. Len(out') \in Len(out)..fed' /\ fed' >= fed
    <3>1. Len(out) \in Nat
      BY <2>1, LenProperties
    <3> QED
      BY <1>2, <2>1, <2>2, <2>4, <3>1
  <2> QED
    BY <1>2, <1>4, <2>3, <2>5 DEF Stream!Next, Stream!Update, Stream!Prefix
<1> QED
  BY <1>2, <1>3, <1>4

\* A finalize that reaches the vtable completes the stream, or breaks it.
LEMMA FinalRefines ==
  ASSUME IInv, IInv', NEW op \in {"enc", "dec"}, NEW space, FinalCall(op, space)
  PROVE  Stream!Next
<1>1. TypeOK /\ stream # "none" /\ Track(op, 0, "closed") /\ fed \in Nat
  BY DEF IInv, FinalCall, GoodMeansUsable, LifeOfStream, TypeOK
<1>2. /\ fed' = fed + 0 /\ stream' \in {"closed", "broken"}
      /\ stream' = "closed" => stream = "open" /\ ret' = "ok"
  BY <1>1, TrackType
<1>3. CASE stream' = "broken"
  BY <1>1, <1>3 DEF Stream!Next, Stream!Break
<1>4. CASE stream' = "closed"
  <2>1. out' = Span(0, fed') /\ fed' = fed
    BY <1>1, <1>2, <1>4 DEF IInv, NothingLost
  <2>2. Span(0, fed) = [i \in 1..fed |-> i]
    BY <1>1, MessageType, Zenon
  <2> QED
    BY <1>2, <1>4, <2>1, <2>2 DEF Stream!Next, Stream!Finalize, Stream!Prefix
<1> QED
  BY <1>2, <1>3, <1>4

\* Every step of the back end is a step of the stream, or leaves it as it is.
LEMMA NextRefines ==
  ASSUME IInv, IInv', [Next]_vars
  PROVE  [Stream!Next]_(Stream!streamVars)
<1>1. ASSUME NEW space \in Spaces,
             \/ \E k \in 0..MaxChunk : Encrypt(k, space) \/ Decrypt(k, space)
             \/ FinalizeEncryption(space)
             \/ FinalizeDecryption(space)
      PROVE  [Stream!Next]_(Stream!streamVars)
  <2>1. \/ Refused
        \/ \E op \in {"enc", "dec"} : FinalCall(op, space) \/ \E k \in Nat : UpdateCall(op, k, space)
    BY <1>1, Dispatch, Zenon
  <2>2. CASE Refused
    BY <2>2 DEF Refused, others, Stream!streamVars
  <2>3. CASE \E op \in {"enc", "dec"} : FinalCall(op, space) \/ \E k \in Nat : UpdateCall(op, k, space)
    BY <2>3, UpdateRefines, FinalRefines
  <2> QED
    BY <2>1, <2>2, <2>3
<1>2. CASE aws_aes_cbc_256_new_impl \/ aws_aes_gcm_256_new_impl
  <2>1. stream = "none" /\ fed = 0 /\ out = <<>>
    BY <1>2 DEF IInv, LifeOfStream, aws_aes_cbc_256_new_impl, aws_aes_gcm_256_new_impl
  <2>2. fed' = 0 /\ out' = <<>> /\ stream' \in {"none", "open", "broken"}
    BY <1>2 DEF aws_aes_cbc_256_new_impl, aws_aes_gcm_256_new_impl, NewMessage, Nothing
  <2> QED
    BY <2>1, <2>2 DEF Stream!Next, Stream!Create, Stream!streamVars
<1>3. CASE Reset
  <2>1. stream # "none"
    BY <1>3 DEF IInv, LifeOfStream, Reset, aws_symmetric_cipher_reset
  <2>2. fed' = 0 /\ out' = <<>> /\ stream' \in {"open", "broken"}
    BY <1>3 DEF Reset, aws_symmetric_cipher_reset, NewMessage
  <2> QED
    BY <2>1, <2>2 DEF Stream!Next, Stream!Reset, Stream!Break
<1>4. CASE s_aes_default_destroy
  BY <1>4 DEF IInv, LifeOfStream, s_aes_default_destroy, Nothing, Stream!Next, Stream!Destroy
<1>5. CASE UNCHANGED vars
  BY <1>5 DEF vars, others, Stream!streamVars
<1> QED
  BY <1>1, <1>2, <1>3, <1>4, <1>5 DEF Next

\* AES-CBC and AES-GCM over CNG implement the stream the header promises, for every
\* block size and every way a message is cut in pieces.
THEOREM StreamRefined == Spec => ImplementsStream
<1>1. Init => Stream!Init
  BY DEF Init, Stream!Init
<1>2. IInv /\ IInv' /\ [Next]_vars => [Stream!Next]_(Stream!streamVars)
  BY NextRefines
<1> QED
  BY <1>1, <1>2, Inductive, PTL DEF Spec, ImplementsStream, Stream!Spec
=============================================================================
