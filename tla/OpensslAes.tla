----------------------------- MODULE OpensslAes -----------------------------
(***************************************************************************)
(* AES-CBC, AES-CTR and AES-GCM over libcrypto, source/unix/openssl_aes.c, *)
(* behind the front end of SymmetricCipher.                                *)
(*                                                                         *)
(* Unlike the Windows back end this one buffers nothing itself: each       *)
(* direction has an EVP context of its own, and the code makes sure that   *)
(* the caller's buffer can take what the context may write before it hands *)
(* the context any bytes.  The contexts are external; a context keeps the  *)
(* incomplete block (when it decrypts with padding, also a complete last   *)
(* one) and, in GCM mode, knows which message it has authenticated.        *)
(*                                                                         *)
(* fed, dir, stream, msg, ended and overrun are history variables.         *)
(***************************************************************************)
EXTENDS SymmetricCipher

CONSTANTS MaxChunk, MaxFed, MaxMsg, Spaces

ASSUME OpensslAssumption ==
  /\ MaxChunk \in Nat /\ MaxFed \in Nat \ {0} /\ MaxMsg \in Nat \ {0}
  /\ Spaces \subseteq Nat

VARIABLES
  mode,       \* which of the three vtables the cipher has, for good
  enc, dec,   \* encryptor_ctx and decryptor_ctx
  tag,        \* cipher->tag: the message it authenticates; NoTag when tag.len is 0
  out,        \* the bytes whose result is in the caller's buffers
  fed,        \* length of the message so far
  dir,        \* its direction: "none", "enc" or "dec"
  stream,     \* "none", "open", "closed" or "broken"
  msg,        \* its number, from 1
  ended,      \* the encrypted messages, in the order of their finalize calls
  overrun     \* libcrypto has written past the room of the caller's buffer

others == <<enc, dec, tag, out, fed, dir, stream, msg, ended, overrun>>
vars == <<life, good, ret, mode, others>>

\* A message: its number and its length.  Number -1 is the one the caller already
\* had the tag of, decryption_tag.
Message == [of : -1..MaxMsg, len : 0..MaxFed]
NoTag == [of |-> 0, len |-> 0]
Given == [of |-> -1, len |-> 1]

Context == [ready : BOOLEAN, held : Seq(Nat), has : Message, tag : Message]
Blank == [ready |-> FALSE, held |-> <<>>, has |-> NoTag, tag |-> NoTag]

TypeOK ==
  /\ life \in Lives /\ good \in BOOLEAN /\ ret \in Returns
  /\ mode \in {"CBC", "CTR", "GCM"}
  /\ enc \in Context /\ dec \in Context
  /\ tag \in Message
  /\ out \in Seq(Nat) /\ fed \in 0..MaxFed /\ msg \in 0..MaxMsg
  /\ dir \in {"none", "enc", "dec"}
  /\ stream \in {"none", "open", "closed", "broken"}
  /\ ended \in Seq(Message)
  /\ overrun \in BOOLEAN

Init ==
  /\ mode \in {"CBC", "CTR", "GCM"}
  /\ life = "none" /\ good = FALSE /\ ret = "ok"
  /\ enc = Blank /\ dec = Blank /\ tag = NoTag
  /\ out = <<>> /\ fed = 0 /\ dir = "none" /\ stream = "none"
  /\ msg = 0 /\ ended = <<>> /\ overrun = FALSE

-----------------------------------------------------------------------------
(* libcrypto. *)

\* How many of n buffered bytes a context keeps.
EVPKeeps(op, n) ==
  CASE mode # "CBC" -> 0
    [] mode = "CBC" /\ op = "enc" -> n % Block
    [] OTHER -> IF n > 0 /\ n % Block = 0 THEN Block ELSE n % Block

\* An update writes what is complete; space is the room that is really there.
EVPUpdate(op, ctx, k, of, space) ==
  LET bytes == ctx.held \o Span(fed, fed + k)
      n == Len(bytes) - EVPKeeps(op, Len(bytes))
  IN /\ ctx.ready
     /\ ret' = "ok"
     /\ out' = out \o SubSeq(bytes, 1, n)
     /\ overrun' = (overrun \/ n > space)
     /\ LET new == [ctx EXCEPT !.held = SubSeq(bytes, n + 1, Len(bytes)),
                               !.has = [of |-> of, len |-> ctx.has.len + k]]
        IN IF op = "enc" THEN enc' = new /\ UNCHANGED dec
                         ELSE dec' = new /\ UNCHANGED enc

\* With padding the last block is complete when encrypting, and must be when
\* decrypting; in GCM mode the decryptor compares the tag.
EVPFinal(op, ctx, space, result) ==
  /\ ctx.ready
  /\ op = "dec" => CASE mode = "GCM" -> ctx.tag = ctx.has
                     [] mode = "CBC" -> Len(ctx.held) = Block
                     [] OTHER -> TRUE
  /\ ret' = result
  /\ out' = out \o ctx.held
  /\ overrun' = (overrun \/ (mode = "CBC" /\ Block > space))

EVPFails == ret' = "provider_error" /\ UNCHANGED <<out, overrun>>

-----------------------------------------------------------------------------
(* The vtable. *)

\* Mutants, here and below, are wrong on purpose: each breaks a property.
s_encrypt_unchecked(k, space) ==
  \/ EVPUpdate("enc", enc, k, msg, space)
  \/ EVPFails /\ UNCHANGED <<enc, dec>>
s_encrypt_swallows_error(k, space) ==
  LET room == aws_symmetric_cipher_try_ensure_sufficient_buffer_space(space, k + Block) IN
  \/ ~room /\ ret' = "ok" /\ UNCHANGED <<enc, dec, out, overrun>>
  \/ room /\ EVPUpdate("enc", enc, k, msg, space)
  \/ room /\ EVPFails /\ UNCHANGED <<enc, dec>>

s_encrypt(k, space) ==
  LET room == aws_symmetric_cipher_try_ensure_sufficient_buffer_space(space, k + Block) IN
  \/ ~room /\ ret' = "short_buffer" /\ UNCHANGED <<enc, dec, out, overrun>>
  \/ room /\ EVPUpdate("enc", enc, k, msg, space)
  \/ room /\ EVPFails /\ UNCHANGED <<enc, dec>>

s_decrypt(k, of, space) ==
  LET room == aws_symmetric_cipher_try_ensure_sufficient_buffer_space(space, k + Block) IN
  \/ ~room /\ ret' = "short_buffer" /\ UNCHANGED <<enc, dec, out, overrun>>
  \/ room /\ EVPUpdate("dec", dec, k, of, space)
  \/ room /\ EVPFails /\ UNCHANGED <<enc, dec>>

s_finalize_encryption(space) ==
  LET room == aws_symmetric_cipher_try_ensure_sufficient_buffer_space(space, Block) IN
  \/ ~room /\ ret' = "short_buffer" /\ UNCHANGED <<out, overrun>>
  \/ room /\ EVPFinal("enc", enc, space, "ok")
  \/ room /\ EVPFails

\* The tag is fetched only into an empty buffer, and fetching it may fail.
s_finalize_gcm_encryption(space) ==
  \/ /\ s_finalize_encryption(space)
     /\ tag' = IF ret' = "ok" /\ tag = NoTag THEN [of |-> msg, len |-> enc.has.len] ELSE tag
  \/ /\ aws_symmetric_cipher_try_ensure_sufficient_buffer_space(space, Block)
     /\ tag = NoTag
     /\ EVPFinal("enc", enc, space, "provider_error")
     /\ UNCHANGED tag

s_finalize_decryption(space) ==
  LET room == aws_symmetric_cipher_try_ensure_sufficient_buffer_space(space, Block) IN
  \/ ~room /\ ret' = "short_buffer" /\ UNCHANGED <<out, overrun>>
  \/ room /\ EVPFinal("dec", dec, space, "ok")
  \/ room /\ EVPFails

\* The good flag goes up before the contexts are initialized again.
s_clear_reusable_state == [enc |-> Blank, dec |-> Blank, good |-> TRUE]

InitContexts_ignores_decryptor(ctx, t) ==
  /\ ret' = "ok"
  /\ enc' = [ctx.enc EXCEPT !.ready = TRUE]
  /\ dec' \in {ctx.dec, [ctx.dec EXCEPT !.ready = TRUE, !.tag = t]}

\* The encryptor is initialized first; either may fail.
InitContexts(ctx, t) ==
  \/ ret' = "provider_error" /\ enc' = ctx.enc /\ dec' = ctx.dec
  \/ ret' = "provider_error" /\ enc' = [ctx.enc EXCEPT !.ready = TRUE] /\ dec' = ctx.dec
  \/ /\ ret' = "ok"
     /\ enc' = [ctx.enc EXCEPT !.ready = TRUE]
     /\ dec' = [ctx.dec EXCEPT !.ready = TRUE, !.tag = t]

s_init_cbc_cipher_materials(ctx) == InitContexts(ctx, NoTag)
s_init_ctr_cipher_materials(ctx) == InitContexts(ctx, NoTag)
s_init_gcm_cipher_materials_without_tag(ctx, t) == InitContexts(ctx, NoTag)
\* The additional data or the tag may also be refused once both contexts are set up.
s_init_gcm_cipher_materials(ctx, t) ==
  \/ InitContexts(ctx, t)
  \/ /\ ret' = "provider_error"
     /\ enc' = [ctx.enc EXCEPT !.ready = TRUE]
     /\ dec' = [ctx.dec EXCEPT !.ready = TRUE]

s_reset_cbc_cipher_materials ==
  mode = "CBC" /\ s_init_cbc_cipher_materials(s_clear_reusable_state)
s_reset_ctr_cipher_materials ==
  mode = "CTR" /\ s_init_ctr_cipher_materials(s_clear_reusable_state)
s_reset_gcm_cipher_materials ==
  mode = "GCM" /\ s_init_gcm_cipher_materials(s_clear_reusable_state, tag)

-----------------------------------------------------------------------------
(* Construction and destruction. *)

NewMessage ==
  /\ out' = <<>> /\ fed' = 0 /\ dir' = "none" /\ msg' = msg + 1
  /\ stream' = IF ret' = "ok" THEN "open" ELSE "broken"
  /\ UNCHANGED overrun

s_destroy ==
  /\ life' = "none" /\ good' = FALSE
  /\ enc' = Blank /\ dec' = Blank /\ tag' = NoTag
  /\ out' = <<>> /\ fed' = 0 /\ dir' = "none" /\ stream' = "none"
  /\ msg' = 0 /\ ended' = <<>> /\ UNCHANGED overrun

New(InitMaterials) ==
  /\ life = "none"
  /\ \/ /\ InitMaterials /\ ret' = "ok"
        /\ life' = "live" /\ good' = TRUE
        /\ NewMessage /\ UNCHANGED ended
     \/ ret' = "null" /\ s_destroy

aws_aes_cbc_256_new_impl ==
  /\ mode = "CBC"
  /\ New(s_init_cbc_cipher_materials([enc |-> Blank, dec |-> Blank]) /\ UNCHANGED tag)
aws_aes_ctr_256_new_impl ==
  /\ mode = "CTR"
  /\ New(s_init_ctr_cipher_materials([enc |-> Blank, dec |-> Blank]) /\ UNCHANGED tag)
aws_aes_gcm_256_new_impl ==
  /\ mode = "GCM"
  /\ \E t \in {NoTag, Given} :
       New(s_init_gcm_cipher_materials([enc |-> Blank, dec |-> Blank], t) /\ tag' = t)

Destroy == life = "live" /\ ret' = "ok" /\ s_destroy

-----------------------------------------------------------------------------
(* The calls of the API. *)

\* An update that lacks room leaves the message as it was.
TrackUpdate(op, k) ==
  /\ fed' = IF ret' = "short_buffer" THEN fed ELSE fed + k
  /\ dir' = IF ret' = "short_buffer" \/ k = 0 THEN dir ELSE op
  /\ stream' = IF ret' \in {"ok", "short_buffer"} /\ dir \in {"none", dir'} THEN stream
               ELSE "broken"
  /\ UNCHANGED <<tag, msg, ended>>

TrackFinalize(op) ==
  /\ dir' = op
  /\ stream' = IF stream = "open" /\ ret' = "ok" /\ dir \in {"none", op} THEN "closed"
               ELSE "broken"
  /\ ended' = IF op = "enc" /\ ret' = "ok"
              THEN Append(ended, [of |-> msg, len |-> enc.has.len]) ELSE ended
  /\ UNCHANGED <<enc, dec, fed, msg>>

Encrypt(k, space) ==
  /\ fed + k <= MaxFed
  /\ aws_symmetric_cipher_encrypt(k, s_encrypt(k, space) /\ TrackUpdate("enc", k), others)

\* The caller decrypts one message at a time: an earlier one, or the given one.
Decrypt(k, of, space) ==
  /\ fed + k <= MaxFed
  /\ dec.has \in {NoTag, [of |-> of, len |-> dec.has.len]}
  /\ aws_symmetric_cipher_decrypt(k, s_decrypt(k, of, space) /\ TrackUpdate("dec", k), others)

FinalizeEncryption(space) ==
  aws_symmetric_cipher_finalize_encryption(
    /\ IF mode = "GCM" THEN s_finalize_gcm_encryption(space)
                       ELSE s_finalize_encryption(space) /\ UNCHANGED tag
    /\ TrackFinalize("enc"), others)

FinalizeDecryption(space) ==
  aws_symmetric_cipher_finalize_decryption(
    s_finalize_decryption(space) /\ TrackFinalize("dec") /\ UNCHANGED tag, others)

Reset ==
  /\ msg < MaxMsg
  /\ aws_symmetric_cipher_reset(
       /\ \/ s_reset_cbc_cipher_materials
          \/ s_reset_ctr_cipher_materials
          \/ s_reset_gcm_cipher_materials
       /\ NewMessage
       /\ UNCHANGED <<tag, ended>>, s_clear_reusable_state.good)

Next ==
  /\ UNCHANGED mode
  /\ \/ aws_aes_cbc_256_new_impl
     \/ aws_aes_ctr_256_new_impl
     \/ aws_aes_gcm_256_new_impl
     \/ \E space \in Spaces :
          \/ \E k \in 0..MaxChunk :
               \/ Encrypt(k, space)
               \/ \E of \in {-1} \cup 1..msg : Decrypt(k, of, space)
          \/ FinalizeEncryption(space)
          \/ FinalizeDecryption(space)
     \/ Reset
     \/ Destroy

Spec == Init /\ [][Next]_vars

-----------------------------------------------------------------------------
(* Properties. *)

\* The room the code asks for before each call is enough for what libcrypto writes:
\* the padding block of an empty message and the block held back from an earlier
\* decrypt included.
NoOverrun == ~overrun

\* A message can only be open on a good cipher with both contexts set up: one that a
\* reset left half set up is never taken for usable by a caller who saw the error.  (And
\* the state has its type.)
OpenMeansReady == TypeOK /\ (stream = "open" => good /\ enc.ready /\ dec.ready)

\* Encrypt, finalize, reset, decrypt: the reset arms the decryptor with the tag that
\* aws_symmetric_cipher_get_tag shows, and once something has been encrypted that is the tag
\* of an encrypted message, whole, unless a tag was given.  Of which one, when there are
\* several, is the subject of TagOfMostRecentEncrypt.
DecryptorArmed ==
  mode = "GCM" /\ stream = "open" =>
    /\ dec.tag = tag
    /\ ended # <<>> /\ tag # Given => \E e \in DOMAIN ended : tag = ended[e]

\* symmetric_cipher.h:92: "The Tag for the most recent encrypt operation will be
\* available in: aws_symmetric_cipher_get_tag()", here without a decryption_tag.
TagOfMostRecentEncrypt ==
  mode = "GCM" /\ stream = "closed" /\ dir = "enc" /\ fed > 0 /\ tag # Given =>
    tag = [of |-> msg, len |-> fed]

\* The back end implements the stream the header promises.
Stream == INSTANCE CipherStream WITH accepted <- fed, emitted <- out, phase <- stream
ImplementsStream == Stream!Spec
=============================================================================
