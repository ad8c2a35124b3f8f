--------------------------- MODULE CommonCryptoAes ---------------------------
(***************************************************************************)
(* AES-CBC, AES-CTR and AES-GCM over CommonCrypto,                         *)
(* source/darwin/commoncrypto_aes.c, behind the front end of               *)
(* SymmetricCipher.  (Key wrap is in KeyWrap.)                             *)
(*                                                                         *)
(* Each direction has a cryptor, which buffers; the code reserves what it  *)
(* thinks the cryptor may write, and the cryptor refuses to write more     *)
(* than the caller's buffer takes.  A reset releases the cryptors and      *)
(* makes new ones, which may fail half way.                                *)
(*                                                                         *)
(* fed, dir, stream, msg, specified and cramped are history variables.     *)
(***************************************************************************)
EXTENDS SymmetricCipher

CONSTANTS MaxChunk, MaxFed, MaxMsg, Spaces

ASSUME CommonCryptoAssumption ==
  /\ MaxChunk \in Nat /\ MaxFed \in Nat \ {0} /\ MaxMsg \in Nat \ {0}
  /\ Spaces \subseteq Nat

VARIABLES
  mode,       \* which of the three vtables the cipher has, for good
  enc, dec,   \* encryptor_handle and decryptor_handle
  tag,        \* cipher->tag: the message whose tag is in it; NoTag when tag.len is 0
  tagBuffer,  \* cipher->tag.buffer is allocated
  out,        \* the bytes whose result is in the caller's buffers
  fed,        \* length of the message so far
  dir,        \* its direction: "none", "enc" or "dec"
  stream,     \* "none", "open", "closed" or "broken"
  msg,        \* its number, from 1
  specified,  \* the decryption_tag the constructor was given; NoTag if none
  cramped     \* a cryptor has refused to write for want of room

others == <<enc, dec, tag, tagBuffer, out, fed, dir, stream, msg, specified, cramped>>
vars == <<life, good, ret, mode, others>>

\* A message of this cipher: number and length.  Number -1: decryption_tag.
Message == [of : -1..MaxMsg, len : 0..MaxFed]
NoTag == [of |-> 0, len |-> 0]
Given == [of |-> -1, len |-> 1]

\* NULL, or a cryptor: what it holds back and how much it has been fed.
Cryptor == [ready : BOOLEAN, held : Seq(Nat), has : 0..MaxFed]
NULL == [ready |-> FALSE, held |-> <<>>, has |-> 0]
Fresh == [NULL EXCEPT !.ready = TRUE]

TypeOK ==
  /\ life \in Lives /\ good \in BOOLEAN /\ ret \in Returns
  /\ mode \in {"CBC", "CTR", "GCM"}
  /\ enc \in Cryptor /\ dec \in Cryptor
  /\ tag \in Message /\ tagBuffer \in BOOLEAN
  /\ out \in Seq(Nat) /\ fed \in 0..MaxFed /\ msg \in 0..MaxMsg
  /\ dir \in {"none", "enc", "dec"}
  /\ stream \in {"none", "open", "closed", "broken"}
  /\ specified \in {NoTag, Given}
  /\ cramped \in BOOLEAN

Init ==
  /\ mode \in {"CBC", "CTR", "GCM"}
  /\ life = "none" /\ good = FALSE /\ ret = "ok"
  /\ enc = NULL /\ dec = NULL /\ tag = NoTag /\ tagBuffer = FALSE
  /\ out = <<>> /\ fed = 0 /\ dir = "none" /\ stream = "none"
  /\ msg = 0 /\ specified = NoTag /\ cramped = FALSE

-----------------------------------------------------------------------------
(* CommonCrypto.  A call on NULL or for a reason of its own may fail.       *)

\* How many of n bytes a cryptor keeps: a decryptor with padding keeps a last block,
\* whole as it may be.
Keeps(op, n) ==
  CASE mode # "CBC" -> 0
    [] mode = "CBC" /\ op = "enc" -> n % Block
    [] OTHER -> IF n > 0 /\ n % Block = 0 THEN Block ELSE n % Block

Fails == ret' = "provider_error" /\ UNCHANGED <<out, enc, dec, cramped>>

CCCryptorUpdate(op, handle, k, space) ==
  LET bytes == handle.held \o Span(fed, fed + k)
      n == Len(bytes) - Keeps(op, Len(bytes))
      new == [handle EXCEPT !.held = SubSeq(bytes, n + 1, Len(bytes)), !.has = @ + k]
  IN \/ Fails
     \/ /\ handle.ready /\ n > space
        /\ ret' = "provider_error" /\ cramped' = TRUE
        /\ UNCHANGED <<out, enc, dec>>
     \/ /\ handle.ready /\ n <= space
        /\ ret' = "ok"
        /\ out' = out \o SubSeq(bytes, 1, n)
        /\ enc' = IF op = "enc" THEN new ELSE enc
        /\ dec' = IF op = "dec" THEN new ELSE dec
        /\ UNCHANGED cramped

\* An encryptor with padding completes the last block, a decryptor needs it complete.
CCCryptorFinal(op, handle, space) ==
  LET n == IF mode # "CBC" THEN 0 ELSE IF op = "enc" THEN Block ELSE Len(handle.held) IN
  \/ Fails
  \/ /\ handle.ready /\ n > space
     /\ ret' = "provider_error" /\ cramped' = TRUE
     /\ UNCHANGED <<out, enc, dec>>
  \/ /\ handle.ready /\ n <= space
     /\ mode = "CBC" /\ op = "dec" => Len(handle.held) = Block \/ handle.has = 0
     /\ ret' = "ok"
     /\ out' = out \o handle.held
     /\ UNCHANGED <<enc, dec, cramped>>

-----------------------------------------------------------------------------
(* The vtable. *)

NoRoom == ret' = "short_buffer" /\ UNCHANGED <<out, enc, dec, cramped>>

s_encrypt(k, space) ==
  LET room == aws_symmetric_cipher_try_ensure_sufficient_buffer_space(space, k + Block - 1) IN
  \/ ~room /\ NoRoom
  \/ room /\ CCCryptorUpdate("enc", enc, k, space)

\* Mutants, here and below, are wrong on purpose: each breaks a property.
s_decrypt_one_byte_less(k, space) ==
  LET room == aws_symmetric_cipher_try_ensure_sufficient_buffer_space(space, k + Block - 2) IN
  \/ ~room /\ NoRoom
  \/ room /\ CCCryptorUpdate("dec", dec, k, space)

s_decrypt(k, space) ==
  LET room == aws_symmetric_cipher_try_ensure_sufficient_buffer_space(space, k + Block - 1) IN
  \/ ~room /\ NoRoom
  \/ room /\ CCCryptorUpdate("dec", dec, k, space)

s_finalize_encryption(space) ==
  LET room == aws_symmetric_cipher_try_ensure_sufficient_buffer_space(space, Block) IN
  \/ ~room /\ NoRoom
  \/ room /\ CCCryptorFinal("enc", enc, space)

s_finalize_decryption(space) ==
  LET room == aws_symmetric_cipher_try_ensure_sufficient_buffer_space(space, Block) IN
  \/ ~room /\ NoRoom
  \/ room /\ CCCryptorFinal("dec", dec, space)

\* Writes the tag of what the cryptor has been fed.
s_cc_crypto_gcm_finalize(handle) ==
  \/ /\ ret' = "provider_error" /\ UNCHANGED tag
  \/ /\ handle.ready
     /\ ret' = "ok" /\ tag' = [of |-> msg, len |-> handle.has]

s_finalize_gcm_encryption_once ==
  /\ tagBuffer' = TRUE
  /\ IF tag = NoTag THEN s_cc_crypto_gcm_finalize(enc)
                    ELSE ret' \in {"ok", "provider_error"} /\ UNCHANGED tag
  /\ UNCHANGED <<out, enc, dec, cramped>>

s_finalize_gcm_encryption ==
  /\ tagBuffer' = TRUE
  /\ s_cc_crypto_gcm_finalize(enc)
  /\ UNCHANGED <<out, enc, dec, cramped>>

\* It is the encryptor that is finalized.  Without a buffer for the tag that fails, and
\* the length of the tag stays.
s_finalize_gcm_decryption ==
  /\ CASE ~tagBuffer -> ret' = "provider_error" /\ UNCHANGED tag
       [] tagBuffer /\ tag = NoTag -> ret' \in {"ok", "provider_error"} /\ UNCHANGED tag
       [] OTHER -> s_cc_crypto_gcm_finalize(enc)
  /\ UNCHANGED <<out, enc, dec, cramped, tagBuffer>>

InitBoth_last_status(handles) ==
  /\ enc' \in {handles.enc, Fresh}
  /\ dec' \in {handles.dec, Fresh}
  /\ ret' = IF dec' = Fresh THEN "ok" ELSE "provider_error"

\* CBC and CTR: both cryptors are made, and it is an error if either failed.
InitBoth(handles) ==
  /\ enc' \in {handles.enc, Fresh}
  /\ dec' \in {handles.dec, Fresh}
  /\ ret' = IF enc' = Fresh /\ dec' = Fresh THEN "ok" ELSE "provider_error"

s_initialize_cbc_cipher_materials(handles) == InitBoth(handles)
s_initialize_ctr_cipher_materials(handles) == InitBoth(handles)

\* GCM: in turn, up to the first failure; a cryptor is made before its IV and its
\* additional data are set.
s_initialize_gcm_cipher_materials(handles) ==
  \/ ret' = "provider_error" /\ enc' = handles.enc /\ dec' = handles.dec
  \/ ret' = "provider_error" /\ enc' = Fresh /\ dec' \in {handles.dec, Fresh}
  \/ ret' = "ok" /\ enc' = Fresh /\ dec' = Fresh

s_reset == [enc |-> NULL, dec |-> NULL]

s_cbc_reset_keeps_cryptors == mode = "CBC" /\ ret' = "ok" /\ UNCHANGED <<enc, dec>>

s_cbc_reset == mode = "CBC" /\ s_initialize_cbc_cipher_materials(s_reset)
s_ctr_reset == mode = "CTR" /\ s_initialize_ctr_cipher_materials(s_reset)
s_gcm_reset == mode = "GCM" /\ s_initialize_gcm_cipher_materials(s_reset)

-----------------------------------------------------------------------------
(* Construction and destruction. *)

NewMessage ==
  /\ out' = <<>> /\ fed' = 0 /\ dir' = "none" /\ msg' = msg + 1
  /\ stream' = IF ret' = "ok" THEN "open" ELSE "broken"
  /\ UNCHANGED cramped

s_destroy ==
  /\ life' = "none" /\ good' = FALSE
  /\ enc' = s_reset.enc /\ dec' = s_reset.dec /\ tag' = NoTag /\ tagBuffer' = FALSE
  /\ out' = <<>> /\ fed' = 0 /\ dir' = "none" /\ stream' = "none"
  /\ msg' = 0 /\ specified' = NoTag /\ UNCHANGED cramped

\* A constructor that fails destroys what it has made.
New(InitMaterials) ==
  /\ life = "none"
  /\ \/ /\ InitMaterials /\ ret' = "ok"
        /\ life' = "live" /\ good' = TRUE
        /\ NewMessage
     \/ ret' = "null" /\ s_destroy

aws_aes_cbc_256_new_impl ==
  /\ mode = "CBC"
  /\ New(s_initialize_cbc_cipher_materials(s_reset) /\ UNCHANGED <<tag, tagBuffer, specified>>)
aws_aes_ctr_256_new_impl ==
  /\ mode = "CTR"
  /\ New(s_initialize_ctr_cipher_materials(s_reset) /\ UNCHANGED <<tag, tagBuffer, specified>>)
aws_aes_gcm_256_new_impl ==
  /\ mode = "GCM"
  /\ \E t \in {NoTag, Given} :
       New(/\ s_initialize_gcm_cipher_materials(s_reset)
           /\ specified' = t /\ tag' = t /\ tagBuffer' = (t = Given))

Destroy == life = "live" /\ ret' = "ok" /\ s_destroy

-----------------------------------------------------------------------------
(* The calls of the API. *)

\* An update that lacks room leaves the message as it was.
TrackUpdate(op, k) ==
  /\ fed' = IF ret' = "short_buffer" THEN fed ELSE fed + k
  /\ dir' = IF ret' = "short_buffer" \/ k = 0 THEN dir ELSE op
  /\ stream' = IF ret' \in {"ok", "short_buffer"} /\ dir \in {"none", dir'} THEN stream
               ELSE "broken"
  /\ UNCHANGED <<tag, tagBuffer, msg, specified>>

TrackFinalize(op) ==
  /\ dir' = op
  /\ stream' = IF stream = "open" /\ ret' = "ok" /\ dir \in {"none", op} THEN "closed"
               ELSE "broken"
  /\ UNCHANGED <<fed, msg, specified>>

Encrypt(k, space) ==
  /\ fed + k <= MaxFed
  /\ aws_symmetric_cipher_encrypt(k, s_encrypt(k, space) /\ TrackUpdate("enc", k), others)

Decrypt(k, space) ==
  /\ fed + k <= MaxFed
  /\ aws_symmetric_cipher_decrypt(k, s_decrypt(k, space) /\ TrackUpdate("dec", k), others)

FinalizeEncryption(space) ==
  aws_symmetric_cipher_finalize_encryption(
    /\ IF mode = "GCM" THEN s_finalize_gcm_encryption
                       ELSE s_finalize_encryption(space) /\ UNCHANGED <<tag, tagBuffer>>
    /\ TrackFinalize("enc"), others)

FinalizeDecryption(space) ==
  aws_symmetric_cipher_finalize_decryption(
    /\ IF mode = "GCM" THEN s_finalize_gcm_decryption
                       ELSE s_finalize_decryption(space) /\ UNCHANGED <<tag, tagBuffer>>
    /\ TrackFinalize("dec"), others)

\* A reset that fails leaves the flag as it is.
Reset ==
  /\ msg < MaxMsg
  /\ aws_symmetric_cipher_reset(
       /\ s_cbc_reset \/ s_ctr_reset \/ s_gcm_reset
       /\ NewMessage
       /\ UNCHANGED <<tag, tagBuffer, specified>>, good)

Next ==
  /\ UNCHANGED mode
  /\ \/ aws_aes_cbc_256_new_impl
     \/ aws_aes_ctr_256_new_impl
     \/ aws_aes_gcm_256_new_impl
     \/ \E space \in Spaces :
          \/ \E k \in 0..MaxChunk : Encrypt(k, space) \/ Decrypt(k, space)
          \/ FinalizeEncryption(space)
          \/ FinalizeDecryption(space)
     \/ Reset
     \/ Destroy

Spec == Init /\ [][Next]_vars

-----------------------------------------------------------------------------
(* Properties. *)

\* commoncrypto_aes.c:28,52,77,102.  What the code asks the caller to have room for is
\* never too little for the cryptor, which may write a block it has kept and all but one
\* byte of another: CommonCrypto never fails a cipher for want of room.
ProviderHasRoom == ~cramped

\* A message can only be open on a good cipher with both cryptors made anew: one that a
\* reset left half made is never taken for usable by the caller who saw the error.  (And the
\* state has its type.)
OpenMeansReady == TypeOK /\ (stream = "open" => good /\ enc.ready /\ dec.ready)

\* symmetric_cipher.h:92: "The Tag for the most recent encrypt operation will be available
\* in: aws_symmetric_cipher_get_tag()", as soon as it is finalized, in each of several
\* messages.  That includes a cipher with a decryption_tag, for which the comment at
\* commoncrypto_aes.c:398 says otherwise: see UserTagTakesPrecedence.
TagOfMostRecentEncrypt ==
  mode = "GCM" /\ stream = "closed" /\ dir = "enc" => tag = [of |-> msg, len |-> fed]

\* commoncrypto_aes.c:398, where an encryption is finalized: "user specification takes
\* precedence. If its wrong its wrong".  A tag that the constructor was given is then
\* still the cipher's once a message, here one that is not empty, has been encrypted.
UserTagTakesPrecedence ==
  /\ mode = "GCM" /\ specified = Given
  /\ stream = "closed" /\ dir = "enc" /\ fed > 0
  => tag = specified

\* The back end implements the stream the header promises.
Stream == INSTANCE CipherStream WITH accepted <- fed, emitted <- out, phase <- stream
ImplementsStream == Stream!Spec
=============================================================================
