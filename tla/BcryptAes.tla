----------------------------- MODULE BcryptAes -----------------------------
(***************************************************************************)
(* AES-CBC and AES-GCM over Windows CNG, source/windows/bcrypt_aes.c,      *)
(* behind the front end of SymmetricCipher.                                *)
(*                                                                         *)
(* CNG takes whole blocks until the last call of a message, which carries  *)
(* BCRYPT_BLOCK_PADDING (CBC) or has the chaining flag cleared (GCM), and  *)
(* only the caller's finalize tells which call is the last.  So the code   *)
(* holds back a tail of the message in cipher->overflow.  The model keeps  *)
(* that buffer, the flags, the key handle and the authentication record,   *)
(* and stands for the caller by the direction, length and output room of   *)
(* each call.  CNG itself is external: a call takes its bytes or fails.    *)
(*                                                                         *)
(* fed, dir, stream, calls and msg are history variables.  No guard reads  *)
(* stream or calls; fed only numbers the next bytes.                       *)
(***************************************************************************)
EXTENDS SymmetricCipher

CONSTANTS
  MaxChunk,   \* bound: longest input of one call
  MaxFed,     \* bound: longest message
  MaxMsg,     \* bound: messages (resets) in the life of one cipher
  Spaces      \* the output room a caller may offer

ASSUME BoundsAssumption ==
  MaxChunk \in Nat /\ MaxFed \in Nat /\ MaxMsg \in Nat /\ Spaces \subseteq Nat

VARIABLES
  mode,          \* which of the two vtables the cipher has, for good
  overflow,      \* cipher->overflow
  cipher_flags,  \* "none" or "padding" (BCRYPT_BLOCK_PADDING)
  key_handle,    \* "null" or "live"
  auth_info,     \* *auth_info_ptr: "null", "chained" or "final" (flag cleared)
  mac,           \* the bytes folded into working_mac_buffer by CNG (GCM)
  tag,           \* cipher->tag: the message and bytes it authenticates
  out,           \* the bytes whose result is in the caller's buffers
  fed,           \* length of the message so far
  dir,           \* direction of the message: "none", "enc" or "dec"
  stream,        \* "none", "open", "closed", or "broken": see CipherStream
  calls,         \* the calls of BCryptEncrypt and BCryptDecrypt for this message
  msg            \* number of the message, from 1

impl == <<overflow, cipher_flags, key_handle, auth_info, mac, tag>>
others == <<impl, out, fed, dir, stream, calls, msg>>
vars == <<life, good, ret, mode, others>>

NoTag == [of |-> 0, bytes |-> <<>>]         \* sixteen zero bytes
GivenTag == [of |-> -1, bytes |-> <<>>]     \* the caller's decryption_tag

TypeOK ==
  /\ life \in Lives /\ good \in BOOLEAN /\ ret \in Returns
  /\ mode \in {"CBC", "GCM"}
  /\ overflow \in Seq(Nat) /\ mac \in Seq(Nat) /\ out \in Seq(Nat)
  /\ cipher_flags \in {"none", "padding"}
  /\ key_handle \in {"null", "live"}
  /\ auth_info \in {"null", "chained", "final"}
  /\ tag \in [of : Int, bytes : Seq(Nat)]
  /\ fed \in Nat /\ msg \in Nat
  /\ dir \in {"none", "enc", "dec"}
  /\ stream \in {"none", "open", "closed", "broken"}
  /\ calls \in Seq([len : Nat, last : BOOLEAN])

Init ==
  /\ mode \in {"CBC", "GCM"}
  /\ life = "none" /\ good = FALSE /\ ret = "ok"
  /\ overflow = <<>> /\ mac = <<>> /\ out = <<>>
  /\ cipher_flags = "none" /\ key_handle = "null" /\ auth_info = "null"
  /\ tag = NoTag
  /\ fed = 0 /\ msg = 0 /\ dir = "none" /\ stream = "none" /\ calls = <<>>

-----------------------------------------------------------------------------
(* How much of n buffered bytes is held back for the finalize call. *)

RESERVE_SIZE == 2 * Block

\* Mutants, here and below, are wrong on purpose: each breaks a property.
s_fill_in_overflow_keeps_none(n) == IF n <= RESERVE_SIZE THEN n ELSE n % RESERVE_SIZE
s_gcm_overflow_keeps_the_reserve(n) == IF n <= RESERVE_SIZE THEN n ELSE n % Block

s_fill_in_overflow(n) ==
  IF n <= RESERVE_SIZE THEN n
  ELSE IF n % RESERVE_SIZE = 0 THEN RESERVE_SIZE ELSE n % RESERVE_SIZE

s_gcm_overflow(n) == IF n <= Block THEN n ELSE Block + (n % Block)

Released(s, keep) == SubSeq(s, 1, Len(s) - keep)
Held(s, keep) == SubSeq(s, Len(s) - keep + 1, Len(s))

(* The provider.  The flags are read primed: the caller has just set them. *)

LastCall == IF mode = "GCM" THEN auth_info' = "final" ELSE cipher_flags' = "padding"

BCryptCall(op, bytes) ==
  \/ /\ key_handle = "live"
     /\ ret' = "ok"
     /\ out' = out \o bytes
     /\ calls' = Append(calls, [len |-> Len(bytes), last |-> LastCall])
     /\ mac' = IF mode = "GCM" THEN mac \o bytes ELSE mac
     /\ tag' = IF mode = "GCM" /\ op = "enc" /\ LastCall
               THEN [of |-> msg, bytes |-> mac'] ELSE tag
  \/ ret' = "provider_error" /\ UNCHANGED <<out, calls, mac, tag>>

Process(op, bytes, need, space) ==
  \/ bytes = <<>> /\ ret' = "ok" /\ UNCHANGED <<out, calls, mac, tag>>
  \/ /\ bytes # <<>>
     /\ ~aws_symmetric_cipher_try_ensure_sufficient_buffer_space(space, need)
     /\ ret' = "short_buffer"
     /\ UNCHANGED <<out, calls, mac, tag>>
  \/ /\ bytes # <<>>
     /\ aws_symmetric_cipher_try_ensure_sufficient_buffer_space(space, need)
     /\ BCryptCall(op, bytes)

predicted_write_length(n) ==
  IF cipher_flags' = "padding" THEN n + (Block - (n % Block)) ELSE n

s_aes_default_encrypt(bytes, space) ==
  Process("enc", bytes, predicted_write_length(Len(bytes)), space)

s_default_aes_decrypt(bytes, space) == Process("dec", bytes, Len(bytes), space)

-----------------------------------------------------------------------------
(* The vtables.  The bytes held back move before the provider is called. *)

Buffered(k) == overflow \o Span(fed, fed + k)

s_aes_cbc_encrypt(k, space) ==
  LET keep == s_fill_in_overflow(Len(overflow) + k) IN
  /\ cipher_flags' = "none"
  /\ overflow' = Held(Buffered(k), keep)
  /\ UNCHANGED <<key_handle, auth_info>>
  /\ s_aes_default_encrypt(Released(Buffered(k), keep), space)

s_aes_cbc_decrypt(k, space) ==
  LET keep == s_fill_in_overflow(Len(overflow) + k) IN
  /\ cipher_flags' = "none"
  /\ overflow' = Held(Buffered(k), keep)
  /\ UNCHANGED <<key_handle, auth_info>>
  /\ s_default_aes_decrypt(Released(Buffered(k), keep), space)

s_aes_cbc_finalize_encryption(space) ==
  /\ cipher_flags' = IF overflow # <<>> THEN "padding" ELSE cipher_flags
  /\ overflow' = <<>>
  /\ UNCHANGED <<key_handle, auth_info>>
  /\ s_aes_default_encrypt(overflow, space)

s_aes_cbc_finalize_decryption(space) ==
  /\ cipher_flags' = IF overflow # <<>> THEN "padding" ELSE cipher_flags
  /\ overflow' = <<>>
  /\ UNCHANGED <<key_handle, auth_info>>
  /\ s_default_aes_decrypt(overflow, space)

\* An empty input returns at once.
s_aes_gcm_encrypt(k, space) ==
  LET keep == IF k = 0 THEN Len(overflow) ELSE s_gcm_overflow(Len(overflow) + k) IN
  /\ overflow' = Held(Buffered(k), keep)
  /\ UNCHANGED <<cipher_flags, key_handle, auth_info>>
  /\ s_aes_default_encrypt(Released(Buffered(k), keep), space)

s_aes_gcm_decrypt(k, space) ==
  LET keep == IF k = 0 THEN Len(overflow) ELSE s_gcm_overflow(Len(overflow) + k) IN
  /\ overflow' = Held(Buffered(k), keep)
  /\ UNCHANGED <<cipher_flags, key_handle, auth_info>>
  /\ s_default_aes_decrypt(Released(Buffered(k), keep), space)

s_aes_gcm_finalize_encryption(space) ==
  /\ auth_info' = "final"
  /\ overflow' = <<>>
  /\ UNCHANGED <<cipher_flags, key_handle>>
  /\ s_aes_default_encrypt(overflow, space)

s_aes_gcm_finalize_decryption(space) ==
  /\ auth_info' = "final"
  /\ overflow' = <<>>
  /\ UNCHANGED <<cipher_flags, key_handle>>
  /\ s_default_aes_decrypt(overflow, space)

-----------------------------------------------------------------------------
(* Construction, reset and destruction. *)

s_initialize_cipher_materials_reuses_auth_info ==
  /\ ret' = "ok"
  /\ key_handle' = "live"
  /\ auth_info' = IF mode = "GCM" /\ auth_info = "null" THEN "chained" ELSE auth_info
  /\ cipher_flags' = "none"

\* The key cannot be imported, the IV cannot be set on it (CBC), or all is well.
s_initialize_cipher_materials ==
  \/ /\ ret' = "provider_error"
     /\ key_handle' = "null" /\ auth_info' = "null"
     /\ UNCHANGED cipher_flags
  \/ /\ mode = "CBC"
     /\ ret' = "provider_error"
     /\ key_handle' = "live" /\ auth_info' = "null"
     /\ cipher_flags' = "none"
  \/ /\ ret' = "ok"
     /\ key_handle' = "live"
     /\ auth_info' = IF mode = "GCM" THEN "chained" ELSE "null"
     /\ cipher_flags' = "none"

s_clear_reusable_components_leaves_overflow == mac' = <<>> /\ UNCHANGED overflow
s_clear_reusable_components_leaves_mac == overflow' = <<>> /\ UNCHANGED mac

s_clear_reusable_components == overflow' = <<>> /\ mac' = <<>>

NewMessage ==
  /\ out' = <<>> /\ fed' = 0 /\ dir' = "none" /\ calls' = <<>>
  /\ msg' = msg + 1
  /\ stream' = IF ret' = "ok" THEN "open" ELSE "broken"

s_reset_cbc_cipher ==
  /\ mode = "CBC"
  /\ s_clear_reusable_components
  /\ s_initialize_cipher_materials
  /\ UNCHANGED tag

s_reset_gcm_cipher ==
  /\ mode = "GCM"
  /\ s_clear_reusable_components
  /\ s_initialize_cipher_materials
  /\ UNCHANGED tag

\* A failed construction: nothing the caller can use is left.
Nothing ==
  /\ good' = FALSE
  /\ overflow' = <<>> /\ mac' = <<>> /\ out' = <<>>
  /\ cipher_flags' = "none" /\ key_handle' = "null" /\ auth_info' = "null"
  /\ tag' = NoTag
  /\ fed' = 0 /\ msg' = 0 /\ dir' = "none" /\ calls' = <<>>

aws_aes_cbc_256_new_impl ==
  /\ mode = "CBC" /\ life = "none"
  /\ \/ /\ life' = "live" /\ good' = TRUE /\ ret' = "ok"
        /\ overflow' = <<>> /\ mac' = <<>> /\ tag' = NoTag
        /\ s_initialize_cipher_materials
        /\ NewMessage
     \/ life' = "none" /\ ret' = "null" /\ Nothing /\ stream' = "none"

\* The error path destroys the cipher before cipher->impl is set: the destructor
\* reads through the null pointer.
aws_aes_gcm_256_new_impl ==
  /\ mode = "GCM" /\ life = "none"
  /\ \/ /\ life' = "live" /\ good' = TRUE /\ ret' = "ok"
        /\ overflow' = <<>> /\ mac' = <<>> /\ tag' \in {NoTag, GivenTag}
        /\ s_initialize_cipher_materials
        /\ NewMessage
     \/ life' = "crashed" /\ ret' = "null" /\ Nothing /\ stream' = "broken"

s_aes_default_destroy ==
  /\ life = "live"
  /\ life' = "none" /\ ret' = "ok"
  /\ Nothing
  /\ stream' = "none"

-----------------------------------------------------------------------------
(* The calls of the API. *)

\* What the history makes of an update or a finalize that reached the vtable.
Track(op, k, done) ==
  /\ fed' = fed + k
  /\ dir' = IF k > 0 \/ done = "closed" THEN op ELSE dir
  /\ stream' = IF stream = "open" /\ ret' = "ok" /\ dir \in {"none", dir'}
               THEN done ELSE "broken"
  /\ UNCHANGED msg

Encrypt(k, space) ==
  /\ fed + k <= MaxFed
  /\ aws_symmetric_cipher_encrypt(k,
       /\ IF mode = "CBC" THEN s_aes_cbc_encrypt(k, space) ELSE s_aes_gcm_encrypt(k, space)
       /\ Track("enc", k, "open"), others)

Decrypt(k, space) ==
  /\ fed + k <= MaxFed
  /\ aws_symmetric_cipher_decrypt(k,
       /\ IF mode = "CBC" THEN s_aes_cbc_decrypt(k, space) ELSE s_aes_gcm_decrypt(k, space)
       /\ Track("dec", k, "open"), others)

FinalizeEncryption(space) ==
  aws_symmetric_cipher_finalize_encryption(
    /\ IF mode = "CBC" THEN s_aes_cbc_finalize_encryption(space)
                       ELSE s_aes_gcm_finalize_encryption(space)
    /\ Track("enc", 0, "closed"), others)

FinalizeDecryption(space) ==
  aws_symmetric_cipher_finalize_decryption(
    /\ IF mode = "CBC" THEN s_aes_cbc_finalize_decryption(space)
                       ELSE s_aes_gcm_finalize_decryption(space)
    /\ Track("dec", 0, "closed"), others)

Reset ==
  /\ msg < MaxMsg
  /\ aws_symmetric_cipher_reset(
       (s_reset_cbc_cipher \/ s_reset_gcm_cipher) /\ NewMessage, FALSE)

Next ==
  /\ UNCHANGED mode
  /\ \/ aws_aes_cbc_256_new_impl
     \/ aws_aes_gcm_256_new_impl
     \/ \E space \in Spaces :
          \/ \E k \in 0..MaxChunk : Encrypt(k, space) \/ Decrypt(k, space)
          \/ FinalizeEncryption(space)
          \/ FinalizeDecryption(space)
     \/ Reset
     \/ s_aes_default_destroy

Spec == Init /\ [][Next]_vars

-----------------------------------------------------------------------------
(* Properties. *)

\* Nothing is lost, repeated or reordered between the caller and CNG: while a
\* message is open, what was emitted followed by cipher->overflow is exactly what
\* was handed over; once it is finalized, everything was emitted.
NothingLost ==
  /\ stream = "open" => out \o overflow = Span(0, fed)
  /\ stream = "closed" => out = Span(0, fed)

\* CNG's side of the chaining contract: only the last call of a message may carry
\* the padding flag or drop the chaining flag, every other call brings whole
\* blocks, and a finalized message that is not empty has had its last call.
ProviderContract ==
  /\ \A i \in DOMAIN calls :
       /\ ~calls[i].last => calls[i].len % Block = 0
       /\ calls[i].last => i = Len(calls)
  /\ stream = "closed" /\ fed > 0 => calls # <<>> /\ calls[Len(calls)].last

\* The good flag means what the calls behind it rely on: there is a key handle to
\* pass to CNG, in GCM an authentication record that is still chaining (finalize
\* dereferences it), and no last call has been made on it.
GoodMeansUsable ==
  good => /\ life = "live"
          /\ key_handle = "live"
          /\ auth_info = IF mode = "GCM" THEN "chained" ELSE "null"
          /\ \A i \in DOMAIN calls : ~calls[i].last

\* symmetric_cipher.h:92-94: after a finished encryption the tag is that of the
\* most recent message, here for a message that is not empty.
TagOfMostRecentEncrypt ==
  mode = "GCM" /\ stream = "closed" /\ dir = "enc" /\ fed > 0 =>
    tag = [of |-> msg, bytes |-> Span(0, fed)]

\* symmetric_cipher.h:130-132, 160-162: room for the input and one more block is
\* enough for an update, and room for two blocks is enough for finalize.
RoomAsDocumented ==
  ret' = "short_buffer" =>
    \A space \in Spaces :
      /\ \A k \in 0..MaxChunk : Encrypt(k, space) \/ Decrypt(k, space) => space < k + Block
      /\ FinalizeEncryption(space) \/ FinalizeDecryption(space) => space < 2 * Block

\* The room the header asks for is enough in GCM mode, although up to a block and all
\* but one byte of another wait in the overflow.
DocumentedRoomInGcm == [][mode = "GCM" => RoomAsDocumented]_vars

\* The back end implements the stream the header promises.
Stream == INSTANCE CipherStream WITH accepted <- fed, emitted <- out, phase <- stream
ImplementsStream == Stream!Spec
=============================================================================
