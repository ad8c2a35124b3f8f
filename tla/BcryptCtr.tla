----------------------------- MODULE BcryptCtr -----------------------------
(***************************************************************************)
(* AES-CTR over Windows CNG, source/windows/bcrypt_aes.c.  CNG has no CTR  *)
(* mode: the code encrypts the counter block with ECB, XORs the result     *)
(* with one block of the message and increments the low 32 bits of the     *)
(* block itself.  An incomplete last block waits in cipher->overflow.      *)
(* Encryption and decryption are the same function.                        *)
(*                                                                         *)
(* A byte of output is recorded with the keystream byte it was combined    *)
(* with: the counter and the offset in its block.  fed and stream are      *)
(* history variables.                                                      *)
(***************************************************************************)
EXTENDS SymmetricCipher

CONSTANTS
  CounterMax,     \* UINT32_MAX, the last value of the counter
  InitCounters,   \* the counters an IV may start from
  MaxChunk, MaxFed, MaxMsg, Spaces

ASSUME CtrAssumption ==
  /\ CounterMax \in Nat /\ InitCounters \subseteq 0..CounterMax
  /\ MaxChunk \in Nat /\ MaxFed \in Nat /\ MaxMsg \in Nat /\ Spaces \subseteq Nat

VARIABLES
  overflow,     \* cipher->overflow
  iv,           \* the counter in cipher->iv
  working_iv,   \* the counter blocks in working_iv: one, none once it is zeroed
  key_handle,   \* "null" or "live"
  out,          \* what has been written to the caller's buffers
  fed, msg,     \* length of the message so far, its number
  stream        \* "none", "open", "closed" or "broken"

others == <<overflow, iv, working_iv, key_handle, out, fed, msg, stream>>
vars == <<life, good, ret, others>>

Cell == [byte : Nat, ctr : 0..CounterMax, off : 0..(Block - 1)]

TypeOK ==
  /\ life \in Lives /\ good \in BOOLEAN /\ ret \in Returns
  /\ overflow \in Seq(Nat)
  /\ iv \in 0..CounterMax
  /\ working_iv \in Seq(0..CounterMax)
  /\ key_handle \in {"null", "live"}
  /\ out \in Seq(Cell)
  /\ fed \in Nat /\ msg \in Nat
  /\ stream \in {"none", "open", "closed", "broken"}

Init ==
  /\ life = "none" /\ good = FALSE /\ ret = "ok"
  /\ overflow = <<>> /\ iv = 0 /\ working_iv = <<>> /\ key_handle = "null"
  /\ out = <<>> /\ fed = 0 /\ msg = 0 /\ stream = "none"

-----------------------------------------------------------------------------
(* The loop over the slices of one call. *)

\* Slices of one block each; finalize alone also takes an incomplete last one.
Slices(len, partial) == IF partial THEN (len + Block - 1) \div Block ELSE len \div Block

\* How many bytes the first d slices hold.
SliceBytes(len, d) == IF d * Block <= len THEN d * Block ELSE len

Counter == IF working_iv = <<>> THEN 0 ELSE working_iv[1]

\* ECB turns one counter block into one block of keystream; its output buffer has
\* no room for more.
BCryptEncryptTakes(n) == IF Len(working_iv) = 1 THEN n ELSE 0

\* Mutants, here and below, are wrong on purpose: each breaks a property.
s_xor_cursors_same_counter(bytes, d) ==
  [i \in 1..SliceBytes(Len(bytes), d) |->
     [byte |-> bytes[i], ctr |-> Counter, off |-> (i - 1) % Block]]

s_xor_cursors(bytes, d) ==
  [i \in 1..SliceBytes(Len(bytes), d) |->
     [byte |-> bytes[i], ctr |-> Counter + ((i - 1) \div Block), off |-> (i - 1) % Block]]

\* Room for the first d slices.
SliceRoom(len, d, space) ==
  aws_symmetric_cipher_try_ensure_sufficient_buffer_space(space, SliceBytes(len, d))

\* The counter block the call leaves behind.
Stored_not_advanced(c, final) == IF final THEN <<>> ELSE working_iv
Stored(c, final) == IF final THEN <<>> ELSE <<c>>

\* d slices are written and the counter is incremented after each.  The loop ends
\* when all n are done, when the room or the provider fails the next one, or when
\* the counter cannot be incremented, which is noticed after the slice is written.
\* The finalize call zeroes working_iv afterwards.
SliceLoop(bytes, final, space) ==
  LET n == Slices(Len(bytes), final)
  IN \E d \in 0..BCryptEncryptTakes(n) :
       /\ SliceRoom(Len(bytes), d, space)
       /\ out' = out \o s_xor_cursors(bytes, d)
       /\ \/ /\ Counter + d <= CounterMax
             /\ working_iv' = Stored(Counter + d, final)
             /\ \/ d = n /\ ret' = "ok"
                \/ d < n /\ ~SliceRoom(Len(bytes), d + 1, space) /\ ret' = "short_buffer"
                \/ d < n /\ ret' = "provider_error"
          \/ /\ d > 0 /\ Counter + d - 1 = CounterMax
             /\ working_iv' = Stored(CounterMax, final)
             /\ ret' = "counter_overflow"

\* The overflow moves to the working buffer first: if the loop stops early, the
\* slices it has not reached are gone.
s_aes_ctr_encrypt(k, space) ==
  \/ k = 0 /\ ret' = "ok" /\ UNCHANGED <<overflow, working_iv, out>>
  \/ LET bytes == overflow \o Span(fed, fed + k) IN
     /\ k > 0
     /\ SliceLoop(bytes, FALSE, space)
     /\ overflow' = IF ret' = "ok"
                    THEN SubSeq(bytes, Slices(Len(bytes), FALSE) * Block + 1, Len(bytes))
                    ELSE <<>>

s_aes_ctr_finalize_encryption(space) ==
  /\ \/ overflow = <<>> /\ ret' = "ok" /\ working_iv' = <<>> /\ UNCHANGED out
     \/ overflow # <<>> /\ SliceLoop(overflow, TRUE, space)
  /\ overflow' = <<>>

-----------------------------------------------------------------------------
(* Construction, reset and destruction. *)

\* The key cannot be imported, the IV cannot be set on it, or all is well.
s_initialize_cipher_materials ==
  \/ ret' = "provider_error" /\ key_handle' \in {"null", "live"}
  \/ ret' = "ok" /\ key_handle' = "live"

NewMessage ==
  /\ out' = <<>> /\ fed' = 0 /\ msg' = msg + 1
  /\ stream' = IF ret' = "ok" THEN "open" ELSE "broken"

s_clear_reusable_components_leaves_overflow == UNCHANGED overflow

\* working_iv is zeroed only if it owns its memory, which it does in CTR mode.
s_clear_reusable_components == overflow' = <<>>

s_reset_ctr_cipher_appends ==
  /\ s_clear_reusable_components
  /\ working_iv' = Append(working_iv, iv)
  /\ s_initialize_cipher_materials
  /\ UNCHANGED iv

s_reset_ctr_cipher ==
  /\ s_clear_reusable_components
  /\ working_iv' = <<iv>>
  /\ s_initialize_cipher_materials
  /\ UNCHANGED iv

Nothing ==
  /\ good' = FALSE /\ overflow' = <<>> /\ iv' = 0 /\ working_iv' = <<>>
  /\ key_handle' = "null" /\ out' = <<>> /\ fed' = 0 /\ msg' = 0

\* As in GCM mode, the error path destroys a cipher whose impl is not yet set.
aws_aes_ctr_256_new_impl ==
  /\ life = "none"
  /\ \/ /\ life' = "live" /\ good' = TRUE /\ ret' = "ok" /\ overflow' = <<>>
        /\ iv' \in InitCounters /\ working_iv' = <<iv'>>
        /\ s_initialize_cipher_materials
        /\ NewMessage
     \/ life' = "crashed" /\ ret' = "null" /\ Nothing /\ stream' = "broken"

s_aes_default_destroy ==
  /\ life = "live"
  /\ life' = "none" /\ ret' = "ok" /\ Nothing /\ stream' = "none"

-----------------------------------------------------------------------------

Track(k, done) ==
  /\ fed' = fed + k
  /\ stream' = IF stream = "open" /\ ret' = "ok" THEN done ELSE "broken"
  /\ UNCHANGED <<iv, key_handle, msg>>

Encrypt(k, space) ==
  /\ fed + k <= MaxFed
  /\ aws_symmetric_cipher_encrypt(k, s_aes_ctr_encrypt(k, space) /\ Track(k, "open"), others)

FinalizeEncryption(space) ==
  aws_symmetric_cipher_finalize_encryption(
    s_aes_ctr_finalize_encryption(space) /\ Track(0, "closed"), others)

Reset ==
  /\ msg < MaxMsg
  /\ aws_symmetric_cipher_reset(s_reset_ctr_cipher /\ NewMessage, FALSE)

Next ==
  \/ aws_aes_ctr_256_new_impl
  \/ \E space \in Spaces :
       \/ \E k \in 0..MaxChunk : Encrypt(k, space)
       \/ FinalizeEncryption(space)
  \/ Reset
  \/ s_aes_default_destroy

Spec == Init /\ [][Next]_vars

-----------------------------------------------------------------------------
(* Properties. *)

\* Counter mode as a function: byte i of the message meets byte (i-1) % Block of the
\* keystream block whose counter is (i-1) \div Block past the IV, however the message
\* was cut into calls, and only an incomplete block is still held back.
CounterMode ==
  stream \in {"open", "closed"} =>
    /\ out = [i \in 1..Len(out) |-> [byte |-> i,
                                    ctr |-> iv + ((i - 1) \div Block),
                                    off |-> (i - 1) % Block]]
    /\ fed = Len(out) + Len(overflow)
    /\ Len(overflow) < Block
    /\ overflow = Span(Len(out), fed)
    /\ stream = "closed" => overflow = <<>>

\* Whatever call fails and however the caller goes on, no byte of keystream is
\* combined with two bytes of data between two resets.
KeystreamUsedOnce ==
  \A i, j \in DOMAIN out :
    out[i].ctr = out[j].ctr /\ out[i].off = out[j].off => i = j

\* While the good flag is up the slice loop has what it reads: a key handle and
\* exactly one counter block in working_iv, which finalize zeroes, reset refills and
\* the loop advances one block of output at a time.  (And the state has its type.)
GoodMeansUsable ==
  /\ TypeOK
  /\ good =>
          /\ life = "live" /\ key_handle = "live"
          /\ Len(working_iv) = 1
          /\ Len(overflow) < Block

\* The back end implements the stream the header promises.
Stream == INSTANCE CipherStream WITH
            accepted <- fed, emitted <- [i \in DOMAIN out |-> out[i].byte], phase <- stream
ImplementsStream == Stream!Spec
=============================================================================
