------------------------------ MODULE KeyWrap ------------------------------
(***************************************************************************)
(* AES key wrap, the fourth kind of cipher, on its three back ends:        *)
(* source/unix/openssl_aes.c implements RFC 3394 itself, in place, on top  *)
(* of ECB; Windows and Darwin have the provider do it.  All three collect  *)
(* the input until finalize.                                               *)
(*                                                                         *)
(* A byte is a number below ByteMod, a buffer a sequence of bytes, and the *)
(* block cipher a permutation of the sequences of two (half) blocks that   *)
(* the constants supply.  The caller hands over src, a key or the result   *)
(* of an earlier wrap, piece by piece.  handed, the bytes of it handed     *)
(* over so far, last, the latest finalize, and wrapped, the latest wrap    *)
(* that succeeded, are history variables: what the properties compare is   *)
(* what the caller gave, not what the cipher kept of it.                   *)
(***************************************************************************)
EXTENDS SymmetricCipher, Bitwise

CONSTANTS
  ByteMod,               \* 2^8
  INTEGRITY_VALUE,       \* 0xA6
  EVP_EncryptUpdate(_),  \* ECB on two (half) blocks
  EVP_DecryptUpdate(_),  \* its inverse
  KeyLengths,            \* the lengths CNG accepts as an AES key
  HeaderSize,            \* sizeof(BCRYPT_KEY_DATA_BLOB_HEADER)
  Keys,                  \* what the caller may wrap
  Befores,               \* what the caller's buffer may already hold
  Spaces                 \* the room left in it

Bytes == 0..(ByteMod - 1)
Junk == -1               \* memory nothing was written to

ASSUME KeyWrapAssumption ==
  /\ ByteMod \in Nat \ {0} /\ INTEGRITY_VALUE \in Bytes /\ HeaderSize \in Nat
  /\ Keys \subseteq Seq(Bytes) /\ Befores \subseteq Seq(Bytes)
  /\ KeyLengths \subseteq Nat /\ Spaces \subseteq Nat

VARIABLES
  vtable,          \* the back end of the current cipher
  working_buffer,  \* the input so far (cipher->overflow on Windows)
  src, handed, last, wrapped

others == <<working_buffer, src, handed, last, wrapped>>
vars == <<life, good, ret, vtable, others>>

Vtables == {"openssl", "bcrypt", "commoncrypto"}
NoFinalize == [op |-> "none", in |-> <<>>, before |-> <<>>, out |-> <<>>, ret |-> "ok"]
NoWrap == [key |-> <<>>, text |-> <<>>, by |-> "none"]

TypeOK ==
  /\ life \in Lives /\ good \in BOOLEAN /\ ret \in Returns
  /\ vtable \in Vtables
  /\ working_buffer \in Seq(Bytes) /\ src \in Seq(Bytes)
  /\ handed \in 0..Len(src)
  /\ last \in [op : {"none", "wrap", "unwrap"}, in : Seq(Bytes), before : Seq(Bytes),
               out : Seq(Bytes \cup {Junk}), ret : Returns]
  /\ wrapped \in [key : Seq(Bytes), text : Seq(Bytes), by : Vtables \cup {"none"}]

Init ==
  /\ vtable \in Vtables
  /\ life = "none" /\ good = FALSE /\ ret = "ok"
  /\ working_buffer = <<>> /\ src = <<>> /\ handed = 0
  /\ last = NoFinalize /\ wrapped = NoWrap

-----------------------------------------------------------------------------
(* RFC 3394 as the RFC first states it, with a register A and a shift      *)
(* register R: what the providers of Windows and Darwin do.                *)

IV == [i \in 1..Block |-> INTEGRITY_VALUE]
Msb(b) == SubSeq(b, 1, Block)
Lsb(b) == SubSeq(b, Block + 1, 2 * Block)

Xor8 == [x, y \in Bytes |-> x ^^ y]

\* XOR of the number t into a block, most significant byte first.
XorNumber(a, t) == 
  [i \in 1..Block |-> Xor8[a[i], (t \div ByteMod^(Block - i)) % ByteMod]]

\* Step t turns A followed by R into their next value; ar[t] is the value after it.
RFC3394_Wrap(p) ==
  LET Step[prev \in Seq(Bytes), t \in Nat] ==
        LET b == EVP_EncryptUpdate(SubSeq(prev, 1, 2 * Block))
        IN XorNumber(Msb(b), t) \o SubSeq(prev, 2 * Block + 1, Len(prev)) \o Lsb(b)
      ar[t \in Nat] == IF t = 0 THEN IV \o p ELSE Step[ar[t - 1], t]
  IN ar[6 * (Len(p) \div Block)]

\* The steps from the last one back.
RFC3394_Unwrap(c) ==
  LET steps == 6 * ((Len(c) \div Block) - 1)
      Back[next \in Seq(Bytes), t \in Nat] ==
        LET b == EVP_DecryptUpdate(XorNumber(Msb(next), t)
                                   \o SubSeq(next, Len(next) - Block + 1, Len(next)))
        IN b \o SubSeq(next, Block + 1, Len(next) - Block)
      ar[t \in Nat] == IF t = steps THEN c ELSE Back[ar[t + 1], t + 1]
  IN ar[0]

Aligned(s) == Len(s) % Block = 0

\* What the providers accept: two blocks or more, and an intact integrity value.
Wraps(p) == Aligned(p) /\ Len(p) >= 2 * Block
Unwraps(c) == Aligned(c) /\ Len(c) >= 3 * Block /\ Msb(RFC3394_Unwrap(c)) = IV
BCryptImports(p) == Len(p) \in KeyLengths

-----------------------------------------------------------------------------
(* The in-place implementation of source/unix/openssl_aes.c. *)

MIN_CEK_LENGTH_BYTES == 2 * Block

\* t is an unsigned char.  (A definition whose name extends the next one's is a
\* mutant of it, wrong on purpose.)
t_off_by_one(n, j, i) == ((n * j) + i - 1) % ByteMod
t(n, j, i) == ((n * j) + i) % ByteMod

\* Writes block w over the bytes of buf from offset p.
Put(buf, p, w) == SubSeq(buf, 1, p) \o w \o SubSeq(buf, p + Block + 1, Len(buf))

\* j and i in pass s through the loops of the wrap and of the unwrap.
LoopUp(n, s) == [j |-> (s - 1) \div n, i |-> ((s - 1) % n) + 1]
LoopDown(n, s) == [j |-> 5 - ((s - 1) \div n), i |-> n - ((s - 1) % n)]

WrapSteps(p) == 6 * (Len(p) \div Block)

\* A and R after d passes through the body of the loops over j and i.
WrapLoop(p, d) ==
  LET n == Len(p) \div Block
      Body[prev \in Seq(Bytes), s \in Nat] ==
        LET j == LoopUp(n, s).j
            i == LoopUp(n, s).i
            b == EVP_EncryptUpdate(Msb(prev) \o SubSeq(prev, i * Block + 1, (i + 1) * Block))
            a == [Msb(b) EXCEPT ![Block] = Xor8[@, t(n, j, i)]]
        IN Put(Put(prev, 0, a), i * Block, Lsb(b))
      buf[s \in Nat] == IF s = 0 THEN IV \o p ELSE Body[buf[s - 1], s]
  IN buf[d]

\* The same for the unwrap.  R is addressed from its end; A is the first block of
\* working_buffer.
UnwrapLoop(c, d) ==
  LET n == (Len(c) - Block) \div Block
      Body[prev \in Seq(Bytes), s \in Nat] ==
        LET j == LoopDown(n, s).j
            i == LoopDown(n, s).i
            r == Len(c) - (n - i + 1) * Block
            a == [Msb(prev) EXCEPT ![Block] = Xor8[@, t(n, j, i)]]
            b == EVP_DecryptUpdate(a \o SubSeq(prev, r + 1, r + Block))
        IN Put(Put(prev, 0, Msb(b)), r, Lsb(b))
      buf[s \in Nat] == IF s = 0 THEN c ELSE Body[buf[s - 1], s]
  IN buf[d]

UnwrapSteps(c) == 6 * ((Len(c) - Block) \div Block)
Plain(ar) == SubSeq(ar, Block + 1, Len(ar))

-----------------------------------------------------------------------------
(* The vtable entries. *)

\* One function for both directions on every back end: append_dynamic.
s_key_wrap_encrypt_decrypt(k) ==
  /\ working_buffer' = working_buffer \o SubSeq(src, handed + 1, handed + k)
  /\ handed' = handed + k
  /\ ret' = "ok"
  /\ UNCHANGED <<src, last, wrapped>>

Fits(space, need) == aws_symmetric_cipher_try_ensure_sufficient_buffer_space(space, need)

\* What the caller has handed over since the cipher was made or reset.
Input == SubSeq(src, 1, handed)

\* What finalize was to work on and what it left in the caller's buffer.
Finished(op, before, out) ==
  last' = [op |-> op, in |-> Input, before |-> before, out |-> out, ret |-> ret']

\* libcrypto.  The input is copied into the caller's buffer, and counted there,
\* before the first of the steps that may fail.
openssl_finalize_encryption_at_start(before, space) ==
  /\ UNCHANGED working_buffer
  /\ Len(working_buffer) >= MIN_CEK_LENGTH_BYTES
  /\ ret' = "ok"
  /\ Finished("wrap", before,
              WrapLoop(working_buffer, WrapSteps(working_buffer))
              \o [i \in 1..Len(before) |-> Junk])

openssl_finalize_encryption(before, space) ==
  /\ UNCHANGED working_buffer
  /\ IF Len(working_buffer) < MIN_CEK_LENGTH_BYTES
     THEN ret' = "invalid_state" /\ Finished("wrap", before, before)
     ELSE IF ~Fits(space, Len(working_buffer) + Block)
     THEN ret' = "short_buffer" /\ Finished("wrap", before, before)
     ELSE \E d \in {0, WrapSteps(working_buffer) - 1, WrapSteps(working_buffer)} :
            /\ ret' = IF d = WrapSteps(working_buffer) THEN "ok" ELSE "provider_error"
            /\ Finished("wrap", before, before \o WrapLoop(working_buffer, d))

openssl_finalize_decryption_unchecked(before, space) ==
  LET ar == UnwrapLoop(working_buffer, UnwrapSteps(working_buffer)) IN
  /\ Len(working_buffer) >= MIN_CEK_LENGTH_BYTES + Block
  /\ working_buffer' = Put(working_buffer, 0, Msb(ar))
  /\ ret' = "ok" /\ Finished("unwrap", before, before \o Plain(ar))

\* The bytes are decrypted in the caller's buffer, but counted only if the
\* integrity check passes.
openssl_finalize_decryption(before, space) ==
  IF Len(working_buffer) < MIN_CEK_LENGTH_BYTES + Block
  THEN /\ ret' = "invalid_state" /\ Finished("unwrap", before, before)
       /\ UNCHANGED working_buffer
  ELSE IF ~Fits(space, Len(working_buffer) - Block)
  THEN /\ ret' = "short_buffer" /\ Finished("unwrap", before, before)
       /\ UNCHANGED working_buffer
  ELSE LET steps == UnwrapSteps(working_buffer) IN
       \E d \in {0, steps - 1, steps} :
         LET ar == UnwrapLoop(working_buffer, d) IN
         /\ working_buffer' = Put(working_buffer, 0, Msb(ar))
         /\ ret' = IF d < steps THEN "provider_error"
                   ELSE IF Msb(ar) = IV THEN "ok" ELSE "integrity"
         /\ Finished("unwrap", before, IF ret' = "ok" THEN before \o Plain(ar) ELSE before)

\* CNG imports the input as an AES key and exports it wrapped.
bcrypt_finalize_encryption(before, space) ==
  /\ UNCHANGED working_buffer
  /\ \/ ret' = "provider_error" /\ Finished("wrap", before, before)
     \/ /\ BCryptImports(working_buffer)
        /\ ~Fits(space, Len(working_buffer) + Block)
        /\ ret' = "short_buffer" /\ Finished("wrap", before, before)
     \/ /\ BCryptImports(working_buffer)
        /\ Fits(space, Len(working_buffer) + Block)
        /\ ret' = "ok" /\ Finished("wrap", before, before \o RFC3394_Wrap(working_buffer))

\* The exported key comes with a header; the room asked for counts it too.
bcrypt_finalize_decryption(before, space) ==
  LET size == Len(working_buffer) - Block IN
  /\ UNCHANGED working_buffer
  /\ \/ ret' = "provider_error" /\ Finished("unwrap", before, before)
     \/ /\ Unwraps(working_buffer) /\ size \in KeyLengths
        /\ ~Fits(space, HeaderSize + size)
        /\ ret' = "short_buffer" /\ Finished("unwrap", before, before)
     \/ /\ Unwraps(working_buffer) /\ size \in KeyLengths
        /\ Fits(space, HeaderSize + size)
        /\ ret' = "ok"
        /\ Finished("unwrap", before, before \o Plain(RFC3394_Unwrap(working_buffer)))

\* CommonCrypto gets out->buffer to write to, whatever the buffer already holds.
AtStart(before, result) ==
  [i \in 1..(Len(before) + Len(result)) |->
     IF i <= Len(result) THEN result[i] ELSE IF i <= Len(before) THEN before[i] ELSE Junk]

commoncrypto_finalize(op, before, space, accepted, result) ==
  /\ UNCHANGED working_buffer
  /\ IF working_buffer = <<>>
     THEN ret' = "invalid_state" /\ Finished(op, before, before)
     ELSE IF ~Fits(space, Block + Len(working_buffer))
     THEN ret' = "short_buffer" /\ Finished(op, before, before)
     ELSE \/ ret' = "provider_error" /\ Finished(op, before, before)
          \/ /\ accepted
             /\ ret' = "ok" /\ Finished(op, before, AtStart(before, result))

commoncrypto_finalize_encryption(before, space) ==
  commoncrypto_finalize("wrap", before, space,
                        Wraps(working_buffer), RFC3394_Wrap(working_buffer))

commoncrypto_finalize_decryption(before, space) ==
  commoncrypto_finalize("unwrap", before, space,
                        Unwraps(working_buffer), Plain(RFC3394_Unwrap(working_buffer)))

-----------------------------------------------------------------------------
(* Construction, reset and destruction. *)

\* The inputs the caller may go on with: a key, the last wrap, or that text with
\* its last byte changed.
Inputs ==
  Keys \cup IF wrapped = NoWrap THEN {}
            ELSE LET c == wrapped.text
                 IN {c, [c EXCEPT ![Len(c)] = (@ + 1) % ByteMod]}

NewInput == src' \in Inputs /\ handed' = 0 /\ last' = NoFinalize /\ UNCHANGED wrapped

Nothing ==
  /\ good' = FALSE /\ working_buffer' = <<>> /\ src' = <<>> /\ handed' = 0
  /\ last' = NoFinalize
  /\ UNCHANGED wrapped

Created == life' = "live" /\ good' = TRUE /\ ret' = "ok" /\ working_buffer' = <<>> /\ NewInput

\* libcrypto may refuse the key.
openssl_new ==
  \/ Created
  \/ life' = "none" /\ ret' = "null" /\ Nothing

\* CNG may refuse it too; then the error path destroys a cipher whose impl is not set.
bcrypt_new ==
  \/ Created
  \/ life' = "crashed" /\ ret' = "null" /\ Nothing

commoncrypto_new == Created

\* The input is dropped; then the key is set up again.

openssl_reset_keeps_input == ret' = "ok" /\ NewInput /\ UNCHANGED working_buffer

openssl_reset ==
  /\ working_buffer' = <<>>
  /\ ret' \in {"ok", "provider_error"}
  /\ NewInput

bcrypt_reset ==
  /\ working_buffer' = <<>>
  /\ ret' \in {"ok", "provider_error"}
  /\ NewInput

\* CommonCrypto gets the key with every call: there is nothing to set up.
commoncrypto_reset == working_buffer' = <<>> /\ ret' = "ok" /\ NewInput

s_destroy ==
  /\ life = "live"
  /\ life' = "none" /\ ret' = "ok" /\ Nothing
  /\ UNCHANGED vtable

-----------------------------------------------------------------------------

aws_aes_keywrap_256_new(v) ==
  /\ life = "none"
  /\ vtable' = v
  /\ \/ v = "openssl" /\ openssl_new
     \/ v = "bcrypt" /\ bcrypt_new
     \/ v = "commoncrypto" /\ commoncrypto_new

reset ==
  \/ vtable = "openssl" /\ openssl_reset
  \/ vtable = "bcrypt" /\ bcrypt_reset
  \/ vtable = "commoncrypto" /\ commoncrypto_reset

finalize_encryption(before, space) ==
  \/ vtable = "openssl" /\ openssl_finalize_encryption(before, space)
  \/ vtable = "bcrypt" /\ bcrypt_finalize_encryption(before, space)
  \/ vtable = "commoncrypto" /\ commoncrypto_finalize_encryption(before, space)

finalize_decryption(before, space) ==
  \/ vtable = "openssl" /\ openssl_finalize_decryption(before, space)
  \/ vtable = "bcrypt" /\ bcrypt_finalize_decryption(before, space)
  \/ vtable = "commoncrypto" /\ commoncrypto_finalize_decryption(before, space)

\* What finalize added to the caller's buffer.
Result(l) == SubSeq(l.out, Len(l.before) + 1, Len(l.out))

\* A wrap the caller can use: CommonCrypto's only if the buffer was empty.
Usable(before) == vtable # "commoncrypto" \/ before = <<>>

\* Encrypt and decrypt are the same function here.
Update(k) ==
  /\ handed + k <= Len(src)
  /\ aws_symmetric_cipher_encrypt(k, s_key_wrap_encrypt_decrypt(k), others)
  /\ UNCHANGED vtable

\* The bound on lengths: a text is not wrapped again.
FinalizeEncryption(before, space) ==
  /\ src \in Keys \cup {<<>>}
  /\ aws_symmetric_cipher_finalize_encryption(
       /\ finalize_encryption(before, space)
       /\ wrapped' = IF ret' = "ok" /\ Usable(before)
                     THEN [key |-> Input, text |-> Result(last'), by |-> vtable]
                     ELSE wrapped
       /\ UNCHANGED <<src, handed>>, others)
  /\ UNCHANGED vtable

FinalizeDecryption(before, space) ==
  /\ aws_symmetric_cipher_finalize_decryption(
       finalize_decryption(before, space) /\ UNCHANGED <<src, handed, wrapped>>, others)
  /\ UNCHANGED vtable

Reset == aws_symmetric_cipher_reset(reset, FALSE) /\ UNCHANGED vtable

Next ==
  \/ \E v \in Vtables : aws_aes_keywrap_256_new(v)
  \/ \E k \in 0..IntMax : Update(k)
  \/ \E before \in Befores, space \in Spaces :
       \/ FinalizeEncryption(before, space)
       \/ FinalizeDecryption(before, space)
  \/ Reset
  \/ s_destroy

Spec == Init /\ [][Next]_vars

-----------------------------------------------------------------------------
(* Properties. *)

\* t is truncated to a byte, so the in-place code counts as the RFC does only as
\* long as the last step number fits in one.
CountsInAByte(p) == WrapSteps(p) < ByteMod

\* Unwrapping what a wrap produced gives the key back: the integrity check of
\* openssl_aes.c passes, whichever back end made the text, the loop that runs R
\* backwards restores the bytes the forward loop mixed, and nothing of an earlier message
\* is still in the buffer that collects the input.  Holds for keys of whole
\* blocks, the truncated t of long keys included when one back end does both.
RoundTrip ==
  /\ last.op = "unwrap" /\ last.in = wrapped.text
  /\ Aligned(wrapped.key)
  /\ vtable = wrapped.by \/ CountsInAByte(wrapped.key)
  /\ Usable(last.before)
  => /\ last.ret # "integrity"
     /\ last.ret = "ok" => Result(last) = wrapped.key

\* The in-place loop of openssl_aes.c, with its j, i and moving r, computes what the
\* shift-register statement of RFC 3394 does, so every back end accepts the text.
WrapIsRfc3394 ==
  /\ wrapped # NoWrap
  /\ Aligned(wrapped.key) /\ CountsInAByte(wrapped.key)
  => wrapped.text = RFC3394_Wrap(wrapped.key) /\ Unwraps(wrapped.text)

\* An unwrap that succeeds was given the wrap of what it returns: a changed text, or
\* one that never was a wrap, is refused by the comparison of A with the integrity value.
AcceptedWasWrapped ==
  /\ last.op = "unwrap" /\ last.ret = "ok" /\ Usable(last.before)
  => last.in = IF vtable = "openssl"
               THEN WrapLoop(Result(last), WrapSteps(Result(last)))
               ELSE RFC3394_Wrap(Result(last))

\* finalize appends: the caller's earlier bytes stay, an unwrap that fails adds none,
\* and neither does a wrap that fails before the provider is called.  (And the state has
\* its type.)
OutputAppended ==
  /\ TypeOK
  /\ Usable(last.before) => SubSeq(last.out, 1, Len(last.before)) = last.before
  /\ last.ret # "ok" /\ (last.op = "unwrap" \/ last.ret # "provider_error")
     => last.out = last.before
=============================================================================
