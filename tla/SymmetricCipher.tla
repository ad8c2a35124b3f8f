-------------------------- MODULE SymmetricCipher --------------------------
(***************************************************************************)
(* The front end of the symmetric ciphers, source/symmetric_cipher.c: the  *)
(* part every back end shares.  A call is checked against the input limit  *)
(* and the good flag and then dispatched through the vtable; the vtable    *)
(* entry is the parameter Vtable, an action of the back end's module.      *)
(***************************************************************************)
EXTENDS ByteSpans

CONSTANTS
  Block,    \* AWS_AES_256_CIPHER_BLOCK_SIZE, 16 in the code
  IntMax    \* INT_MAX, the limit libcrypto's int lengths impose

ASSUME BlockAssumption == Block \in Nat \ {0}
ASSUME IntMaxAssumption == IntMax \in Nat

VARIABLES
  life,     \* "none", "live", or "crashed" after an invalid memory access
  good,     \* cipher->good
  ret       \* what the last call returned, or the error it raised

Lives == {"none", "live", "crashed"}
Returns == {"ok", "null", "too_large", "invalid_state", "short_buffer",
            "provider_error", "counter_overflow", "integrity"}

\* The errors after which a back end clears the good flag.
Fatal == {"provider_error", "counter_overflow"}

\* A buffer with room for `space` more bytes; a dynamic buffer has unlimited room.
aws_symmetric_cipher_try_ensure_sufficient_buffer_space(space, size) == size <= space

s_check_input_size_limits(len) == len <= IntMax - Block

\* encrypt and decrypt: the size limit is checked before the good flag.
aws_symmetric_cipher_encrypt(len, Vtable, others) ==
  /\ life = "live"
  /\ \/ /\ ~s_check_input_size_limits(len)
        /\ ret' = "too_large"
        /\ UNCHANGED <<life, good, others>>
     \/ /\ s_check_input_size_limits(len)
        /\ ~good
        /\ ret' = "invalid_state"
        /\ UNCHANGED <<life, good, others>>
     \/ /\ s_check_input_size_limits(len)
        /\ good
        /\ Vtable
        /\ good' = (ret' \notin Fatal)
        /\ UNCHANGED life

aws_symmetric_cipher_decrypt(len, Vtable, others) ==
  aws_symmetric_cipher_encrypt(len, Vtable, others)

\* Whatever finalize returns, the cipher is not good until it is reset.
aws_symmetric_cipher_finalize_encryption(Vtable, others) ==
  /\ life = "live"
  /\ \/ /\ ~good
        /\ ret' = "invalid_state"
        /\ UNCHANGED <<life, good, others>>
     \/ /\ good
        /\ Vtable
        /\ good' = FALSE
        /\ UNCHANGED life

aws_symmetric_cipher_finalize_decryption(Vtable, others) ==
  aws_symmetric_cipher_finalize_encryption(Vtable, others)

\* The back end says in goodOnError what a failed reset leaves in the flag.
aws_symmetric_cipher_reset(Vtable, goodOnError) ==
  /\ life = "live"
  /\ Vtable
  /\ good' = IF ret' = "ok" THEN TRUE ELSE goodOnError
  /\ UNCHANGED life
=============================================================================
