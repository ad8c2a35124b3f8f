------------------------------- MODULE Digest -------------------------------
(***************************************************************************)
(* Hashes and HMACs: the front ends source/hash.c and source/hmac.c, which *)
(* are the same code for two types, over the eight back ends.  The caller  *)
(* either streams (new, update, finalize, destroy) or uses the one-shot    *)
(* function, which makes the same four calls.                              *)
(*                                                                         *)
(* The bytes of the input are numbered, and the provider's running state   *)
(* is the sequence of bytes it has taken; a digest is identified by the    *)
(* bytes it is over.  fed, long and digests are history variables.         *)
(***************************************************************************)
EXTENDS ByteSpans

CONSTANTS
  DigestSize,   \* hash->digest_size
  LenMod,       \* 2^32: lengths passed as ULONG or CC_LONG are reduced by it
  MaxChunk,     \* bound: longest input of one update
  MaxFed,       \* bound: longest input
  Truncs,       \* the values of truncate_to a caller may pass
  Spaces        \* the room in the caller's output buffer

ASSUME DigestAssumption ==
  /\ DigestSize \in Nat \ {0} /\ LenMod \in Nat \ {0}
  /\ MaxChunk \in Nat /\ MaxFed \in Nat
  /\ Truncs \subseteq Nat /\ Spaces \subseteq Nat

VARIABLES
  vtable,     \* the back end of the live hash, None when there is none
  good,       \* hash->good
  absorbed,   \* the bytes the provider has taken
  oneshot,    \* the one-shot function's next call, "none" outside it
  ret,        \* what the last call returned
  fed,        \* how many bytes the caller's successful updates held
  long,       \* one of them was LenMod bytes or longer
  digests     \* what this hash has written to output buffers

vars == <<vtable, good, absorbed, oneshot, ret, fed, long, digests>>

-----------------------------------------------------------------------------
(* The back ends differ in whether the provider's calls can fail and in    *)
(* the width of the lengths it takes.                                      *)

opensslcrypto_hash  == [name |-> "opensslcrypto_hash", fails |-> TRUE, narrow |-> FALSE]
opensslcrypto_hmac  == [name |-> "opensslcrypto_hmac", fails |-> TRUE, narrow |-> FALSE]
bcrypt_hash         == [name |-> "bcrypt_hash", fails |-> TRUE, narrow |-> TRUE]
bcrypt_hmac         == [name |-> "bcrypt_hmac", fails |-> TRUE, narrow |-> TRUE]
commoncrypto_md5    == [name |-> "commoncrypto_md5", fails |-> FALSE, narrow |-> TRUE]
commoncrypto_sha1   == [name |-> "commoncrypto_sha1", fails |-> FALSE, narrow |-> TRUE]
commoncrypto_sha256 == [name |-> "commoncrypto_sha256", fails |-> FALSE, narrow |-> TRUE]
commoncrypto_hmac   == [name |-> "commoncrypto_hmac", fails |-> FALSE, narrow |-> TRUE]

Vtables == {opensslcrypto_hash, opensslcrypto_hmac, bcrypt_hash, bcrypt_hmac,
            commoncrypto_md5, commoncrypto_sha1, commoncrypto_sha256, commoncrypto_hmac}
None == [name |-> "none", fails |-> FALSE, narrow |-> FALSE]

TypeOK ==
  /\ vtable \in Vtables \cup {None}
  /\ good \in BOOLEAN /\ long \in BOOLEAN
  /\ absorbed \in Seq(Nat) /\ fed \in Nat
  /\ oneshot \in {"none", "update", "finalize", "destroy"}
  /\ ret \in {"ok", "null", "invalid_state", "short_buffer", "provider_error"}
  /\ digests \in Seq([over : Seq(Nat), len : Nat, room : Nat])

Init ==
  /\ vtable = None /\ good = FALSE /\ absorbed = <<>>
  /\ oneshot = "none" /\ ret = "ok"
  /\ fed = 0 /\ long = FALSE /\ digests = <<>>

-----------------------------------------------------------------------------

aws_hash_new(v) ==
  /\ vtable = None
  /\ fed' = 0 /\ long' = FALSE /\ absorbed' = <<>> /\ digests' = <<>>
  /\ \/ vtable' = v /\ good' = TRUE /\ ret' = "ok"
     \/ v.fails /\ vtable' = None /\ good' = FALSE /\ ret' = "null"

Taken(k) == IF vtable.narrow THEN k % LenMod ELSE k

s_update(k) ==
  /\ vtable # None
  /\ \/ /\ ~good /\ ret' = "invalid_state"
        /\ UNCHANGED <<good, absorbed, fed, long>>
     \/ /\ good /\ ret' = "ok"
        /\ absorbed' = absorbed \o Span(fed, fed + Taken(k))
        /\ fed' = fed + k
        /\ long' = (long \/ k >= LenMod)
        /\ UNCHANGED good
     \/ /\ good /\ vtable.fails /\ ret' = "provider_error"
        /\ good' = FALSE
        /\ UNCHANGED <<absorbed, fed, long>>
  /\ UNCHANGED <<vtable, digests>>

\* Mutants, here and below, are wrong on purpose: each breaks a property.
s_finalize_stays_good(space, len, room) ==
  \/ /\ ~(good /\ space >= DigestSize) /\ ret' = "short_buffer"
     /\ UNCHANGED <<good, digests>>
  \/ /\ good /\ space >= DigestSize /\ ret' = "ok"
     /\ digests' = Append(digests, [over |-> absorbed, len |-> len, room |-> room])
     /\ UNCHANGED good
s_finalize_drops_good_first(space, len, room) ==
  /\ good' = FALSE
  /\ \/ /\ ~(good /\ space >= DigestSize) /\ ret' = "short_buffer"
        /\ UNCHANGED digests
     \/ /\ good /\ space >= DigestSize /\ ret' = "ok"
        /\ digests' = Append(digests, [over |-> absorbed, len |-> len, room |-> room])

\* The back end's finalize, given room for `space` bytes, of whose digest the front
\* end passes on len bytes.
s_finalize(space, len, room) ==
  \/ /\ ~good /\ ret' = "invalid_state"
     /\ UNCHANGED <<good, digests>>
  \/ /\ good /\ space < DigestSize /\ ret' = "short_buffer"
     /\ UNCHANGED <<good, digests>>
  \/ /\ good /\ space >= DigestSize /\ ret' = "ok"
     /\ good' = FALSE
     /\ digests' = Append(digests, [over |-> absorbed, len |-> len, room |-> room])
  \/ /\ good /\ space >= DigestSize /\ vtable.fails /\ ret' = "provider_error"
     /\ good' = FALSE
     /\ UNCHANGED digests

\* A truncated digest goes through a temporary that always has room; the caller's
\* room is checked first, before the good flag.
aws_hash_finalize(space, truncate_to) ==
  /\ vtable # None
  /\ IF truncate_to # 0 /\ truncate_to < DigestSize
     THEN \/ /\ space < truncate_to /\ ret' = "short_buffer"
             /\ UNCHANGED <<good, digests>>
          \/ space >= truncate_to /\ s_finalize(DigestSize, truncate_to, space)
     ELSE s_finalize(space, DigestSize, space)
  /\ UNCHANGED <<vtable, absorbed, fed, long>>

aws_hash_destroy ==
  /\ vtable # None
  /\ vtable' = None /\ good' = FALSE
  /\ UNCHANGED <<absorbed, fed, long, digests>>

\* source/hmac.c repeats source/hash.c for struct aws_hmac.
Hmacs == {opensslcrypto_hmac, bcrypt_hmac, commoncrypto_hmac}
aws_hmac_finalize(space, truncate_to) == aws_hash_finalize(space, truncate_to)
Finalize(space, truncate_to) ==
  IF vtable \in Hmacs THEN aws_hmac_finalize(space, truncate_to)
                      ELSE aws_hash_finalize(space, truncate_to)

compute_hash_leaks(k, space, truncate_to) ==
  \/ /\ oneshot = "update"
     /\ s_update(k)
     /\ oneshot' = IF ret' = "ok" THEN "finalize" ELSE "none"
  \/ /\ oneshot = "finalize"
     /\ Finalize(space, truncate_to)
     /\ oneshot' = "destroy"
  \/ /\ oneshot = "destroy"
     /\ aws_hash_destroy
     /\ oneshot' = "none" /\ UNCHANGED ret

\* The one-shot functions: the remaining calls depend on what the last returned.
compute_hash(k, space, truncate_to) ==
  \/ /\ oneshot = "update"
     /\ s_update(k)
     /\ oneshot' = IF ret' = "ok" THEN "finalize" ELSE "destroy"
  \/ /\ oneshot = "finalize"
     /\ Finalize(space, truncate_to)
     /\ oneshot' = "destroy"
  \/ /\ oneshot = "destroy"
     /\ aws_hash_destroy
     /\ oneshot' = "none" /\ UNCHANGED ret

aws_sha256_hmac_compute(k, space, truncate_to) == compute_hash(k, space, truncate_to)

New(v) ==
  /\ aws_hash_new(v)
  /\ oneshot' = "none" \/ oneshot' = (IF ret' = "ok" THEN "update" ELSE "none")

OneShot(k, space, truncate_to) ==
  IF vtable \in Hmacs THEN aws_sha256_hmac_compute(k, space, truncate_to)
                      ELSE compute_hash(k, space, truncate_to)

Streaming(Call) == oneshot = "none" /\ UNCHANGED oneshot /\ Call

Next ==
  \/ \E v \in Vtables : New(v)
  \/ \E k \in 0..MaxChunk :
       /\ fed + k <= MaxFed
       /\ \/ Streaming(s_update(k))
          \/ \E space \in Spaces, t \in Truncs : OneShot(k, space, t)
  \/ \E space \in Spaces, t \in Truncs : Streaming(Finalize(space, t))
  \/ Streaming(aws_hash_destroy /\ ret' = "ok")

Spec == Init /\ [][Next]_vars

-----------------------------------------------------------------------------
(* Properties. *)

\* However the input was cut into updates, and whatever calls failed for lack of room
\* in between, a hash writes at most one digest, it is over everything its successful
\* updates held, and it fits the buffer.  (Inputs of 4 GiB in one update excepted on
\* the back ends that take a 32-bit length.)  And the state has its type.
OneDigestOfAllInput ==
  /\ TypeOK
  /\ Len(digests) <= 1
  /\ \A i \in DOMAIN digests :
       /\ ~(vtable.narrow /\ long) /\ vtable # None => digests[i].over = Span(0, fed)
       /\ digests[i].len <= digests[i].room
  /\ good => digests = <<>>

\* A finalize that lacks room takes nothing from the hash: the caller can repeat it with
\* a larger buffer.  An error of the provider ends the hash for good.
ErrorsAreFinalExceptRoom ==
  [][/\ ret' = "short_buffer" /\ vtable' # None => UNCHANGED <<vtable, good, absorbed, digests>>
     /\ ret' = "provider_error" /\ vtable' # None => ~good'
     /\ ~good /\ good' => vtable = None]_vars

\* The one-shot functions destroy the hash on every path, and return success exactly
\* when they have written the digest.
OneShotCompletes ==
  [][oneshot # "none" /\ oneshot' = "none" =>
       vtable' = None /\ (ret' = "ok" <=> Len(digests') = 1)]_vars
=============================================================================
