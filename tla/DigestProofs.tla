---------------------------- MODULE DigestProofs ----------------------------
(***************************************************************************)
(* Proofs about Digest, for every digest size, every width of the lengths  *)
(* and every bound: one digest of all the input, errors that are final     *)
(* unless it was the room, and a one-shot function that always completes.  *)
(***************************************************************************)
EXTENDS Digest, ByteSpansProofs

-----------------------------------------------------------------------------
(* The inductive invariant. *)

\* No update has been cut short by the width of a length.
Counted == ~(vtable.narrow /\ long)

\* The provider has taken all of the input, and a digest is over what it has taken.
AllTaken ==
  vtable # None /\ Counted =>
    absorbed = Span(0, fed) /\ \A i \in DOMAIN digests : digests[i].over = Span(0, fed)

\* A hash that is good has not written its digest.
GoodIsUnfinished == good => vtable # None /\ digests = <<>>

\* A digest fits the buffer it was written to, and there is at most one.
DigestFits == Len(digests) <= 1 /\ \A i \in DOMAIN digests : digests[i].len <= digests[i].room

\* Where the one-shot function is tells what the hash is like; before it destroys the hash
\* it is bound to return success exactly if there is a digest.
OneShotState ==
  /\ oneshot # "none" => vtable # None
  /\ oneshot \in {"update", "finalize"} => good
  /\ oneshot = "destroy" => (ret = "ok" <=> Len(digests) = 1)

IInv ==
  /\ TypeOK
  /\ AllTaken
  /\ GoodIsUnfinished
  /\ DigestFits
  /\ OneShotState

-----------------------------------------------------------------------------
(* The back ends. *)

\* No back end is mistaken for the absence of one.
LEMMA VtableType == \A v \in Vtables : v # None /\ v \in Vtables \cup {None}
  BY DEF Vtables, None, opensslcrypto_hash, opensslcrypto_hmac, bcrypt_hash, bcrypt_hmac,
         commoncrypto_md5, commoncrypto_sha1, commoncrypto_sha256, commoncrypto_hmac

\* A length below 2^32 reaches the provider as it is.
LEMMA ModSmall ==
  ASSUME NEW k \in Nat, k < LenMod
  PROVE  k % LenMod = k
<1>1. LenMod \in Nat \ {0}
  BY DigestAssumption
<1> QED
  BY <1>1

\* The provider takes a number of bytes, all of them unless a narrow length was exceeded.
LEMMA TakenRange ==
  ASSUME NEW k \in Nat
  PROVE  Taken(k) \in Nat /\ (~(vtable.narrow /\ k >= LenMod) => Taken(k) = k)
<1>1. LenMod \in Nat \ {0}
  BY DigestAssumption
<1>2. k % LenMod \in 0..(LenMod - 1)
  BY <1>1, ModRange
<1>3. Taken(k) \in Nat
  BY <1>1, <1>2 DEF Taken
<1>4. ASSUME ~(vtable.narrow /\ k >= LenMod)
      PROVE  Taken(k) = k
  <2>1. CASE ~vtable.narrow
    BY <2>1 DEF Taken
  <2>2. CASE ~(k >= LenMod)
    <3>1. k < LenMod
      BY <1>1, <2>2
    <3>2. k % LenMod = k
      BY <3>1, ModSmall, Zenon
    <3> QED
      BY <3>2 DEF Taken
  <2> QED
    BY <1>4, <2>1, <2>2
<1> QED
  BY <1>3, <1>4

-----------------------------------------------------------------------------
(* The calls. *)

\* An update keeps all of the invariant but what concerns the one-shot function.
LEMMA UpdateKeeps ==
  ASSUME IInv, NEW k \in Nat, s_update(k), oneshot' \in {"none", "update", "finalize", "destroy"}
  PROVE  /\ TypeOK' /\ AllTaken' /\ GoodIsUnfinished' /\ DigestFits'
         /\ vtable' # None /\ UNCHANGED digests
         /\ ret' = "ok" => good' /\ good /\ digests = <<>>
         /\ good => digests = <<>>
<1>1. /\ TypeOK /\ vtable # None /\ UNCHANGED <<vtable, digests>> /\ (good => digests = <<>>)
  BY DEF IInv, s_update, GoodIsUnfinished
<1>2. DigestFits'
  BY <1>1 DEF IInv, DigestFits
<1>3. CASE /\ ret' \in {"invalid_state", "provider_error"} /\ ~good'
           /\ UNCHANGED <<absorbed, fed, long>>
  <2>1. TypeOK'
    <3>1. good' \in BOOLEAN /\ long' \in BOOLEAN
      BY <1>1, <1>3, Zenon DEF TypeOK, s_update
    <3> QED
      BY <1>1, <1>3, <3>1 DEF TypeOK
  <2>2. AllTaken' /\ GoodIsUnfinished'
    BY <1>1, <1>3 DEF IInv, AllTaken, Counted, GoodIsUnfinished
  <2> QED
    BY <1>1, <1>2, <1>3, <2>1, <2>2
<1>4. CASE /\ good /\ ret' = "ok"
           /\ absorbed' = absorbed \o Span(fed, fed + Taken(k))
           /\ fed' = fed + k
           /\ long' = (long \/ k >= LenMod)
           /\ UNCHANGED good
  <2>1. fed \in Nat /\ absorbed \in Seq(Nat) /\ digests = <<>>
    BY <1>1, <1>4 DEF TypeOK
  <2>2. Taken(k) \in Nat /\ (~(vtable.narrow /\ k >= LenMod) => Taken(k) = k)
    BY TakenRange, Zenon
  <2>3. absorbed' \in Seq(Nat)
    <3>1. fed + Taken(k) \in Nat /\ fed <= fed + Taken(k)
      BY <2>1, <2>2
    <3>2. Span(fed, fed + Taken(k)) \in Seq(Nat)
      BY <2>1, <3>1, SpanType, Zenon
    <3>3. absorbed \o Span(fed, fed + Taken(k)) \in Seq(Nat)
      BY <2>1, <3>2, ConcatNat, Zenon
    <3> QED
      BY <1>4, <3>3
  <2>4. TypeOK'
    <3>1. good' \in BOOLEAN /\ long' \in BOOLEAN
      BY <1>1, <1>4, Zenon DEF TypeOK
    <3>2. fed' \in Nat
      BY <1>4, <2>1
    <3> QED
      BY <1>1, <1>4, <2>3, <3>1, <3>2 DEF TypeOK
  <2>5. AllTaken'
    <3> SUFFICES ASSUME Counted'
                 PROVE  /\ absorbed' = Span(0, fed')
                        /\ \A i \in DOMAIN digests' : digests'[i].over = Span(0, fed')
      BY DEF AllTaken
    <3>1. Counted /\ ~(vtable.narrow /\ k >= LenMod)
      BY <1>1, <1>4, Zenon DEF Counted
    <3>2. absorbed = Span(0, fed) /\ Taken(k) = k
      BY <1>1, <2>2, <3>1 DEF IInv, AllTaken
    <3>3. Span(0, fed) \o Span(fed, fed + k) = Span(0, fed + k)
      BY <2>1, SpanConcat, Zenon
    <3>4. DOMAIN digests' = {}
      BY <1>1, <2>1
    <3> QED
      BY <1>4, <3>2, <3>3, <3>4
  <2>6. GoodIsUnfinished'
    BY <1>1, <2>1 DEF GoodIsUnfinished
  <2> QED
    BY <1>1, <1>2, <1>4, <2>1, <2>4, <2>5, <2>6
<1> QED
  BY <1>3, <1>4 DEF s_update

\* What finalize does, truncating or not: it is refused and changes nothing, the provider
\* fails, or the digest of what was taken is written into enough room.
FinalizeEffect ==
  /\ vtable # None /\ UNCHANGED <<vtable, absorbed, fed, long>>
  /\ \/ ret' \in {"invalid_state", "short_buffer"} /\ UNCHANGED <<good, digests>>
     \/ good /\ ret' = "provider_error" /\ good' = FALSE /\ UNCHANGED digests
     \/ /\ good /\ ret' = "ok" /\ good' = FALSE
        /\ \E len, room \in Nat :
             /\ len <= room
             /\ digests' = Append(digests, [over |-> absorbed, len |-> len, room |-> room])

\* That is what the two finalize functions do, for any truncate_to.
LEMMA FinalizeOutcome ==
  ASSUME NEW space \in Nat, NEW t \in Nat, Finalize(space, t)
  PROVE  FinalizeEffect
<1>1. DigestSize \in Nat \ {0}
  BY DigestAssumption
<1>2. aws_hash_finalize(space, t)
  BY DEF Finalize, aws_hmac_finalize
<1>3. CASE t # 0 /\ t < DigestSize /\ space >= t /\ s_finalize(DigestSize, t, space)
  <2>1. t <= space
    BY <1>3
  <2> QED
    BY <1>2, <1>3, <2>1 DEF aws_hash_finalize, s_finalize, FinalizeEffect
<1>4. CASE s_finalize(space, DigestSize, space)
  <2>1. ret' = "ok" => DigestSize <= space
    BY <1>1, <1>4 DEF s_finalize
  <2> QED
    BY <1>1, <1>2, <1>4, <2>1 DEF aws_hash_finalize, s_finalize, FinalizeEffect
<1>5. CASE ret' = "short_buffer" /\ UNCHANGED <<good, digests>>
  BY <1>2, <1>5 DEF aws_hash_finalize, FinalizeEffect
<1> QED
  BY <1>2, <1>3, <1>4, <1>5 DEF aws_hash_finalize

\* A finalize keeps all of the invariant but what concerns the one-shot function.
LEMMA FinalizeKeeps ==
  ASSUME IInv, FinalizeEffect, oneshot' \in {"none", "update", "finalize", "destroy"}
  PROVE  /\ TypeOK' /\ AllTaken' /\ GoodIsUnfinished' /\ DigestFits' /\ vtable' # None
         /\ good => (ret' = "ok" <=> Len(digests') = 1)
<1>1. /\ TypeOK /\ vtable # None /\ UNCHANGED <<vtable, absorbed, fed, long>>
      /\ good => digests = <<>>
  BY DEF IInv, FinalizeEffect, GoodIsUnfinished
<1>2. Len(<<>>) = 0
  BY EmptySeq
<1>3. CASE /\ ret' \in {"invalid_state", "short_buffer", "provider_error"}
           /\ good' = good \/ good' = FALSE
           /\ UNCHANGED digests
  <2>1. good' \in BOOLEAN /\ (good' => good)
    <3>1. good \in BOOLEAN
      BY <1>1, Zenon DEF TypeOK
    <3>2. CASE good' = good
      BY <3>1, <3>2, Zenon
    <3>3. CASE good' = FALSE
      BY <3>3, Zenon
    <3> QED
      BY <1>3, <3>2, <3>3, Zenon
  <2>2. TypeOK'
    BY <1>1, <1>3, <2>1 DEF TypeOK
  <2>3. AllTaken' /\ DigestFits'
    BY <1>1, <1>3 DEF IInv, AllTaken, Counted, DigestFits
  <2>4. GoodIsUnfinished'
    BY <1>1, <1>3, <2>1 DEF GoodIsUnfinished
  <2>5. good => Len(digests') = 0
    BY <1>1, <1>2, <1>3
  <2> QED
    BY <1>1, <1>3, <2>2, <2>3, <2>4, <2>5
<1>4. CASE /\ good /\ ret' = "ok" /\ good' = FALSE
           /\ \E len, room \in Nat :
                /\ len <= room
                /\ digests' = Append(digests, [over |-> absorbed, len |-> len, room |-> room])
  <2>1. PICK len \in Nat, room \in Nat :
          /\ len <= room
          /\ digests' = Append(digests, [over |-> absorbed, len |-> len, room |-> room])
    BY <1>4
  <2> DEFINE D == [over : Seq(Nat), len : Nat, room : Nat]
             e == [over |-> absorbed, len |-> len, room |-> room]
  <2>2. e \in D /\ e.over = absorbed /\ e.len <= e.room
    BY <1>1, <2>1 DEF TypeOK
  <2>3. digests = <<>> /\ digests' = Append(<<>>, e) /\ <<>> \in Seq(D)
    BY <1>1, <1>4, <2>1, EmptySeq
  <2> HIDE DEF D, e
  <2>4. digests' \in Seq(D) /\ Len(digests') = 1 /\ \A i \in DOMAIN digests' : digests'[i] = e
    <3>1. /\ Append(<<>>, e) \in Seq(D) /\ Len(Append(<<>>, e)) = Len(<<>>) + 1
          /\ \A i \in DOMAIN Append(<<>>, e) :
               \/ i \in DOMAIN <<>> /\ i <= Len(<<>>) /\ Append(<<>>, e)[i] = <<>>[i]
               \/ i = Len(<<>>) + 1 /\ Append(<<>>, e)[i] = e
      BY <2>2, <2>3, AppendLast, Zenon
    <3>2. DOMAIN <<>> = {} /\ Len(<<>>) + 1 = 1
      BY <1>2
    <3> QED
      BY <2>3, <3>1, <3>2
  <2>5. TypeOK'
    <3>1. good' \in BOOLEAN
      BY <1>4, Zenon
    <3> QED
      BY <1>1, <1>4, <2>4, <3>1 DEF TypeOK, D
  <2>6. AllTaken'
    BY <1>1, <2>2, <2>4 DEF IInv, AllTaken, Counted
  <2>7. DigestFits' /\ GoodIsUnfinished'
    BY <1>4, <2>2, <2>4 DEF DigestFits, GoodIsUnfinished
  <2> QED
    BY <1>1, <1>4, <2>4, <2>5, <2>6, <2>7
<1> QED
  BY <1>3, <1>4, Zenon DEF FinalizeEffect

\* A new hash satisfies the invariant, and so does the lack of one after a failure.
LEMMA NewKeeps ==
  ASSUME IInv, NEW v \in Vtables, New(v)
  PROVE  IInv'
<1>1. v # None /\ v \in Vtables \cup {None}
  BY VtableType
<1>2. /\ vtable = None /\ fed' = 0 /\ long' = FALSE /\ absorbed' = <<>> /\ digests' = <<>>
      /\ oneshot' \in {"none", "update"} /\ (ret' # "ok" => oneshot' = "none")
      /\ \/ vtable' = v /\ good' = TRUE /\ ret' = "ok"
         \/ vtable' = None /\ good' = FALSE /\ ret' = "null"
  BY DEF New, aws_hash_new
<1>3. /\ <<>> \in Seq(Nat) /\ <<>> \in Seq([over : Seq(Nat), len : Nat, room : Nat])
      /\ Len(<<>>) = 0 /\ DOMAIN <<>> = {} /\ Span(0, 0) = <<>>
  BY EmptySeq, SpanEmpty
<1>4. TypeOK'
  <2>1. good' \in BOOLEAN /\ long' \in BOOLEAN
    BY <1>2, Zenon
  <2> QED
    BY <1>1, <1>2, <1>3, <2>1 DEF TypeOK
<1>5. AllTaken' /\ DigestFits'
  BY <1>2, <1>3 DEF AllTaken, DigestFits
<1>6. GoodIsUnfinished' /\ OneShotState'
  <2>1. GoodIsUnfinished'
    BY <1>1, <1>2, Zenon DEF GoodIsUnfinished
  <2>2. oneshot' # "destroy" /\ oneshot' # "finalize"
    BY <1>2
  <2>3. ret' = "null" => ret' # "ok"
    OBVIOUS
  <2> QED
    BY <1>1, <1>2, <2>1, <2>2, <2>3, Zenon DEF OneShotState
<1> QED
  BY <1>4, <1>5, <1>6 DEF IInv

\* Destroying a hash keeps the invariant.
LEMMA DestroyKeeps ==
  ASSUME IInv, aws_hash_destroy, oneshot' = "none",
         ret' \in {"ok", "null", "invalid_state", "short_buffer", "provider_error"}
  PROVE  IInv'
<1>1. /\ vtable' = None /\ good' = FALSE /\ UNCHANGED <<absorbed, fed, long, digests>>
  BY DEF aws_hash_destroy
<1>2. TypeOK'
  <2>1. good' \in BOOLEAN /\ long' \in BOOLEAN
    BY <1>1, Zenon DEF IInv, TypeOK
  <2> QED
    BY <1>1, <2>1 DEF IInv, TypeOK
<1>3. AllTaken' /\ DigestFits' /\ GoodIsUnfinished' /\ OneShotState'
  BY <1>1 DEF IInv, AllTaken, DigestFits, GoodIsUnfinished, OneShotState
<1> QED
  BY <1>2, <1>3 DEF IInv

\* Each call of the one-shot function keeps the invariant.
LEMMA OneShotKeeps ==
  ASSUME IInv, NEW k \in Nat, NEW space \in Nat, NEW t \in Nat, OneShot(k, space, t)
  PROVE  IInv'
<1>1. compute_hash(k, space, t)
  BY DEF OneShot, aws_sha256_hmac_compute
<1>2. CASE /\ oneshot = "update" /\ s_update(k)
           /\ oneshot' = IF ret' = "ok" THEN "finalize" ELSE "destroy"
  <2>1. oneshot' \in {"none", "update", "finalize", "destroy"}
    BY <1>2
  <2>2. /\ TypeOK' /\ AllTaken' /\ GoodIsUnfinished' /\ DigestFits'
        /\ vtable' # None /\ UNCHANGED digests
        /\ ret' = "ok" => good' /\ good /\ digests = <<>>
        /\ good => digests = <<>>
    BY <1>2, <2>1, UpdateKeeps, Zenon
  <2>3. good /\ Len(<<>>) = 0
    BY <1>2, EmptySeq DEF IInv, OneShotState
  <2>4. OneShotState'
    BY <1>2, <2>2, <2>3 DEF OneShotState
  <2> QED
    BY <2>2, <2>4 DEF IInv
<1>3. CASE oneshot = "finalize" /\ Finalize(space, t) /\ oneshot' = "destroy"
  <2>1. oneshot' \in {"none", "update", "finalize", "destroy"} /\ FinalizeEffect
    BY <1>3, FinalizeOutcome
  <2>2. /\ TypeOK' /\ AllTaken' /\ GoodIsUnfinished' /\ DigestFits' /\ vtable' # None
        /\ good => (ret' = "ok" <=> Len(digests') = 1)
    BY <2>1, FinalizeKeeps, Zenon
  <2>3. OneShotState'
    BY <1>3, <2>2 DEF IInv, OneShotState
  <2> QED
    BY <2>2, <2>3 DEF IInv
<1>4. CASE oneshot = "destroy" /\ aws_hash_destroy /\ oneshot' = "none" /\ UNCHANGED ret
  <2>1. ret' \in {"ok", "null", "invalid_state", "short_buffer", "provider_error"}
    BY <1>4 DEF IInv, TypeOK
  <2> QED
    BY <1>4, <2>1, DestroyKeeps
<1> QED
  BY <1>1, <1>2, <1>3, <1>4 DEF compute_hash

-----------------------------------------------------------------------------
(* The theorems. *)

\* The bounds of the model on the arguments of a call.
LEMMA ArgumentTypes ==
  (\A k \in 0..MaxChunk : k \in Nat) /\ Spaces \subseteq Nat /\ Truncs \subseteq Nat
  BY DigestAssumption

\* Every step preserves the invariant.
LEMMA NextKeeps ==
  ASSUME IInv, [Next]_vars
  PROVE  IInv'
<1>1. ASSUME NEW k \in 0..MaxChunk, oneshot = "none", UNCHANGED oneshot, s_update(k)
      PROVE  IInv'
  <2>1. k \in Nat /\ oneshot' \in {"none", "update", "finalize", "destroy"}
    BY <1>1, ArgumentTypes
  <2>2. TypeOK' /\ AllTaken' /\ GoodIsUnfinished' /\ DigestFits'
    BY <1>1, <2>1, UpdateKeeps, Zenon
  <2>3. OneShotState'
    BY <1>1 DEF OneShotState
  <2> QED
    BY <2>2, <2>3 DEF IInv
<1>2. ASSUME NEW space \in Spaces, NEW t \in Truncs, oneshot = "none", UNCHANGED oneshot,
             Finalize(space, t)
      PROVE  IInv'
  <2>1. /\ space \in Nat /\ t \in Nat
        /\ oneshot' \in {"none", "update", "finalize", "destroy"}
    BY <1>2, ArgumentTypes
  <2>2. FinalizeEffect
    BY <1>2, <2>1, FinalizeOutcome, Zenon
  <2>3. TypeOK' /\ AllTaken' /\ GoodIsUnfinished' /\ DigestFits'
    BY <2>1, <2>2, FinalizeKeeps, Zenon
  <2>4. OneShotState'
    BY <1>2 DEF OneShotState
  <2> QED
    BY <2>3, <2>4 DEF IInv
<1>3. ASSUME NEW k \in 0..MaxChunk, NEW space \in Spaces, NEW t \in Truncs, OneShot(k, space, t)
      PROVE  IInv'
  <2>1. k \in Nat /\ space \in Nat /\ t \in Nat
    BY ArgumentTypes
  <2> QED
    BY <1>3, <2>1, OneShotKeeps, Zenon
<1>4. ASSUME NEW v \in Vtables, New(v)
      PROVE  IInv'
  BY <1>4, NewKeeps, Zenon
<1>5. CASE Streaming(aws_hash_destroy /\ ret' = "ok")
  BY <1>5, DestroyKeeps DEF Streaming
<1>6. CASE UNCHANGED vars
  <2>1. UNCHANGED <<vtable, good, absorbed, oneshot, ret, fed, long, digests>>
    BY <1>6 DEF vars
  <2> QED
    BY <2>1 DEF IInv, TypeOK, AllTaken, Counted, GoodIsUnfinished, DigestFits, OneShotState
<1> QED
  BY <1>1, <1>2, <1>3, <1>4, <1>5, <1>6 DEF Next, Streaming

\* The invariant holds before there is a hash.
LEMMA InitInv == Init => IInv
<1>1. /\ <<>> \in Seq(Nat) /\ <<>> \in Seq([over : Seq(Nat), len : Nat, room : Nat])
      /\ Len(<<>>) = 0 /\ DOMAIN <<>> = {} /\ 0 \in Nat /\ 0 <= 1
  BY EmptySeq
<1>2. Init => TypeOK
  BY <1>1, Zenon DEF Init, TypeOK
<1>3. Init => AllTaken /\ GoodIsUnfinished /\ DigestFits /\ OneShotState
  BY <1>1 DEF Init, AllTaken, GoodIsUnfinished, DigestFits, OneShotState
<1> QED
  BY <1>2, <1>3 DEF IInv

\* The invariant holds in every reachable state.
THEOREM Inductive == Spec => []IInv
<1>1. Init => IInv
  BY InitInv
<1>2. IInv /\ [Next]_vars => IInv'
  BY NextKeeps
<1> QED
  BY <1>1, <1>2, PTL DEF Spec

\* A hash or HMAC writes at most one digest, over everything its updates held, into a buffer
\* it fits, for every digest size, every truncation and every way the input was cut.
THEOREM DigestOfAllInput == Spec => []OneDigestOfAllInput
<1>1. IInv => OneDigestOfAllInput
  BY DEF IInv, AllTaken, Counted, GoodIsUnfinished, DigestFits, OneDigestOfAllInput
<1> QED
  BY <1>1, Inductive, PTL

\* An error for lack of room changes nothing of the hash, one of the provider ends it, and
\* nothing but a new hash is good again.
THEOREM ErrorsAreFinal == Spec => ErrorsAreFinalExceptRoom
<1> DEFINE Final == /\ ret' = "short_buffer" /\ vtable' # None =>
                         UNCHANGED <<vtable, good, absorbed, digests>>
                    /\ ret' = "provider_error" /\ vtable' # None => ~good'
                    /\ ~good /\ good' => vtable = None
<1>1. ASSUME NEW k, s_update(k)
      PROVE  Final
  BY <1>1 DEF s_update
<1>2. ASSUME NEW space \in Nat, NEW t \in Nat, Finalize(space, t)
      PROVE  Final
  <2>1. FinalizeEffect
    BY <1>2, FinalizeOutcome, Zenon
  <2> QED
    BY <2>1 DEF FinalizeEffect
<1>3. ASSUME aws_hash_destroy
      PROVE  Final
  BY <1>3 DEF aws_hash_destroy
<1>4. ASSUME NEW v \in Vtables, New(v)
      PROVE  Final
  BY <1>4 DEF New, aws_hash_new
<1> HIDE DEF Final
<1>5. ASSUME NEW k, NEW space \in Nat, NEW t \in Nat, OneShot(k, space, t)
      PROVE  Final
  <2>1. compute_hash(k, space, t)
    BY <1>5 DEF OneShot, aws_sha256_hmac_compute
  <2> QED
    BY <2>1, <1>1, <1>2, <1>3 DEF compute_hash
<1>6. Next => Final
  BY <1>1, <1>2, <1>3, <1>4, <1>5, ArgumentTypes DEF Next, Streaming
<1>7. [Next]_vars => [Final]_vars
  BY <1>6
<1>8. [][Next]_vars => [][Final]_vars
  BY <1>7, PTL
<1> QED
  BY <1>8 DEF Spec, ErrorsAreFinalExceptRoom, Final

\* Whatever fails, the one-shot functions leave no hash behind and return success exactly
\* when they have written a digest.
THEOREM OneShotIsComplete == Spec => OneShotCompletes
<1> DEFINE Completes == oneshot # "none" /\ oneshot' = "none" =>
                          vtable' = None /\ (ret' = "ok" <=> Len(digests') = 1)
<1>1. ASSUME IInv, Next, oneshot # "none", oneshot' = "none"
      PROVE  vtable' = None /\ (ret' = "ok" <=> Len(digests') = 1)
  <2>1. vtable # None
    BY <1>1 DEF IInv, OneShotState
  <2>2. ~Streaming(TRUE) /\ \A v \in Vtables : ~New(v)
    BY <1>1, <2>1 DEF Streaming, New, aws_hash_new
  <2>3. \E k \in 0..MaxChunk, space \in Spaces, t \in Truncs : compute_hash(k, space, t)
    BY <1>1, <2>2 DEF Next, Streaming, OneShot, aws_sha256_hmac_compute
  <2>4. oneshot = "destroy" /\ aws_hash_destroy /\ UNCHANGED ret
    BY <1>1, <2>3 DEF compute_hash
  <2> QED
    BY <1>1, <2>4 DEF aws_hash_destroy, IInv, OneShotState
<1>2. IInv /\ [Next]_vars => [Completes]_vars
  BY <1>1
<1> QED
  BY <1>2, Inductive, PTL DEF Spec, OneShotCompletes, Completes
=============================================================================
