----------------------------- MODULE EccKeyPair -----------------------------
(***************************************************************************)
(* Key pairs as an application has them, source/ecc.c: threads that share  *)
(* one pair (EccKeyRef), on any of the three platforms (OpensslEcc,        *)
(* BcryptEcc, SecurityEcc), and signatures that outlive the pair and the   *)
(* platform they were made on.                                             *)
(*                                                                         *)
(* Where two platforms give a function the same name, the name of the      *)
(* platform follows it.                                                    *)
(*                                                                         *)
(* Calls that read or write the pair are made by threads that hold it.  A  *)
(* call is one step: derive, the only one that writes, is the caller's to  *)
(* serialise.                                                              *)
(***************************************************************************)
EXTENDS EccKeyRef, OpensslEcc, BcryptEcc, SecurityEcc

CONSTANTS
  Backend,        \* of "libcrypto", "windows", "darwin"
  MaxSignatures   \* bound on the signatures kept

VARIABLES
  backend,  \* the platform of the pair
  key,      \* the pair: parts, and the provider's keys
  owned,    \* what is allocated or open
  of,       \* history: the key the pair was made for
  knows,    \* history: the parts the pair was given or has derived
  made,     \* the signatures there are
  last      \* the last call and its result

pairVars == <<backend, key, owned, of, knows>>
vars == <<refVars, pairVars, made, last>>

ASSUME PairAssumption ==
  /\ Backend \subseteq {"libcrypto", "windows", "darwin"}
  /\ MaxSignatures \in Nat
  /\ Infinity \notin Keys

\* Which platform's functions are linked, and what the pair's vtable points to.
Platform(b, libcrypto, windows, darwin) ==
  CASE b = "libcrypto" -> libcrypto [] b = "windows" -> windows [] b = "darwin" -> darwin

Call(op, ret) == [op |-> op, ret |-> ret]
Returns == last.ret # "crash"

Init ==
  /\ RefInit
  /\ backend \in Backend
  /\ key = Blank /\ owned = {} /\ of = NoKey /\ knows = {} /\ made = {}
  /\ last = Call("none", "ok")

-----------------------------------------------------------------------------
(* Constructors. *)

MayConstruct == Returns /\ object = "none" /\ releasing = {}

\* parts: what of key k the caller passes.  A failed constructor gives no reference; the
\* next pair may be on another platform.
Constructed(t, s, b, k, parts, o) ==
  /\ IF o.ret = "ok" THEN NewReference(t, s) ELSE UNCHANGED refVars
  /\ key' = o.key
  /\ owned' = owned \cup o.owned
  /\ of' = IF o.ret = "ok" THEN k ELSE NoKey
  /\ knows' = IF o.ret = "ok" /\ ~o.refused THEN parts ELSE {}
  /\ last' = [op |-> "new", ret |-> o.ret, refused |-> o.refused]
  /\ backend' = b
  /\ UNCHANGED made

aws_ecc_key_pair_new_from_private_key(t, s, b, k) ==
  /\ MayConstruct
  /\ \E d \in {D[k], Trim(D[k])} :
     \E o \in Platform(b, aws_ecc_key_pair_new_from_private_key_impl_libcrypto(CurveOf[k], d),
                         aws_ecc_key_pair_new_from_private_key_impl_windows(CurveOf[k], d),
                         aws_ecc_key_pair_new_from_private_key_impl_darwin(CurveOf[k], d)) :
       Constructed(t, s, b, k, {"priv"}, o)

NewFromPublic(b, curve, x, y) ==
  Platform(b, aws_ecc_key_pair_new_from_public_key_impl_libcrypto(curve, x, y),
              aws_ecc_key_pair_new_from_public_key_impl_windows(curve, x, y),
              aws_ecc_key_pair_new_from_public_key_impl_darwin(curve, x, y))

aws_ecc_key_pair_new_from_public_key(t, s, b, k) ==
  /\ MayConstruct
  /\ \E o \in NewFromPublic(b, CurveOf[k], X[k], Y[k]) : Constructed(t, s, b, k, {"pub"}, o)

\* The two decoded coordinates are released on each path.
FreeHex(o) == [o EXCEPT !.owned = @ \ {"hex_x", "hex_y"}]

\* The digits of a coordinate, or as many as its number has; or something that is not hex.
aws_ecc_key_new_from_hex_coordinates(t, s, b, k) ==
  /\ MayConstruct
  /\ \E x \in {HexDigits(X[k]), Trim(HexDigits(X[k]))} :
     \E o \in {Null({})} \cup
              NewFromPublic(b, CurveOf[k], HexDecode(x), HexDecode(HexDigits(Y[k]))) :
       Constructed(t, s, b, k, {"pub"}, FreeHex([o EXCEPT !.owned = @ \cup {"hex_x", "hex_y"}]))

aws_ecc_key_pair_new_generate_random(t, s, b, k) ==
  /\ MayConstruct
  /\ \E o \in Platform(b, aws_ecc_key_pair_new_generate_random_libcrypto(CurveOf[k]),
                         aws_ecc_key_pair_new_generate_random_windows(CurveOf[k]),
                         aws_ecc_key_pair_new_generate_random_darwin(CurveOf[k])) :
       /\ o.ret = "ok" => o.key.priv = k
       /\ Constructed(t, s, b, k, {"priv", "pub"}, o)

\* Documents of key k, and what they have of it; and documents no key is read from.
Document(k) ==
  {[parses |-> TRUE, tlvs |-> PairDocument(k), has |-> {"priv", "pub"}],
   [parses |-> TRUE, tlvs |-> PrivateDocument(k), has |-> {"priv"}],
   [parses |-> TRUE, tlvs |-> PublicDocument(k), has |-> {"pub"}],
   [parses |-> TRUE, tlvs |-> <<Tlv("octets", D[k])>>, has |-> {}],
   [parses |-> TRUE, tlvs |-> <<CurveOid(k)>>, has |-> {}],
   [parses |-> FALSE, tlvs |-> <<>>, has |-> {}]}

aws_ecc_key_pair_new_from_asn1(t, s, b, k) ==
  /\ MayConstruct
  /\ \E doc \in Document(k) :
     \E o \in Platform(b, aws_ecc_key_pair_new_from_asn1_libcrypto(doc),
                         aws_ecc_key_pair_new_from_asn1_windows(doc),
                         aws_ecc_key_pair_new_from_asn1_darwin(doc)) :
       Constructed(t, s, b, k, doc.has, o)

-----------------------------------------------------------------------------
(* Calls on a pair. *)

aws_ecc_key_pair_derive_public_key(t) ==
  /\ Returns /\ Holds(t)
  /\ \E o \in Platform(backend, s_derive_public_key_libcrypto(key, owned),
                       s_derive_public_key_windows(key, owned),
                       s_derive_public_key_darwin(key, owned)) :
       /\ key' = o.key
       /\ owned' = o.owned
       /\ knows' = IF o.ret = "ok" /\ knows # {} THEN knows \cup {"pub"} ELSE knows
       /\ last' = Call("derive", o.ret)
  /\ UNCHANGED <<refVars, backend, of, made>>

aws_ecc_key_pair_signature_length(b, k) ==
  Platform(b, s_signature_length_libcrypto(k), s_signature_length_windows(k),
              s_signature_length_darwin(k))

\* With the room that is asked for, or less.
aws_ecc_key_pair_sign_message(t) ==
  /\ Returns /\ Holds(t)
  /\ LET length == aws_ecc_key_pair_signature_length(backend, key) IN
     \E room \in {length - 2, length} :
     \E o \in Platform(backend, s_sign_payload(key, owned, room),
                       s_sign_message_windows(key, owned, room),
                       s_sign_message_darwin(key, owned, room)) :
       /\ Cardinality(made \cup o.sig) <= MaxSignatures
       /\ made' = made \cup o.sig
       /\ owned' = o.owned
       /\ last' = [op |-> "sign", ret |-> o.ret, room |-> room, wrote |-> o.wrote]
  /\ UNCHANGED <<refVars, backend, key, of, knows>>

aws_ecc_key_pair_verify_signature(t, sig) ==
  /\ Returns /\ Holds(t)
  /\ \E o \in Platform(backend, s_verify_payload(key, owned, sig),
                       s_verify_signature_windows(key, owned, sig),
                       s_verify_signature_darwin(key, owned, sig)) :
       /\ owned' = o.owned
       /\ last' = [op |-> "verify", ret |-> o.ret, erred |-> o.erred, by |-> sig.by]
  /\ UNCHANGED <<refVars, backend, key, of, knows, made>>

Acquire(t, u, s) ==
  /\ Returns
  /\ aws_ecc_key_pair_acquire(t, u, s)
  /\ last' = Call("acquire", "ok")
  /\ UNCHANGED <<pairVars, made>>

Release(t, s) ==
  /\ Returns
  /\ aws_ecc_key_pair_release(t, s)
  /\ last' = Call("release", "ok")
  /\ UNCHANGED <<pairVars, made>>

Destroy(t) ==
  /\ Returns
  /\ s_aws_ecc_key_pair_destroy(t)
  /\ key' = Blank
  /\ owned' = Platform(backend, s_key_pair_destroy(owned), s_destroy_key_windows(owned),
                                s_destroy_key_darwin(owned))
  /\ of' = NoKey
  /\ knows' = {}
  /\ last' = Call("destroy", "ok")
  /\ UNCHANGED <<backend, made>>

Next ==
  \E t \in Thread :
    \/ Destroy(t)
    \/ aws_ecc_key_pair_derive_public_key(t)
    \/ aws_ecc_key_pair_sign_message(t)
    \/ \E sig \in made : aws_ecc_key_pair_verify_signature(t, sig)
    \/ \E s \in Slot :
         \/ Release(t, s)
         \/ \E u \in Thread : Acquire(t, u, s)
         \/ \E b \in Backend, k \in Keys :
              \/ aws_ecc_key_pair_new_from_private_key(t, s, b, k)
              \/ aws_ecc_key_pair_new_from_public_key(t, s, b, k)
              \/ aws_ecc_key_new_from_hex_coordinates(t, s, b, k)
              \/ aws_ecc_key_pair_new_generate_random(t, s, b, k)
              \/ aws_ecc_key_pair_new_from_asn1(t, s, b, k)

\* Fairness: release runs on to its end on the thread that called it.
Spec == Init /\ [][Next]_vars /\ \A t \in Thread : WF_vars(Destroy(t))

-----------------------------------------------------------------------------
(* Properties. *)

TypeOK ==
  /\ RefTypeOK
  /\ backend \in Backend
  /\ key.curve \in Curves
  /\ key.priv \in Keys \cup {NoKey} /\ key.pub \in Keys \cup {NoKey, Infinity}
  /\ of \in Keys \cup {NoKey}
  /\ knows \subseteq {"priv", "pub"}
  /\ Cardinality(made) <= MaxSignatures

\* ecc.c on every platform.  What a pair shows of itself is the key it was made from, by
\* whatever constructor, document or derivation the part came: the numbers are those of
\* the key, and have the length that the constructors ask for, but for the leading zeros
\* that libcrypto drops.  The provider signs with that key and no other.  (And the state
\* has its type.)
PartsAreTheKeys ==
  LET Shows(part, value) ==
        Same(part, value) /\ (backend # "libcrypto" => Len(part) = Len(value))
  IN  /\ TypeOK
      /\ object = "live" =>
        /\ "pub" \in knows => Shows(key.pub_x, X[of]) /\ Shows(key.pub_y, Y[of])
        /\ "priv" \in knows => Shows(key.priv_d, D[of])
        /\ key.priv \in {NoKey, of}

\* s_sign_* and s_verify_*: a signature made on one platform is accepted on each platform
\* by a pair that has the signer's public key, and by no other pair.  Where it was made
\* and read decides who drops, adds and pads the leading zeros.
SignaturesTravel ==
  last.op = "verify" /\ ~last.erred =>
    /\ last.ret = "ok" => last.by = of
    /\ last.by = of /\ "pub" \in knows => last.ret = "ok"

\* ecc.h:139-141.  signature_length is room enough for every signature: with it signing
\* stays within the buffer and is never cut off; a call that fails writes nothing; and
\* where the room is checked (not in libcrypto) less room is never overrun.
SignatureFits ==
  last.op = "sign" =>
    /\ last.ret = "ok" <=> last.wrote > 0
    /\ last.room >= aws_ecc_key_pair_signature_length(backend, key) \/ backend # "libcrypto"
         => last.wrote <= last.room
    /\ last.ret = "short_buffer" =>
         last.room < aws_ecc_key_pair_signature_length(backend, key)

PartsOf(b) ==
  Platform(b, {"impl", "ec_key", "pub_x", "pub_y", "priv_d"}, {"impl", "key_buf", "key_handle"},
              {"impl", "key_buf", "cf_allocator", "priv_key_ref", "pub_key_ref"})

\* The constructors' error paths and destroy.  A constructor that fails, at whatever
\* point, and the destruction of a pair release all that was taken, and a live pair owns
\* its parts and nothing else.  (Error objects of the Security framework are the
\* exception: sign, verify and new_from_asn1 keep them.)
NothingLeaks ==
  Returns => owned \ {"cf_error"} \subseteq IF object = "live" THEN PartsOf(backend) ELSE {}

\* ecc.c:285-299.  The composition shares pairs as EccKeyRef says (proved in
\* EccKeyPairProofs), so what is proved there holds here.
SharesByReference == RefSpec

\* ecc.c:289-299.  No pair stays for ever with nobody holding it: whichever thread took
\* the last reference away, the pair is destroyed in the end.
LastReleaseFrees == []<>(object = "live" => held # {})

\* ecc.h:102-103, of new_from_asn1: "Returns a new instance of aws_ecc_key_pair if the key
\* was successfully built.  Otherwise returns NULL."  A pair that is returned can sign or
\* verify.
ReturnedMeansBuilt ==
  last.op = "new" /\ last.ret = "ok" => key.priv # NoKey \/ key.pub # NoKey
=============================================================================
