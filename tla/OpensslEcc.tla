------------------------------ MODULE OpensslEcc ------------------------------
(***************************************************************************)
(* Key pairs over libcrypto, source/unix/opensslcrypto_ecc.c.  The EC_KEY  *)
(* has the keys; pub_x, pub_y and priv_d are copies, allocated one by one. *)
(*                                                                         *)
(* Each operator gives the set of outcomes of a call.  BIGNUMs and points  *)
(* that a function makes for itself are freed on each of its paths.        *)
(***************************************************************************)
EXTENDS EccKeyMaterial

Infinity == "infinity"

s_key_pair_destroy(owned) == owned \ {"impl", "ec_key", "pub_x", "pub_y", "priv_d"}

\* ECDSA_size: two numbers of the curve's size, each with a sign byte.
s_signature_length_libcrypto(key) ==
  2 + 2 * (2 + aws_ecc_key_coordinate_byte_size_from_curve_name(key.curve) + 1)

\* The room is not looked at; ECDSA_sign sets the length to zero when it fails.
s_sign_payload(key, owned, room) ==
  {NotSigned("invalid_argument", owned)} \cup
  {Signed([by |-> k, r |-> r, s |-> s, der |-> <<DerNumber(r), DerNumber(s)>>], owned) :
     k \in {key.priv} \ {NoKey}, r \in Scalars[key.curve], s \in Scalars[key.curve]}

s_verify_payload(key, owned, sig) ==
  Verdicts(key.pub = sig.by /\ ReadsAs(sig.der, sig.r, sig.s), owned)

\* BN_bn2bin writes BN_num_bytes bytes: leading zeros are gone.  Buffers that the pair
\* has already would be lost.
s_fill_in_public_key_info(key, owned, point) ==
  {Outcome("invalid_state", key, owned)} \cup
  {Built([key EXCEPT !.pub_x = Trim(X[k]), !.pub_y = Trim(Y[k])],
         owned \cup {"pub_x", "pub_y"} \cup (IF "pub_x" \in owned THEN {"lost"} ELSE {})) :
     k \in {point} \ {Infinity}}

\* The result of EC_POINT_mul is not looked at: a point that was not computed is the
\* point at infinity, which has no coordinates but becomes the public key.  (Nor is that of
\* EC_KEY_set_public_key, which fails only for want of memory and is taken to succeed.)
s_derive_public_key_libcrypto(key, owned) ==
  IF "priv_d" \notin owned THEN {Outcome("invalid_state", key, owned)}
  ELSE IF key.pub_x # <<>> THEN {Built(key, owned)}
  ELSE UNION {s_fill_in_public_key_info([key EXCEPT !.pub = point], owned, point) :
                point \in OfPrivate(key.curve, key.priv_d) \cup {Infinity}}

aws_ecc_key_pair_new_from_private_key_impl_libcrypto(curve, d) ==
  LET owned == {"impl", "ec_key", "priv_d"} IN
  IF Len(d) # aws_ecc_key_coordinate_byte_size_from_curve_name(curve) THEN {Null({})}
  ELSE {Null(s_key_pair_destroy(owned))} \cup
       {Built([Blank EXCEPT !.curve = curve, !.priv_d = d, !.priv = k], owned) :
          k \in OfPrivate(curve, d)}

aws_ecc_key_pair_new_generate_random_libcrypto(curve) ==
  LET owned == {"impl", "ec_key"}
      Filled(k) ==
        s_fill_in_public_key_info(
          [Blank EXCEPT !.curve = curve, !.priv_d = Trim(D[k]), !.priv = k, !.pub = k],
          owned \cup {"priv_d"}, k)
  IN  {Null(s_key_pair_destroy(owned))} \cup
      {IF o.ret = "ok" THEN o ELSE Null(s_key_pair_destroy(o.owned)) :
         o \in UNION {Filled(k) : k \in {k \in Keys : CurveOf[k] = curve}}}

\* The lengths are not checked: a number may lack its leading zeros.
aws_ecc_key_pair_new_from_public_key_impl_libcrypto(curve, x, y) ==
  LET owned == {"impl", "ec_key", "pub_x", "pub_y"} IN
  {Null(s_key_pair_destroy(owned))} \cup
  {Built([Blank EXCEPT !.curve = curve, !.pub_x = x, !.pub_y = y, !.pub = k], owned) :
     k \in OfPublic(curve, x, y)}

\* d2i_ECPrivateKey reads the document once more, and has the public key from it or
\* computes it.  When it fails only the structure is there to be released.  (It also moves
\* the caller's cursor past the document.  Nothing here reads that again.)
s_new_from_private_document(load) ==
  LET copies == {"priv_d"} \cup (IF load.x = <<>> THEN {} ELSE {"pub_x", "pub_y"}) IN
  {Null({"decoder", "impl"} \ {"impl"})} \cup
  {Built([curve |-> load.curve, pub_x |-> load.x, pub_y |-> load.y, priv_d |-> load.d,
          priv |-> k, pub |-> k],
         {"decoder", "impl", "ec_key"} \cup copies) : k \in OfPrivate(load.curve, load.d)}

aws_ecc_key_pair_new_from_asn1_libcrypto(doc) ==
  LET load == aws_der_decoder_load_ecc_key_pair(doc.tlvs) IN
  IF ~doc.parses THEN {Null({})}
  ELSE {aws_der_decoder_destroy(o) : o \in
          IF ~load.ok THEN {Null({"decoder"})}
          ELSE IF load.d # <<>> THEN s_new_from_private_document(load)
          ELSE {[o EXCEPT !.owned = @ \cup {"decoder"}] :
                  o \in aws_ecc_key_pair_new_from_public_key_impl_libcrypto(
                          load.curve, load.x, load.y)}}
=============================================================================
