------------------------------ MODULE BcryptEcc ------------------------------
(***************************************************************************)
(* Key pairs on Windows, source/windows/bcrypt_ecc.c.  One buffer, key_buf *)
(* in CNG's blob format, has all the parts: pub_x, pub_y and priv_d point  *)
(* into it, full length, and read as zeros where a part was not given.     *)
(*                                                                         *)
(* CNG's signatures are two numbers of full length; the code converts them *)
(* to DER and back.                                                        *)
(***************************************************************************)
EXTENDS EccKeyMaterial

s_destroy_key_windows(owned) == owned \ {"impl", "key_buf", "key_handle"}

\* Mutants, here and below, are wrong on purpose: each breaks a property.
s_signature_length_no_sign_bytes(key) ==
  6 + aws_ecc_key_coordinate_byte_size_from_curve_name(key.curve) * 2

s_signature_length_windows(key) ==
  8 + aws_ecc_key_coordinate_byte_size_from_curve_name(key.curve) * 2

EncodeInteger_untrimmed(raw) == IF raw[1] >= SignBit THEN <<0>> \o raw ELSE raw

\* The leading zeros are trimmed; aws_der_encoder_write_integer then adds a sign byte to
\* a number whose first byte has the sign bit.
EncodeInteger(raw) ==
  LET integer_cur == Trim(raw)
  IN  IF integer_cur[1] >= SignBit THEN <<0>> \o integer_cur ELSE integer_cur

\* The results of the encoder and of the append are not looked at: of a DER signature that
\* did not fit there would be a part, or nothing, and no error.  Nothing stands for both,
\* which SignatureFits rules out.
s_sign_message_windows(key, owned, room) ==
  IF room < s_signature_length_windows(key) THEN {NotSigned("short_buffer", owned)}
  ELSE {NotSigned("invalid_argument", owned)} \cup
       {LET der == <<EncodeInteger(r), EncodeInteger(s)>>
            signed == Signed([by |-> k, r |-> r, s |-> s, der |-> der], owned)
        IN  IF signed.wrote <= room THEN signed ELSE NotSigned("ok", owned) :
          k \in {key.priv} \ {NoKey}, r \in Scalars[key.curve], s \in Scalars[key.curve]}

\* What the export of the private blob leaves in key_buf.  Its len, also set when the
\* export fails, is not read again.
s_derive_public_key_windows(key, owned) ==
  {Outcome("missing_component", key, owned)} \cup
  {Built([key EXCEPT !.pub_x = X[k], !.pub_y = Y[k], !.priv_d = D[k]], owned) :
     k \in {key.priv} \ {NoKey}}

s_append_coordinate(buffer, coordinate, curve) ==
  LET n == aws_ecc_key_coordinate_byte_size_from_curve_name(curve)
  IN  buffer \o (IF Len(coordinate) < n THEN Pad(coordinate, n) ELSE coordinate)

\* The decoder drops the first byte of a number if it is zero.
DecodeInteger(der) == IF der[1] = 0 THEN Tail(der) ELSE der

s_verify_signature_windows(key, owned, sig) ==
  LET first == s_append_coordinate(<<>>, DecodeInteger(sig.der[1]), key.curve)
      both == s_append_coordinate(first, DecodeInteger(sig.der[2]), key.curve)
  IN  Verdicts(key.pub = sig.by /\ both = sig.r \o sig.s, owned)

\* Without a public part CNG is told not to validate the pair, and computes the point.
s_alloc_pair_and_init_buffers_windows(curve, x, y, d) ==
  LET n == aws_ecc_key_coordinate_byte_size_from_curve_name(curve)
      OrZeros(part) == IF part = <<>> THEN Zeros(n) ELSE part
      imports == (IF d = <<>> THEN Keys ELSE OfPrivate(curve, d)) \cap
                 (IF x = <<>> THEN Keys ELSE OfPublic(curve, x, y))
  IN  IF \E part \in {x, y, d} \ {<<>>} : Len(part) # n
      THEN {Null(s_destroy_key_windows({"impl"}))}
      ELSE {Null(s_destroy_key_windows({"impl", "key_buf"}))} \cup
           {Built([curve |-> curve, pub_x |-> OrZeros(x), pub_y |-> OrZeros(y),
                   priv_d |-> OrZeros(d), priv |-> IF d = <<>> THEN NoKey ELSE k, pub |-> k],
                  {"impl", "key_buf", "key_handle"}) : k \in imports}

aws_ecc_key_pair_new_from_private_key_impl_windows(curve, d) ==
  s_alloc_pair_and_init_buffers_windows(curve, <<>>, <<>>, d)

aws_ecc_key_pair_new_from_public_key_impl_windows(curve, x, y) ==
  s_alloc_pair_and_init_buffers_windows(curve, x, y, <<>>)

\* Generating, finalizing and exporting may each fail.
aws_ecc_key_pair_new_generate_random_windows(curve) ==
  LET zeros == Zeros(aws_ecc_key_coordinate_byte_size_from_curve_name(curve))
      Derived(k) ==
        s_derive_public_key_windows(
          [curve |-> curve, pub_x |-> zeros, pub_y |-> zeros, priv_d |-> zeros,
           priv |-> k, pub |-> k], {"impl", "key_handle", "key_buf"})
  IN  {Null(s_destroy_key_windows({"impl"})),
       Null(s_destroy_key_windows({"impl", "key_handle"}))} \cup
      {IF o.ret = "ok" THEN o ELSE Null(s_destroy_key_windows(o.owned)) :
         o \in UNION {Derived(k) : k \in {k \in Keys : CurveOf[k] = curve}}}

\* The decoder is used without a look whether there is one: loading from no decoder does
\* not return.
aws_ecc_key_pair_new_from_asn1_windows(doc) ==
  LET load == aws_der_decoder_load_ecc_key_pair(doc.tlvs) IN
  IF ~doc.parses THEN {Outcome("crash", Blank, {})}
  ELSE {aws_der_decoder_destroy(o) : o \in
          IF ~load.ok THEN {Null({"decoder"})}
          ELSE {[o EXCEPT !.owned = @ \cup {"decoder"}] :
                  o \in s_alloc_pair_and_init_buffers_windows(load.curve, load.x, load.y, load.d)}}
=============================================================================
