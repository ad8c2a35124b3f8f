----------------------------- MODULE SecurityEcc -----------------------------
(***************************************************************************)
(* Key pairs on Darwin, source/darwin/securityframework_ecc.c.  The parts  *)
(* are in key_buf as on Windows, but priv_d always points there, at bytes  *)
(* nobody wrote if there is no private part.  The framework's keys are     *)
(* priv_key_ref and pub_key_ref; signing needs one, verifying the other.   *)
(***************************************************************************)
EXTENDS EccKeyMaterial

s_destroy_key_darwin(owned) ==
  owned \ {"impl", "key_buf", "priv_key_ref", "pub_key_ref", "cf_allocator"}

s_signature_length_darwin(key) ==
  aws_ecc_key_coordinate_byte_size_from_curve_name(key.curve) * 2 + 8

\* The framework's error object is not released.
s_sign_message_darwin(key, owned, room) ==
  IF "priv_key_ref" \notin owned THEN {NotSigned("missing_component", owned)}
  ELSE {NotSigned("sys_call_failure", owned \cup {"cf_error"})} \cup
       {LET signed == Signed([by |-> k, r |-> r, s |-> s,
                              der |-> <<DerNumber(r), DerNumber(s)>>], owned)
        IN  IF signed.wrote <= room THEN signed ELSE NotSigned("short_buffer", owned) :
          k \in {key.priv} \ {NoKey}, r \in Scalars[key.curve], s \in Scalars[key.curve]}

s_verify_signature_darwin(key, owned, sig) ==
  IF "pub_key_ref" \notin owned
  THEN {[ret |-> "missing_component", erred |-> FALSE, owned |-> owned]}
  ELSE {[v EXCEPT !.owned = IF v.ret = "ok" THEN @ ELSE @ \cup {"cf_error"}] :
          v \in Verdicts(key.pub = sig.by /\ ReadsAs(sig.der, sig.r, sig.s), owned)}

s_derive_public_key_darwin(key, owned) ==
  IF key.pub_x # <<>> THEN {Built(key, owned)} ELSE {Outcome("unsupported", key, owned)}

\* Bytes that were never written hold anything; two values stand for all.
Unwritten(n) == {Zeros(n), [i \in 1..n |-> 3]}

s_alloc_pair_and_init_buffers_darwin(curve, x, y, d) ==
  LET n == aws_ecc_key_coordinate_byte_size_from_curve_name(curve) IN
  {Null(s_destroy_key_darwin({"impl"}))} \cup
  IF \E part \in {x, y, d} \ {<<>>} : Len(part) # n
  THEN {Null(s_destroy_key_darwin({"impl", "cf_allocator"}))}
  ELSE {Built([Blank EXCEPT !.curve = curve, !.pub_x = x, !.pub_y = y, !.priv_d = bytes],
              {"impl", "cf_allocator", "key_buf"}) :
          bytes \in IF d = <<>> THEN Unwritten(n) ELSE {d}}

\* What a function has when it stops before one of the things it makes in turn.
Stages(made) == {{made[j] : j \in 1..i} : i \in 0..Len(made)}

\* Mutant, wrong on purpose: it breaks a property.
ReleaseImport_keeps_data(owned) == s_destroy_key_darwin(owned \ {"key_attributes"})

\* The error path that the three importing constructors share.
ReleaseImport(owned) == s_destroy_key_darwin(owned \ {"key_data", "key_attributes"})

\* CFDataCreate, CFDictionaryCreateMutable and SecKeyCreateWithData after the buffers:
\* each may fail.  imports are the keys the framework may make of the data.
Import(pairs, imports, ref) ==
  UNION {
    IF o.ret # "ok" THEN {o}
    ELSE {Null(ReleaseImport(o.owned \cup made)) :
            made \in Stages(<<"key_data", "key_attributes">>)}
         \cup {Built(IF ref = "priv_key_ref" THEN [o.key EXCEPT !.priv = k]
                                             ELSE [o.key EXCEPT !.pub = k],
                     o.owned \cup {ref}) : k \in imports} :
    o \in pairs}

aws_ecc_key_pair_new_from_private_key_impl_darwin(curve, d) ==
  Import(s_alloc_pair_and_init_buffers_darwin(curve, <<>>, <<>>, d), OfPrivate(curve, d),
         "priv_key_ref")

aws_ecc_key_pair_new_from_public_key_impl_darwin(curve, x, y) ==
  Import(s_alloc_pair_and_init_buffers_darwin(curve, x, y, <<>>), OfPublic(curve, x, y),
         "pub_key_ref")

\* SecKeyCopyPublicKey: its result is not looked at.
SecKeyCopyPublicKey(o, k) ==
  {[o EXCEPT !.refused = TRUE],
   [o EXCEPT !.key.pub = k, !.owned = @ \cup {"pub_key_ref"}]}

ReleaseGenerate(owned) ==
  s_destroy_key_darwin(owned \ {"decoder", "key_attributes", "export", "size_str"})

\* The parts are read from the framework's own document of the key.
aws_ecc_key_pair_new_generate_random_darwin(curve) ==
  LET until == <<"cf_allocator", "key_attributes", "size_str", "priv_key_ref", "pub_key_ref",
                 "export", "decoder">>
      Made(k) ==
        LET load == aws_der_decoder_load_ecc_key_pair(PairDocument(k)) IN
        SecKeyCopyPublicKey(
          Built([curve |-> load.curve, pub_x |-> load.x, pub_y |-> load.y, priv_d |-> load.d,
                 priv |-> k, pub |-> NoKey],
                {"impl", "cf_allocator", "priv_key_ref", "key_buf"}), k)
  IN  {Null(ReleaseGenerate({"impl"} \cup made)) : made \in Stages(until)} \cup
      UNION {Made(k) : k \in {k \in Keys : CurveOf[k] = curve}}

\* A public key goes to priv_key_ref, too.  When the framework refuses the key the error
\* is raised and the pair returned; copying the public key of nothing gives nothing, or
\* does not return.
ImportDocument(load, o) ==
  LET imports == (IF load.d = <<>> THEN Keys ELSE OfPrivate(load.curve, load.d)) \cap
                 (IF load.x = <<>> THEN Keys ELSE OfPublic(load.curve, load.x, load.y))
      Taken(k) ==
        LET pair == Built([o.key EXCEPT !.priv = IF load.d = <<>> THEN NoKey ELSE k],
                          o.owned \cup {"priv_key_ref"})
        IN  IF load.x = <<>> THEN {pair} ELSE SecKeyCopyPublicKey(pair, k)
  IN  {Null(ReleaseImport(o.owned \cup made)) : made \in Stages(<<"key_data">>)} \cup
      {[o EXCEPT !.refused = TRUE, !.owned = @ \cup {"cf_error"}]} \cup
      (IF load.x = <<>> THEN {} ELSE {Outcome("crash", Blank, {})}) \cup
      UNION {Taken(k) : k \in imports}

aws_ecc_key_pair_new_from_asn1_darwin(doc) ==
  LET load == aws_der_decoder_load_ecc_key_pair(doc.tlvs)
      pairs == {[o EXCEPT !.owned = @ \cup {"decoder"}] :
                  o \in s_alloc_pair_and_init_buffers_darwin(load.curve, load.x, load.y, load.d)}
  IN  IF ~doc.parses THEN {Null({})}
      ELSE {aws_der_decoder_destroy(o) : o \in
              IF ~load.ok THEN {Null({"decoder"})}
              ELSE UNION {IF o.ret = "ok" THEN ImportDocument(load, o) ELSE {o} : o \in pairs}}
=============================================================================
