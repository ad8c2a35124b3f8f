---------------------------- MODULE MCEccKeyPair ----------------------------
(***************************************************************************)
(* An instance of EccKeyPair for TLC.  Coordinates have two and three      *)
(* bytes.  Key "a" has no leading zeros, "b" has one in each part, with    *)
(* and without the sign bit behind it; "c" is on the other curve.          *)
(***************************************************************************)
EXTENDS EccKeyPair

MCCurveOf == [k \in Keys |-> IF k = "c" THEN AWS_CAL_ECDSA_P384 ELSE AWS_CAL_ECDSA_P256]
MCD == [a |-> <<2, 1>>, b |-> <<0, 3>>, c |-> <<0, 0, 1>>]
MCX == [a |-> <<1, 3>>, b |-> <<0, 2>>, c |-> <<3, 0, 0>>]
MCY == [a |-> <<3, 3>>, b |-> <<0, 1>>, c |-> <<0, 2, 1>>]
MCCoordinateBytes == [P256 |-> 2, P384 |-> 3]
\* Full length with the sign bit and without; a leading zero, with the sign bit behind it
\* and without.
MCScalars == [P256 |-> {<<2, 0>>, <<1, 1>>, <<0, 2>>, <<0, 1>>},
              P384 |-> {<<3, 0, 0>>, <<0, 1, 2>>, <<0, 0, 2>>}]
=============================================================================
