------------------------------ MODULE MCDigest ------------------------------
(***************************************************************************)
(* An instance of Digest for TLC: digests of two bytes, requests to        *)
(* truncate below, at and above that size, and updates longer than the     *)
(* range of the narrow back ends' lengths.                                 *)
(***************************************************************************)
EXTENDS Digest

MCTruncs == 0..(DigestSize + 1)
MCSpaces == 0..(DigestSize + 1)
=============================================================================
