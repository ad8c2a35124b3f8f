-------------------------- MODULE MCCommonCryptoAes --------------------------
(***************************************************************************)
(* Instances of CommonCryptoAes for TLC: blocks of three bytes, so that a  *)
(* message may end one or two bytes past a block, and every room from none *)
(* to more than a call asks for.                                           *)
(***************************************************************************)
EXTENDS CommonCryptoAes

MCSpaces == 0..(MaxChunk + Block)
=============================================================================
