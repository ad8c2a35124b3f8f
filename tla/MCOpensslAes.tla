---------------------------- MODULE MCOpensslAes ----------------------------
(***************************************************************************)
(* Instances of OpensslAes for TLC: blocks of two bytes, and every room    *)
(* from none to the most a call asks for.                                  *)
(***************************************************************************)
EXTENDS OpensslAes

MCSpaces == 0..(MaxChunk + Block)
=============================================================================
