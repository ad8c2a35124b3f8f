---------------------------- MODULE MCBcryptAes ----------------------------
(***************************************************************************)
(* Instances of BcryptAes for TLC.  With blocks of two bytes the reserve   *)
(* is four, and messages of nine bytes fill and empty it twice.   The room *)
(* offered goes from none to more than any call needs (a dynamic buffer).  *)
(***************************************************************************)
EXTENDS BcryptAes

MCSpaces == {0} \cup (Block..(MaxChunk + RESERVE_SIZE))
=============================================================================
