---------------------------- MODULE MCBcryptCtr ----------------------------
(***************************************************************************)
(* An instance of BcryptCtr for TLC: blocks of three bytes, a counter of   *)
(* three bits that may start next to its limit, and every room from none   *)
(* to more than any call needs.                                            *)
(***************************************************************************)
EXTENDS BcryptCtr

MCInitCounters == {1, CounterMax - 2, CounterMax}
MCSpaces == 0..(MaxChunk + Block)
=============================================================================
