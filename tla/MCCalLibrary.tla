---------------------------- MODULE MCCalLibrary ----------------------------
(***************************************************************************)
(* An instance of CalLibrary for TLC: every build and way of linking, with *)
(* every environment at each of two initialisations.  The second finds the *)
(* library in use, or cleaned up.                                          *)
(***************************************************************************)
EXTENDS CalLibrary
=============================================================================
