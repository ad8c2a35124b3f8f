----------------------------- MODULE ByteSpans -----------------------------
(***************************************************************************)
(* Messages as the buffering code sees them.  The bytes of a message are   *)
(* numbered 1, 2, ... in the order the caller hands them over, so that     *)
(* Span(0, n) is a message of n bytes.  The code never looks at a byte's   *)
(* value: a message of distinct bytes is the general case.                 *)
(***************************************************************************)
EXTENDS Integers, Sequences

\* Bytes a+1 .. b of a message.
Span(a, b) == [i \in 1..(b - a) |-> a + i]
=============================================================================
