---------------------------- MODULE CipherStream ----------------------------
(***************************************************************************)
(* What include/aws/cal/symmetric_cipher.h promises of any cipher, on any  *)
(* platform: between two resets a message is handed over in pieces, what   *)
(* has been written to the caller's buffers so far always covers a prefix  *)
(* of it, and a successful finalize completes it.  How much a back end     *)
(* holds back is its own business.  Once a call has failed for lack of     *)
(* space or in the provider, or the two directions were mixed, nothing is  *)
(* promised until the next reset.                                          *)
(***************************************************************************)
EXTENDS Integers, Sequences

VARIABLES
  accepted,   \* how many bytes of the message the cipher has taken
  emitted,    \* the bytes whose result has been written, in that order
  phase       \* "none", "open", "closed" or "broken"

streamVars == <<accepted, emitted, phase>>

Prefix(n) == [i \in 1..n |-> i]

Init == accepted = 0 /\ emitted = <<>> /\ phase = "none"

Create ==
  /\ phase = "none"
  /\ phase' \in {"open", "broken"}
  /\ accepted' = 0
  /\ emitted' = <<>>

Update ==
  /\ phase = "open"
  /\ accepted' \in Nat /\ accepted' >= accepted
  /\ Len(emitted') \in Len(emitted)..accepted'
  /\ emitted' = Prefix(Len(emitted'))
  /\ phase' = "open"

Finalize ==
  /\ phase = "open"
  /\ accepted' = accepted
  /\ emitted' = Prefix(accepted)
  /\ phase' = "closed"

Reset ==
  /\ phase # "none"
  /\ accepted' = 0
  /\ emitted' = <<>>
  /\ phase' = "open"

Break == phase # "none" /\ phase' = "broken"

Destroy ==
  /\ phase # "none"
  /\ accepted' = 0
  /\ emitted' = <<>>
  /\ phase' = "none"

Next == Create \/ Update \/ Finalize \/ Reset \/ Break \/ Destroy

Spec == Init /\ [][Next]_streamVars
=============================================================================
