------------------------------ MODULE EccKeyRef ------------------------------
(***************************************************************************)
(* The life of a key pair that threads share, source/ecc.c: a constructor  *)
(* returns it with one reference, aws_ecc_key_pair_acquire adds one and    *)
(* aws_ecc_key_pair_release takes one away; the release that takes the     *)
(* last one goes on to destroy the pair.                                   *)
(*                                                                         *)
(* The count changes in one atomic step.  What release does with the value *)
(* it got is a later step of its thread: other threads run in between.     *)
(*                                                                         *)
(* A reference is a pointer some thread has to release: <<t, s>> is the    *)
(* one thread t keeps in place s.  A thread that holds one may acquire     *)
(* another for itself or for a thread it hands the pointer to.             *)
(***************************************************************************)
EXTENDS Integers, FiniteSets

CONSTANTS
  Thread,   \* the threads
  Slot      \* the places a thread has for a pointer to the pair

VARIABLES
  object,     \* "none": no key pair; "live"; "freed" when destroyed twice
  ref_count,  \* key_pair->ref_count
  held,       \* history: the references the threads hold
  releasing   \* threads that took the last reference and have yet to destroy

refVars == <<object, ref_count, held, releasing>>

Reference == Thread \X Slot

Holds(t) == \E s \in Slot : <<t, s>> \in held

RefInit == object = "none" /\ ref_count = 0 /\ held = {} /\ releasing = {}

\* Every constructor ends with aws_atomic_init_int(&ref_count, 1).
NewReference(t, s) ==
  /\ object = "none" /\ releasing = {}
  /\ object' = "live"
  /\ ref_count' = 1
  /\ held' = {<<t, s>>}
  /\ UNCHANGED releasing

\* Mutants, here and below, are wrong on purpose: each breaks a property.
aws_ecc_key_pair_acquire_lost_update(t, u, s) ==
  /\ Holds(t) /\ <<u, s>> \notin held
  /\ ref_count' \in {ref_count, ref_count + 1}
  /\ held' = held \cup {<<u, s>>}
  /\ UNCHANGED <<object, releasing>>

\* Thread t acquires a reference for thread u.
aws_ecc_key_pair_acquire(t, u, s) ==
  /\ Holds(t) /\ <<u, s>> \notin held
  /\ ref_count' = ref_count + 1
  /\ held' = held \cup {<<u, s>>}
  /\ UNCHANGED <<object, releasing>>

aws_ecc_key_pair_release_tests_zero(t, s) ==
  /\ <<t, s>> \in held /\ t \notin releasing
  /\ ref_count' = ref_count - 1
  /\ held' = held \ {<<t, s>>}
  /\ releasing' = IF ref_count = 0 THEN releasing \cup {t} ELSE releasing
  /\ UNCHANGED object

\* aws_atomic_fetch_sub returns the old value.
aws_ecc_key_pair_release(t, s) ==
  /\ <<t, s>> \in held /\ t \notin releasing
  /\ ref_count' = ref_count - 1
  /\ held' = held \ {<<t, s>>}
  /\ releasing' = IF ref_count = 1 THEN releasing \cup {t} ELSE releasing
  /\ UNCHANGED object

\* The rest of release; a pair that is gone already is freed a second time.
s_aws_ecc_key_pair_destroy(t) ==
  /\ t \in releasing
  /\ object' = IF object = "live" THEN "none" ELSE "freed"
  /\ releasing' = releasing \ {t}
  /\ UNCHANGED <<ref_count, held>>

RefNext ==
  \E t \in Thread :
    \/ s_aws_ecc_key_pair_destroy(t)
    \/ \E s \in Slot :
         \/ NewReference(t, s)
         \/ aws_ecc_key_pair_release(t, s)
         \/ \E u \in Thread : aws_ecc_key_pair_acquire(t, u, s)

RefSpec == RefInit /\ [][RefNext]_refVars

-----------------------------------------------------------------------------
(* Properties. *)

RefTypeOK ==
  /\ object \in {"none", "live", "freed"}
  /\ ref_count \in Nat
  /\ held \subseteq Reference
  /\ releasing \subseteq Thread

\* ecc.c:285-299.  As long as any thread holds a reference the pair is there and no
\* thread is about to destroy it, so no call on a held pointer meets a freed pair.
NoUseAfterFree == held # {} => object = "live" /\ releasing = {}

\* ecc.c:294.  At most one thread goes on to destroy the pair, and it finds the pair
\* there: two releases that race never free it twice.
DestroyedOnce ==
  /\ object # "freed"
  /\ \A t, u \in releasing : t = u
  /\ releasing # {} => object = "live"

\* A pair nobody refers to is about to be destroyed: the last release is never missed,
\* in whatever order the threads let go.
LastReleaseSeen == object = "live" /\ held = {} => releasing # {}

\* What makes these inductive: the count is the number of references.
CountIsReferences == IsFiniteSet(held) /\ ref_count = Cardinality(held)

\* ecc.c:285-299.  All of it: the count is the number of references, a held pair is there,
\* and the last release, whoever makes it, destroys the pair once.
RefInv == RefTypeOK /\ CountIsReferences /\ NoUseAfterFree /\ DestroyedOnce /\ LastReleaseSeen
=============================================================================
