----------------------------- MODULE CalLibrary -----------------------------
(***************************************************************************)
(* Start-up and shut-down, source/cal.c and *_platform_init.c, with the    *)
(* locks that OpenSSL 1.0.2 calls back for.  The main thread initialises   *)
(* the library and cleans it up, as often as it likes, also twice in a     *)
(* row; workers use it in between and have ended before the clean-up.  The *)
(* application may have a locking callback of its own.                     *)
(*                                                                         *)
(* A call of init or clean_up is a sequence of steps, pc.                  *)
(***************************************************************************)
EXTENDS LibcryptoResolve

CONSTANTS
  Worker,        \* the threads besides the main thread
  NumLocks,      \* CRYPTO_num_locks()
  Builds,        \* of "1.0.2", "1.1.1", "LC", "BORINGSSL"; "native": not on Unix
  Kinds, Files,  \* the kinds of libraries, and what libcrypto.so may be
  MaxInits       \* bound on initialisations

ASSUME LibraryAssumption ==
  /\ NumLocks \in Nat \ {0} /\ MaxInits \in Nat
  /\ Worker \cap {"raw", "free"} = {}   \* a mutex tells its owner from having none
  /\ Builds \subseteq {"1.0.2", "1.1.1", "LC", "BORINGSSL", "native"}
  /\ Kinds \cup Files \subseteq {"1.0.2", "1.1.0", "1.1.1", "LC", "BORINGSSL"}

VARIABLES
  build, linked,   \* the library's own binary; they never change
  initialized,     \* s_cal_library_initialized
  pc,              \* where the main thread is
  i,               \* the loop counter of platform_init and platform_clean_up
  inits,           \* calls of init so far
  registered,      \* what cal.c has registered with aws-c-common
  found,           \* version and tables
  env,             \* history: [several, available] of the last resolution
  callback,        \* CRYPTO_get_locking_callback(): "none", "app" or "s_locking_fn"
  id_callback,     \* CRYPTO_get_id_callback(): "none", "app" or "s_id_fn"
  tables,          \* how many lock tables are allocated
  mutex,           \* the mutexes of s_libcrypto_locks: "raw", "free" or their owner
  replaced,        \* history: the application has replaced s_locking_fn
  section,         \* per worker: the lock whose section it is in, or 0
  wants,           \* per worker: the lock it waits for, or 0
  fault,           \* history: a mutex was used that is not initialised
  thread_local     \* threads with state of AWS-LC

machine == <<initialized, pc, i, inits, registered>>
locking == <<callback, id_callback, tables, mutex, replaced>>
use == <<section, wants, fault, thread_local>>
vars == <<build, linked, machine, found, env, locking, use>>

Main == "main"
Lock == 1..NumLocks
Quiet == \A w \in Worker : section[w] = 0 /\ wants[w] = 0 /\ w \notin thread_local

Init ==
  /\ build \in Builds
  /\ linked \in IF build = "native" THEN {{}} ELSE SUBSET {"hmac", "digest"}
  /\ initialized = FALSE /\ pc = "idle" /\ i = 0 /\ inits = 0 /\ registered = {}
  /\ found = Nothing /\ env = [several |-> FALSE, available |-> TRUE]
  /\ callback = "none" /\ id_callback = "none" /\ tables = 0
  /\ mutex = [n \in Lock |-> "raw"] /\ replaced = FALSE
  /\ section = [w \in Worker |-> 0] /\ wants = [w \in Worker |-> 0]
  /\ fault = FALSE /\ thread_local = {}

-----------------------------------------------------------------------------
(* Initialisation. *)

Registration == {"common", "errors", "log_subjects"}

\* A second call finds the flag up and does nothing.
aws_cal_library_init ==
  /\ pc = "idle" /\ inits < MaxInits
  /\ inits' = inits + 1
  /\ IF initialized THEN UNCHANGED <<registered, pc>>
     ELSE registered' = Registration /\ pc' = "resolve"
  /\ UNCHANGED <<build, linked, initialized, i, found, env, locking, use>>

\* What there is at this time in the process and in files.
Libraries102(at) == {<<>>, <<Pointer(at, "1.0.2")>>}
Libraries111(at) == {<<>>, <<Pointer(at, "1.1.1")>>}
Environment ==
  [build : {build}, linked : {linked},
   process : {<<>>} \cup {<<Pointer("process", k)>> : k \in Kinds}
             \cup {<<Pointer("process", p[1]), Pointer("process", p[2])>> : p \in Kinds \X Kinds},
   so : {[f \in {"libcrypto.so.1.0.0", "libcrypto.so.1.1", "libcrypto.so"} |->
            CASE f = "libcrypto.so.1.0.0" -> a [] f = "libcrypto.so.1.1" -> b [] OTHER -> c] :
           a \in Libraries102("libcrypto.so.1.0.0"), b \in Libraries111("libcrypto.so.1.1"),
           c \in {<<>>} \cup {<<Pointer("libcrypto.so", k)>> : k \in Files}}]

\* Without a libcrypto the process is aborted.
Resolve ==
  /\ pc = "resolve"
  /\ IF build = "native" THEN pc' = "initialized" /\ UNCHANGED <<found, env>>
     ELSE \E e \in Environment : \E t \in {s_resolve_libcrypto(e, found)} :
            /\ found' = t
            /\ env' = [several |-> \E p, q \in DOMAIN e.process : e.process[p] # e.process[q],
                       available |-> Available(e)]
            /\ pc' = CASE t.version = "none" -> "aborted"
                       [] t.version # "none" /\ build = "1.0.2" -> "callback"
                       [] OTHER -> "initialized"
  /\ UNCHANGED <<build, linked, initialized, i, inits, registered, locking, use>>

\* An application's callback is left alone.
SetLockingCallback ==
  /\ pc = "callback"
  /\ IF callback = "none" THEN callback' = "s_locking_fn" /\ pc' = "locks"
                          ELSE UNCHANGED callback /\ pc' = "id"
  /\ UNCHANGED <<build, linked, initialized, i, inits, registered, found, env, id_callback,
                 tables, mutex, replaced, use>>

AllocateLocks ==
  /\ pc = "locks"
  /\ tables' = tables + 1 /\ mutex' = [n \in Lock |-> "raw"] /\ i' = 0 /\ pc' = "mutexes"
  /\ UNCHANGED <<build, linked, initialized, inits, registered, found, env, callback,
                 id_callback, replaced, use>>

\* Mutants, here and below, are wrong on purpose: each breaks a property.
InitMutex_all_but_one ==
  /\ pc = "mutexes"
  /\ IF i < NumLocks - 1
     THEN mutex' = [mutex EXCEPT ![i + 1] = "free"] /\ i' = i + 1 /\ UNCHANGED pc
     ELSE pc' = "id" /\ UNCHANGED <<mutex, i>>
  /\ UNCHANGED <<build, linked, initialized, inits, registered, found, env, callback,
                 id_callback, tables, replaced, use>>

InitMutex_stands_still ==
  /\ pc = "mutexes"
  /\ IF i < NumLocks
     THEN mutex' = [mutex EXCEPT ![i + 1] = "free"] /\ UNCHANGED <<pc, i>>
     ELSE pc' = "id" /\ UNCHANGED <<mutex, i>>
  /\ UNCHANGED <<build, linked, initialized, inits, registered, found, env, callback,
                 id_callback, tables, replaced, use>>

\* A turn of the loop.
InitMutex ==
  /\ pc = "mutexes"
  /\ IF i < NumLocks
     THEN mutex' = [mutex EXCEPT ![i + 1] = "free"] /\ i' = i + 1 /\ UNCHANGED pc
     ELSE pc' = "id" /\ UNCHANGED <<mutex, i>>
  /\ UNCHANGED <<build, linked, initialized, inits, registered, found, env, callback,
                 id_callback, tables, replaced, use>>

SetIdCallback ==
  /\ pc = "id"
  /\ id_callback' = IF id_callback = "none" THEN "s_id_fn" ELSE id_callback
  /\ pc' = "initialized"
  /\ UNCHANGED <<build, linked, initialized, i, inits, registered, found, env, callback, tables,
                 mutex, replaced, use>>

InitReturns ==
  /\ pc = "initialized"
  /\ initialized' = TRUE /\ pc' = "idle"
  /\ UNCHANGED <<build, linked, i, inits, registered, found, env, locking, use>>

-----------------------------------------------------------------------------
(* Clean-up. *)

aws_cal_library_clean_up ==
  /\ pc = "idle" /\ Quiet
  /\ initialized
  /\ initialized' = FALSE
  /\ pc' = IF build = "1.0.2" THEN "remove" ELSE "local"
  /\ UNCHANGED <<build, linked, i, inits, registered, found, env, locking, use>>

RemoveCallback ==
  /\ pc = "remove"
  /\ IF callback = "s_locking_fn" THEN callback' = "none" /\ i' = 0 /\ pc' = "clean_mutexes"
                                  ELSE UNCHANGED <<callback, i>> /\ pc' = "remove_id"
  /\ UNCHANGED <<build, linked, initialized, inits, registered, found, env, id_callback, tables,
                 mutex, replaced, use>>

CleanUpMutex ==
  /\ pc = "clean_mutexes" /\ i < NumLocks
  /\ mutex' = [mutex EXCEPT ![i + 1] = "raw"] /\ i' = i + 1
  /\ UNCHANGED <<build, linked, initialized, pc, inits, registered, found, env, callback,
                 id_callback, tables, replaced, use>>

ReleaseLocks_never ==
  /\ pc = "clean_mutexes" /\ i = NumLocks
  /\ pc' = "remove_id"
  /\ UNCHANGED <<build, linked, initialized, i, inits, registered, found, env, locking, use>>

ReleaseLocks ==
  /\ pc = "clean_mutexes" /\ i = NumLocks
  /\ tables' = tables - 1 /\ pc' = "remove_id"
  /\ UNCHANGED <<build, linked, initialized, i, inits, registered, found, env, callback,
                 id_callback, mutex, replaced, use>>

RemoveIdCallback ==
  /\ pc = "remove_id"
  /\ id_callback' = IF id_callback = "s_id_fn" THEN "none" ELSE id_callback
  /\ pc' = "local"
  /\ UNCHANGED <<build, linked, initialized, i, inits, registered, found, env, callback, tables,
                 mutex, replaced, use>>

\* The thread-local state of the thread that cleans up; then cal.c unregisters.
CleanUpReturns ==
  /\ pc = "local"
  /\ thread_local' = IF build = "LC" THEN thread_local \ {Main} ELSE thread_local
  /\ registered' = {} /\ pc' = "idle"
  /\ UNCHANGED <<build, linked, initialized, i, inits, found, env, locking, section, wants, fault>>

-----------------------------------------------------------------------------
(* Use. *)

InUse == initialized /\ pc = "idle"

\* Threads calling AWS-LC get state of their own, and give it up as they end.
UseLibrary(t) ==
  /\ InUse /\ build = "LC"
  /\ thread_local' = thread_local \cup {t}
  /\ UNCHANGED <<build, linked, machine, found, env, locking, section, wants, fault>>

aws_cal_thread_clean_up(t) ==
  /\ InUse
  /\ thread_local' = IF build = "LC" THEN thread_local \ {t} ELSE thread_local
  /\ UNCHANGED <<build, linked, machine, found, env, locking, section, wants, fault>>

\* OpenSSL 1.0.2 is about to enter a section under lock n.
EnterSection(w, n) ==
  /\ InUse /\ build = "1.0.2" /\ section[w] = 0 /\ wants[w] = 0
  /\ wants' = [wants EXCEPT ![w] = n]
  /\ UNCHANGED <<build, linked, machine, found, env, locking, section, fault, thread_local>>

aws_mutex_lock(w, n) ==
  /\ mutex[n] \in {"free", "raw"}
  /\ mutex' = [mutex EXCEPT ![n] = w]
  /\ fault' = (fault \/ mutex[n] = "raw")
aws_mutex_unlock(w, n) ==
  /\ mutex' = [mutex EXCEPT ![n] = "free"]
  /\ fault' = (fault \/ mutex[n] # w)

\* mode & CRYPTO_LOCK
s_locking_fn(w, locks, n) == IF locks THEN aws_mutex_lock(w, n) ELSE aws_mutex_unlock(w, n)

\* The application's callback keeps others out, too.
CallBack(w, locks, n) ==
  CASE callback = "s_locking_fn" -> s_locking_fn(w, locks, n)
    [] callback = "app" -> /\ locks => \A v \in Worker : section[v] # n
                           /\ UNCHANGED <<mutex, fault>>
    [] callback = "none" -> UNCHANGED <<mutex, fault>>

LockSection(w) ==
  /\ wants[w] # 0
  /\ CallBack(w, TRUE, wants[w])
  /\ section' = [section EXCEPT ![w] = wants[w]] /\ wants' = [wants EXCEPT ![w] = 0]
  /\ UNCHANGED <<build, linked, machine, found, env, callback, id_callback, tables, replaced,
                 thread_local>>

LeaveSection(w) ==
  /\ section[w] # 0
  /\ CallBack(w, FALSE, section[w])
  /\ section' = [section EXCEPT ![w] = 0]
  /\ UNCHANGED <<build, linked, machine, found, env, callback, id_callback, tables, replaced,
                 wants, thread_local>>

\* The application sets its callbacks while nothing runs, perhaps over the library's, and
\* takes them back while the library is not in use.
AppCallbacks ==
  /\ pc = "idle" /\ Quiet /\ build = "1.0.2"
  /\ \/ /\ callback # "app" /\ callback' = "app" /\ id_callback' = "app"
        /\ replaced' = (replaced \/ callback = "s_locking_fn")
     \/ /\ callback = "app" /\ ~initialized
        /\ callback' = "none" /\ id_callback' = "none"
        /\ UNCHANGED replaced
  /\ UNCHANGED <<build, linked, machine, found, env, tables, mutex, use>>

MainStep ==
  \/ Resolve \/ SetLockingCallback \/ AllocateLocks \/ InitMutex \/ SetIdCallback \/ InitReturns
  \/ RemoveCallback \/ CleanUpMutex \/ ReleaseLocks \/ RemoveIdCallback \/ CleanUpReturns

Next ==
  \/ aws_cal_library_init \/ aws_cal_library_clean_up \/ MainStep
  \/ AppCallbacks
  \/ \E t \in Worker \cup {Main} : UseLibrary(t) \/ aws_cal_thread_clean_up(t)
  \/ \E w \in Worker : LockSection(w) \/ LeaveSection(w) \/ \E n \in Lock : EnterSection(w, n)

\* Fairness: a call that has begun runs on to its end on its thread.
Spec == Init /\ [][Next]_vars /\ WF_vars(MainStep)

-----------------------------------------------------------------------------
(* Properties. *)

TypeOK ==
  /\ initialized \in BOOLEAN /\ i \in 0..NumLocks /\ inits \in 0..MaxInits
  /\ registered \subseteq Registration
  /\ found.version \in {"none", "1.0.2", "1.1.1", "LC", "BORINGSSL"}
  /\ callback \in {"none", "app", "s_locking_fn"} /\ id_callback \in {"none", "app", "s_id_fn"}
  /\ tables \in 0..MaxInits
  /\ mutex \in [Lock -> {"raw", "free"} \cup Worker]
  /\ section \in [Worker -> 0..NumLocks] /\ wants \in [Worker -> 0..NumLocks]
  /\ replaced \in BOOLEAN /\ fault \in BOOLEAN /\ thread_local \subseteq Worker \cup {Main}

\* openssl_platform_init.c:473-483, :553-582.  Both tables are those of the version that was
\* found, and each points into one library, though some of an attempt that failed half way
\* and of earlier initialisations may have been in them, and though linked objects, the
\* process and files may each have a libcrypto.  (With several libcryptos in the process
\* the dynamic linker may answer from one or the other.)
TablesCoherent ==
  InUse /\ build # "native" =>
    /\ found.hmac.version = found.version /\ found.md.version = found.version
    /\ ~env.several => OneLibrary(found.hmac) /\ OneLibrary(found.md)

\* Nothing that the hashes and HMAC call is NULL, whichever interface was found.  (Except
\* init_fn of an AWS-LC that was not linked: :223-227 do not look it up.)
TablesComplete ==
  InUse /\ build # "native" =>
    /\ CompleteDigest(found.md)
    /\ CompleteHmac(IF build = "LC" /\ found.hmac.init = Null /\ found.hmac.new.at # "linked"
                    THEN [found.hmac EXCEPT !.init = Own] ELSE found.hmac)

\* openssl_platform_init.c:612-614.  The process is aborted only where there is no libcrypto
\* that serves the build.
AbortsOnlyWithout == pc = "aborted" => ~env.available

\* openssl_platform_init.c:473-614.  Wherever there is a libcrypto that serves the build, the
\* search ends with two tables that are complete and fit together.
Resolved == TablesCoherent /\ TablesComplete /\ AbortsOnlyWithout

\* openssl_platform_init.c:621-632.  Whenever a thread is called back by OpenSSL 1.0.2 the
\* mutex is there, and it is that thread's when it is unlocked, over any number of
\* initialisations and clean-ups.
MutexesReady == ~fault

\* Two threads are never in sections of the same lock, with the library's callback or with
\* the application's.
MutualExclusion ==
  \A v, w \in Worker : section[v] # 0 /\ section[v] = section[w] => v = w

\* openssl_platform_init.c:594-632.  Both of these, for threads in OpenSSL 1.0.2 at any time
\* between an init and a clean-up.  (And the state has its type.)
LocksWork == TypeOK /\ MutexesReady /\ MutualExclusion

\* cal.c:89-99.  After a clean-up nothing is left: what was registered, the callbacks, the
\* lock table and the thread's state, unless the application put its callback in the place
\* of the library's.
NothingLeftBehind ==
  ~initialized /\ pc = "idle" =>
    /\ registered = {}
    /\ callback # "s_locking_fn"
    /\ id_callback # "s_id_fn"
    /\ tables = 0 \/ replaced
    /\ Main \notin thread_local

\* init and clean_up return, or abort.
CallsReturn == []<>(pc \in {"idle", "aborted"})
=============================================================================
