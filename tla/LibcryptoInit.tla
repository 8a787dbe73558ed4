--------------------------- MODULE LibcryptoInit ----------------------------
(***************************************************************************)
(* The process-wide set-up of libcrypto 0.9.8 (src/tls12_chainverify.c):    *)
(* threads that verify chains, check signatures or start AES-GCM ask        *)
(* tls12_libcrypto_handle for the library.  The first of them runs          *)
(* tls12_init_libcrypto_once; it installs the locking callback by which     *)
(* libcrypto guards its shared tables, unless another library of the        *)
(* process has installed one, and registers the algorithms.                 *)
(*                                                                         *)
(* Another library may set its callback at any time.  Threads of the other   *)
(* libraries are left out.                                                  *)
(***************************************************************************)
EXTENDS Naturals, FiniteSets

CONSTANTS
    Threads,
    NLocks,         \* CRYPTO_num_locks
    Registry,       \* the lock of the algorithm tables
    Free            \* no thread

Locks == 1 .. NLocks
Registrations == {"addAll", "addDigests"}

ASSUME LocksAssumption == NLocks \in Nat /\ Registry \in Locks /\ Free \notin Threads

VARIABLES
    pc,
    once,           \* g_libcrypto_once: "no", "running" or "done"
    opened,         \* g_libcrypto_h # NULL
    ok,             \* g_libcrypto_ok
    array,          \* g_openssl_locks # NULL
    mutexes,        \* how many mutexes of the array are initialised
    callback,       \* libcrypto's locking callback: "none", "ours" or "other"
    threadId,       \* our thread ID callback is set
    owner,          \* owner[n]: who holds mutex n of the array
    otherOwner,     \* the same for the locks of the other library
    section,        \* section[t]: the locks whose tables t is at work on
    exports,        \* the registrations libcrypto exports
    disturbed,      \* the callback was changed under a thread inside libcrypto
    registered,     \* the registrations that are done with
    answer          \* answer[t]: what t's last call returned, "none" before it

control == <<pc, answer>>
setup == <<once, opened, ok, array, mutexes, registered>>
libcrypto == <<callback, threadId, exports, disturbed>>
held == <<owner, otherOwner, section>>
vars == <<control, setup, libcrypto, held>>

Goto(t, l) == pc' = [pc EXCEPT ![t] = l]

-----------------------------------------------------------------------------
(* tls12_libcrypto_handle *)

CallHandle(t) ==
    /\ pc[t] = "idle"
    /\ Goto(t, "once")
    /\ UNCHANGED <<answer, setup, libcrypto, held>>

OnceUnguarded(t) ==
    /\ pc[t] = "once"
    /\ \/ /\ once = "no"
          /\ once' = "running"
          /\ Goto(t, "open")
       \/ /\ once # "no"
          /\ Goto(t, "answer")
          /\ UNCHANGED once
    /\ UNCHANGED <<answer, opened, ok, array, mutexes, registered, libcrypto, held>>

\* pthread_once: the first thread runs the routine, the others wait for its end.
Once(t) ==
    /\ pc[t] = "once"
    /\ \/ /\ once = "no"
          /\ once' = "running"
          /\ Goto(t, "open")
       \/ /\ once = "done"
          /\ Goto(t, "answer")
          /\ UNCHANGED once
    /\ UNCHANGED <<answer, opened, ok, array, mutexes, registered, libcrypto, held>>

AnswerUnchecked(t) ==
    /\ pc[t] = "answer"
    /\ answer' = [answer EXCEPT ![t] = IF opened THEN "handle" ELSE "NULL"]
    /\ Goto(t, IF opened THEN "use" ELSE "idle")
    /\ UNCHANGED <<setup, libcrypto, held>>

\* NULL unless the callback is in force, whether or not the library was opened.
Answer(t) ==
    /\ pc[t] = "answer"
    /\ answer' = [answer EXCEPT ![t] = IF ok THEN "handle" ELSE "NULL"]
    /\ Goto(t, IF ok THEN "use" ELSE "idle")
    /\ UNCHANGED <<setup, libcrypto, held>>

-----------------------------------------------------------------------------
(* tls12_init_libcrypto_once *)

Open(t) ==
    /\ pc[t] = "open"
    /\ \/ opened' = TRUE /\ Goto(t, "probe") /\ UNCHANGED once
       \/ once' = "done" /\ Goto(t, "answer") /\ UNCHANGED opened
    /\ UNCHANGED <<answer, ok, array, mutexes, registered, libcrypto, held>>

\* The four symbols, and CRYPTO_get_locking_callback.
Probe(t) ==
    /\ pc[t] = "probe"
    /\ \/ /\ Goto(t, "addAll")          \* a symbol is missing
          /\ UNCHANGED ok
       \/ /\ callback # "none"
          /\ ok' = TRUE
          /\ Goto(t, "addAll")
       \/ /\ callback = "none"
          /\ Goto(t, "alloc")
          /\ UNCHANGED ok
    /\ UNCHANGED <<answer, once, opened, array, mutexes, registered, libcrypto, held>>

\* CRYPTO_num_locks and calloc.
Alloc(t) ==
    /\ pc[t] = "alloc"
    /\ \/ array' = TRUE /\ Goto(t, "mutex")
       \/ Goto(t, "addAll") /\ UNCHANGED array
    /\ UNCHANGED <<answer, once, opened, ok, mutexes, registered, libcrypto, held>>

InitMutexForgetsFirst(t) ==
    /\ pc[t] = "mutex"
    /\ \/ /\ mutexes' = mutexes + 1
          /\ Goto(t, IF mutexes' = NLocks THEN "setLock" ELSE "mutex")
          /\ UNCHANGED array
       \/ /\ mutexes' = IF mutexes > 0 THEN 1 ELSE 0
          /\ array' = FALSE
          /\ Goto(t, "addAll")
    /\ UNCHANGED <<answer, once, opened, ok, registered, libcrypto, held>>

\* One turn of the loop over pthread_mutex_init; a failure undoes the others.
InitMutex(t) ==
    /\ pc[t] = "mutex"
    /\ \/ /\ mutexes' = mutexes + 1
          /\ Goto(t, IF mutexes' = NLocks THEN "setLock" ELSE "mutex")
          /\ UNCHANGED array
       \/ /\ mutexes' = 0
          /\ array' = FALSE
          /\ Goto(t, "addAll")
    /\ UNCHANGED <<answer, once, opened, ok, registered, libcrypto, held>>

SetLock(t) ==
    /\ pc[t] = "setLock"
    /\ callback' = "ours"
    /\ Goto(t, "setId")
    /\ UNCHANGED <<answer, setup, threadId, exports, disturbed, held>>

SetId(t) ==
    /\ pc[t] = "setId"
    /\ threadId' = TRUE
    /\ ok' = TRUE
    /\ Goto(t, "addAll")
    /\ UNCHANGED <<answer, once, opened, array, mutexes, registered, callback, exports, disturbed,
                   held>>

\* A registration that libcrypto does not export is left out.
SkipRegistration(t) ==
    /\ pc[t] \in Registrations \ exports
    /\ registered' = registered \cup {pc[t]}
    /\ Goto(t, IF pc[t] = "addAll" THEN "addDigests" ELSE "answer")
    /\ once' = IF pc[t] = "addAll" THEN once ELSE "done"
    /\ UNCHANGED <<answer, opened, ok, array, mutexes, libcrypto, held>>

-----------------------------------------------------------------------------
(* Inside libcrypto: CRYPTO_lock and CRYPTO_unlock call the callback. *)

\* What t asks libcrypto for in its state.
Wanted(t) == IF pc[t] \in Registrations THEN {Registry} ELSE Locks

\* tls12_openssl_locking_cb with CRYPTO_LOCK set.
Acquire(t, n) ==
    IF callback = "ours" /\ array
    THEN /\ owner[n] = Free
         /\ owner' = [owner EXCEPT ![n] = t]
         /\ UNCHANGED otherOwner
    ELSE /\ callback = "other" => otherOwner[n] = Free
         /\ otherOwner' = IF callback = "other" THEN [otherOwner EXCEPT ![n] = t] ELSE otherOwner
         /\ UNCHANGED owner

ReleaseNever(t, n) == UNCHANGED <<owner, otherOwner>>
\* The same without.
Release(t, n) ==
    /\ owner' = IF callback = "ours" /\ array THEN [owner EXCEPT ![n] = Free] ELSE owner
    /\ otherOwner' = IF callback = "other" THEN [otherOwner EXCEPT ![n] = Free] ELSE otherOwner

Enter(t) ==
    /\ pc[t] \in exports \cup {"use"} /\ section[t] = {}
    /\ \E n \in Wanted(t) :
          /\ Acquire(t, n)
          /\ section' = [section EXCEPT ![t] = {n}]
    /\ UNCHANGED <<control, setup, libcrypto>>

Leave(t) ==
    /\ \E n \in section[t] :
          /\ Release(t, n)
          /\ section' = [section EXCEPT ![t] = {}]
    /\ registered' = IF pc[t] = "use" THEN registered ELSE registered \cup {pc[t]}
    /\ once' = IF pc[t] = "addDigests" THEN "done" ELSE once
    /\ Goto(t, CASE pc[t] = "addAll" -> "addDigests"
                 [] pc[t] = "addDigests" -> "answer"
                 [] OTHER -> "idle")
    /\ UNCHANGED <<answer, opened, ok, array, mutexes, libcrypto>>

\* Another library of the process sets its callback.
OtherInstalls ==
    /\ callback # "other"
    /\ callback' = "other"
    /\ disturbed' = (disturbed \/ \E t \in Threads : section[t] # {})
    /\ UNCHANGED <<control, setup, threadId, exports, held>>

-----------------------------------------------------------------------------
Init ==
    /\ pc = [t \in Threads |-> "idle"]
    /\ answer = [t \in Threads |-> "none"]
    /\ once = "no" /\ opened = FALSE /\ ok = FALSE /\ array = FALSE /\ mutexes = 0 /\ registered = {}
    /\ callback \in {"none", "other"} /\ threadId = FALSE /\ exports \in SUBSET Registrations
    /\ disturbed = FALSE
    /\ owner = [n \in Locks |-> Free]
    /\ otherOwner = [n \in Locks |-> Free]
    /\ section = [t \in Threads |-> {}]

Step(t) ==
    \/ Once(t) \/ Answer(t)
    \/ Open(t) \/ Probe(t) \/ Alloc(t) \/ InitMutex(t) \/ SetLock(t) \/ SetId(t)
    \/ SkipRegistration(t) \/ Enter(t) \/ Leave(t)

Next == OtherInstalls \/ \E t \in Threads : CallHandle(t) \/ Step(t)

Spec == Init /\ [][Next]_vars
\* The scheduler runs every thread that can run.
LiveSpec == Spec /\ \A t \in Threads : WF_vars(Step(t))

-----------------------------------------------------------------------------
Labels == {"idle", "once", "open", "probe", "alloc", "mutex", "setLock", "setId", "addAll",
           "addDigests", "answer", "use"}

TypeOK ==
    /\ pc \in [Threads -> Labels]
    /\ answer \in [Threads -> {"none", "NULL", "handle"}]
    /\ once \in {"no", "running", "done"}
    /\ opened \in BOOLEAN /\ ok \in BOOLEAN /\ array \in BOOLEAN /\ threadId \in BOOLEAN
    /\ disturbed \in BOOLEAN
    /\ mutexes \in 0 .. NLocks
    /\ registered \subseteq Registrations /\ exports \subseteq Registrations
    /\ callback \in {"none", "ours", "other"}
    /\ owner \in [Locks -> Threads \cup {Free}]
    /\ otherOwner \in [Locks -> Threads \cup {Free}]
    /\ section \in [Threads -> SUBSET Locks]

\* Whoever has the library from tls12_libcrypto_handle finds a locking callback
\* in force and both registrations over, however many threads came first at
\* once; nobody has it after a set-up that failed ("set ONLY if locks installed").
HandleMeansReady ==
    \A t \in Threads :
        answer[t] = "handle" =>
            /\ once = "done" /\ opened /\ ok
            /\ callback # "none"
            /\ registered = Registrations

\* No two threads are at work on the same tables of libcrypto: the double free in
\* OBJ_NAME_add that the set-up was rewritten for.  It holds until another library
\* changes the callback while a thread is inside, which nothing here can prevent.
Exclusive ==
    disturbed \/ \A t, u \in Threads : t # u => section[t] \cap section[u] = {}

\* The set-up leaves everything or nothing: when it is over either the callback was
\* installed over a complete array of mutexes, or there is no array, no mutex is
\* left initialised, and the callback in force is not ours.
AllOrNothing ==
    once = "done" =>
        \/ array /\ mutexes = NLocks /\ ok /\ threadId
        \/ ~array /\ mutexes = 0 /\ callback # "ours" /\ ~threadId

\* Every call of tls12_libcrypto_handle returns, whenever the callback changes.
Served == \A t \in Threads : pc[t] = "once" ~> pc[t] \in {"idle", "use"}

=============================================================================
