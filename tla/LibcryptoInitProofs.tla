------------------------ MODULE LibcryptoInitProofs -------------------------
(***************************************************************************)
(* Proofs about LibcryptoInit, for every set of threads and every number of *)
(* locks.  The inductive invariant says what each stage of the set-up has   *)
(* done so far (StageInv), that one thread is in it (RunnerInv), and that   *)
(* whoever is inside libcrypto holds the lock of the tables it works on,    *)
(* unless the callback was changed under a thread (LockInv).                *)
(***************************************************************************)
EXTENDS LibcryptoInit, TLAPS

Setup == {"open", "probe", "alloc", "mutex", "setLock", "setId"} \cup Registrations

\* Nothing of the set-up is done but, perhaps, the opening of the library.
Blank == ~ok /\ ~array /\ mutexes = 0 /\ ~threadId /\ callback # "ours" /\ registered = {}

\* The set-up of the callback is over.
Settled ==
    \/ array /\ mutexes = NLocks /\ ok /\ threadId
    \/ ~array /\ mutexes = 0 /\ callback # "ours" /\ ~threadId

\* One thread is in the set-up, between "no" and "done".
RunnerInv ==
    /\ \A t \in Threads : pc[t] \in Setup => once = "running"
    /\ \A t, u \in Threads : pc[t] \in Setup /\ pc[u] \in Setup => t = u

StageInv ==
    /\ once = "no" => Blank
    /\ once = "done" => Settled /\ (ok => registered = Registrations)
    /\ \A t \in Threads :
          /\ pc[t] \in {"open", "probe", "alloc"} => Blank
          /\ pc[t] \in Setup \ {"open"} => opened
          /\ pc[t] \in {"mutex", "setLock"} =>
                ~ok /\ array /\ ~threadId /\ callback # "ours" /\ registered = {}
          /\ pc[t] = "mutex" => mutexes < NLocks
          /\ pc[t] \in {"setLock", "setId"} => mutexes = NLocks
          /\ pc[t] = "setId" => array /\ callback # "none" /\ ~ok
          /\ pc[t] \in Registrations => Settled
          /\ pc[t] = "addDigests" => "addAll" \in registered

\* Who may hold the library, and what that says of the callback.
HandleInv ==
    /\ ok => callback # "none" /\ opened
    /\ callback = "ours" => array
    /\ \A t \in Threads :
          /\ pc[t] \in {"answer", "use"} => once = "done"
          /\ answer[t] = "handle" => once = "done" /\ ok
          /\ pc[t] = "use" => ok

\* Whoever is inside libcrypto holds the lock.
LockInv ==
    \A t \in Threads : \A n \in section[t] :
        /\ pc[t] \in exports \cup {"use"}
        /\ section[t] = {n}
        /\ ~disturbed /\ ok /\ callback = "ours" => owner[n] = t
        /\ ~disturbed /\ ok /\ callback = "other" => otherOwner[n] = t

IInv == TypeOK /\ RunnerInv /\ StageInv /\ HandleInv /\ LockInv

-----------------------------------------------------------------------------
\* Nothing is set up at first.
LEMMA InitInv == Init => IInv
<1> SUFFICES ASSUME Init PROVE IInv
  OBVIOUS
<1> USE LocksAssumption DEF Init, Labels, Registrations
<1>1. TypeOK
  <2>1. mutexes \in 0 .. NLocks
    OBVIOUS
  <2>2. owner \in [Locks -> Threads \cup {Free}] /\ otherOwner \in [Locks -> Threads \cup {Free}]
    OBVIOUS
  <2>3. section \in [Threads -> SUBSET Locks] /\ answer \in [Threads -> {"none", "NULL", "handle"}]
    OBVIOUS
  <2>4. exports \subseteq Registrations /\ pc \in [Threads -> Labels]
    OBVIOUS
  <2> QED
    BY <2>1, <2>2, <2>3, <2>4, Zenon DEF TypeOK
<1>2. RunnerInv
  BY DEF RunnerInv, Setup
<1>3. StageInv
  BY DEF StageInv, Setup, Blank
<1>4. HandleInv
  BY DEF HandleInv
<1>5. LockInv
  BY DEF LockInv
<1> QED
  BY <1>1, <1>2, <1>3, <1>4, <1>5 DEF IInv

\* A call begins.
LEMMA CallHandleInv == ASSUME IInv, NEW t \in Threads, CallHandle(t) PROVE IInv'
<1> USE LocksAssumption DEF IInv, CallHandle, Goto, Registrations, setup, libcrypto, held, control
<1>1. TypeOK'
  BY DEF TypeOK, Labels, Locks, StageInv, Setup
<1>2. RunnerInv'
  BY DEF RunnerInv, TypeOK, Setup
<1>3. StageInv'
  BY DEF RunnerInv, StageInv, HandleInv, TypeOK, Setup, Blank, Settled, Locks
<1>4. HandleInv'
  BY DEF HandleInv, StageInv, TypeOK, RunnerInv, Setup, Blank, Settled
<1>5. LockInv'
  BY DEF LockInv, HandleInv, RunnerInv, StageInv, TypeOK, Setup, Locks
<1> QED
  BY <1>1, <1>2, <1>3, <1>4, <1>5 DEF IInv

\* pthread_once lets one thread into the set-up.
LEMMA OnceInv == ASSUME IInv, NEW t \in Threads, Once(t) PROVE IInv'
<1> USE LocksAssumption DEF IInv, Once, Goto, Registrations, setup, libcrypto, held, control
<1>1. TypeOK'
  BY SMTT(30) DEF TypeOK, Labels, Locks, StageInv, Setup
<1>2. RunnerInv'
  BY DEF RunnerInv, TypeOK, Setup
<1>3. StageInv'
  BY DEF RunnerInv, StageInv, HandleInv, TypeOK, Setup, Blank, Settled, Locks
<1>4. HandleInv'
  BY DEF HandleInv, StageInv, TypeOK, RunnerInv, Setup, Blank, Settled
<1>5. LockInv'
  BY DEF LockInv, HandleInv, RunnerInv, StageInv, TypeOK, Setup, Locks
<1> QED
  BY <1>1, <1>2, <1>3, <1>4, <1>5 DEF IInv

\* A call returns.
LEMMA AnswerInv == ASSUME IInv, NEW t \in Threads, Answer(t) PROVE IInv'
<1> USE LocksAssumption DEF IInv, Answer, Goto, Registrations, setup, libcrypto, held, control
<1>1. TypeOK'
  BY DEF TypeOK, Labels, Locks, StageInv, Setup
<1>2. RunnerInv'
  BY DEF RunnerInv, TypeOK, Setup
<1>3. StageInv'
  BY DEF RunnerInv, StageInv, HandleInv, TypeOK, Setup, Blank, Settled, Locks
<1>4. HandleInv'
  BY DEF HandleInv, StageInv, TypeOK, RunnerInv, Setup, Blank, Settled
<1>5. LockInv'
  BY DEF LockInv, HandleInv, RunnerInv, StageInv, TypeOK, Setup, Locks
<1> QED
  BY <1>1, <1>2, <1>3, <1>4, <1>5 DEF IInv

\* dlopen.
LEMMA OpenInv == ASSUME IInv, NEW t \in Threads, Open(t) PROVE IInv'
<1> USE LocksAssumption DEF IInv, Open, Goto, Registrations, setup, libcrypto, held, control
<1>1. TypeOK'
  BY Zenon DEF TypeOK, Labels, Locks, StageInv, Setup
<1>2. RunnerInv'
  BY DEF RunnerInv, TypeOK, Setup
<1>3. StageInv'
  BY DEF RunnerInv, StageInv, HandleInv, TypeOK, Setup, Blank, Settled, Locks
<1>4. HandleInv'
  BY DEF HandleInv, StageInv, TypeOK, RunnerInv, Setup, Blank, Settled
<1>5. LockInv'
  BY DEF LockInv, HandleInv, RunnerInv, StageInv, TypeOK, Setup, Locks
<1> QED
  BY <1>1, <1>2, <1>3, <1>4, <1>5 DEF IInv

\* The search for symbols and for another callback.
LEMMA ProbeInv == ASSUME IInv, NEW t \in Threads, Probe(t) PROVE IInv'
<1> USE LocksAssumption DEF IInv, Probe, Goto, Registrations, setup, libcrypto, held, control
<1>1. TypeOK'
  BY Zenon DEF TypeOK, Labels, Locks, StageInv, Setup
<1>2. RunnerInv'
  BY DEF RunnerInv, TypeOK, Setup
<1>3. StageInv'
  BY DEF RunnerInv, StageInv, HandleInv, TypeOK, Setup, Blank, Settled, Locks
<1>4. HandleInv'
  BY DEF HandleInv, StageInv, TypeOK, RunnerInv, Setup, Blank, Settled
<1>5. LockInv'
  BY Zenon DEF LockInv, HandleInv, RunnerInv, StageInv, TypeOK, Setup, Locks
<1> QED
  BY <1>1, <1>2, <1>3, <1>4, <1>5 DEF IInv

\* The array of mutexes.
LEMMA AllocInv == ASSUME IInv, NEW t \in Threads, Alloc(t) PROVE IInv'
<1> USE LocksAssumption DEF IInv, Alloc, Goto, Registrations, setup, libcrypto, held, control
<1>1. TypeOK'
  BY Zenon DEF TypeOK, Labels, Locks, StageInv, Setup
<1>2. RunnerInv'
  BY DEF RunnerInv, TypeOK, Setup
<1>3. StageInv'
  BY DEF RunnerInv, StageInv, HandleInv, TypeOK, Setup, Blank, Settled, Locks
<1>4. HandleInv'
  BY DEF HandleInv, StageInv, TypeOK, RunnerInv, Setup, Blank, Settled
<1>5. LockInv'
  BY DEF LockInv, HandleInv, RunnerInv, StageInv, TypeOK, Setup, Locks
<1> QED
  BY <1>1, <1>2, <1>3, <1>4, <1>5 DEF IInv

\* One mutex, or the rollback.
LEMMA InitMutexInv == ASSUME IInv, NEW t \in Threads, InitMutex(t) PROVE IInv'
<1> USE LocksAssumption DEF IInv, InitMutex, Goto, Registrations, setup, libcrypto, held, control
<1>1. TypeOK'
  <2>1. mutexes \in 0 .. NLocks /\ mutexes < NLocks /\ NLocks \in Nat
    BY DEF TypeOK, StageInv
  <2>2. mutexes' \in 0 .. NLocks
    BY <2>1
  <2>3. pc' \in [Threads -> Labels]
    BY DEF TypeOK, Labels
  <2>4. array' \in BOOLEAN
    BY Zenon DEF TypeOK
  <2> QED
    BY <2>2, <2>3, <2>4 DEF TypeOK
<1>2. RunnerInv'
  BY DEF RunnerInv, TypeOK, Setup
<1>3. StageInv'
  BY DEF RunnerInv, StageInv, HandleInv, TypeOK, Setup, Blank, Settled, Locks
<1>4. HandleInv'
  BY DEF HandleInv, StageInv, TypeOK, RunnerInv, Setup, Blank, Settled
<1>5. LockInv'
  BY DEF LockInv, HandleInv, RunnerInv, StageInv, TypeOK, Setup, Locks
<1> QED
  BY <1>1, <1>2, <1>3, <1>4, <1>5 DEF IInv

\* The locking callback.
LEMMA SetLockInv == ASSUME IInv, NEW t \in Threads, SetLock(t) PROVE IInv'
<1> USE LocksAssumption DEF IInv, SetLock, Goto, Registrations, setup, libcrypto, held, control
<1>1. TypeOK'
  BY DEF TypeOK, Labels, Locks, StageInv, Setup
<1>2. RunnerInv'
  BY DEF RunnerInv, TypeOK, Setup
<1>3. StageInv'
  BY DEF RunnerInv, StageInv, HandleInv, TypeOK, Setup, Blank, Settled, Locks
<1>4. HandleInv'
  BY DEF HandleInv, StageInv, TypeOK, RunnerInv, Setup, Blank, Settled
<1>5. LockInv'
  BY DEF LockInv, HandleInv, RunnerInv, StageInv, TypeOK, Setup, Locks
<1> QED
  BY <1>1, <1>2, <1>3, <1>4, <1>5 DEF IInv

\* The thread ID callback.
LEMMA SetIdInv == ASSUME IInv, NEW t \in Threads, SetId(t) PROVE IInv'
<1> USE LocksAssumption DEF IInv, SetId, Goto, Registrations, setup, libcrypto, held, control
<1>1. TypeOK'
  BY DEF TypeOK, Labels, Locks, StageInv, Setup
<1>2. RunnerInv'
  BY DEF RunnerInv, TypeOK, Setup
<1>3. StageInv'
  BY DEF RunnerInv, StageInv, HandleInv, TypeOK, Setup, Blank, Settled, Locks
<1>4. HandleInv'
  BY DEF HandleInv, StageInv, TypeOK, RunnerInv, Setup, Blank, Settled
<1>5. LockInv'
  BY Zenon DEF LockInv, HandleInv, RunnerInv, StageInv, TypeOK, Setup, Locks
<1> QED
  BY <1>1, <1>2, <1>3, <1>4, <1>5 DEF IInv

\* A registration that is not exported.
LEMMA SkipRegistrationInv == ASSUME IInv, NEW t \in Threads, SkipRegistration(t) PROVE IInv'
<1> USE LocksAssumption DEF IInv, SkipRegistration, Goto, Registrations, setup, libcrypto, held, control
<1>1. TypeOK'
  BY Zenon DEF TypeOK, Labels, Locks, StageInv, Setup
<1>2. RunnerInv'
  BY DEF RunnerInv, TypeOK, Setup
<1>3. StageInv'
  BY ZenonT(40) DEF RunnerInv, StageInv, HandleInv, TypeOK, Setup, Blank, Settled, Locks
<1>4. HandleInv'
  BY DEF HandleInv, StageInv, TypeOK, RunnerInv, Setup, Blank, Settled
<1>5. LockInv'
  BY DEF LockInv, HandleInv, RunnerInv, StageInv, TypeOK, Setup, Locks
<1> QED
  BY <1>1, <1>2, <1>3, <1>4, <1>5 DEF IInv

\* A thread takes the lock of the tables it works on.
LEMMA EnterInv == ASSUME IInv, NEW t \in Threads, Enter(t) PROVE IInv'
<1> USE LocksAssumption DEF IInv, Enter, Acquire, Wanted, Goto, Registrations, setup, libcrypto, held, control
<1>1. TypeOK'
  BY DEF TypeOK, Labels, Locks, StageInv, Setup
<1>2. RunnerInv'
  BY DEF RunnerInv, TypeOK, Setup
<1>3. StageInv'
  BY DEF RunnerInv, StageInv, HandleInv, TypeOK, Setup, Blank, Settled, Locks
<1>4. HandleInv'
  BY DEF HandleInv, StageInv, TypeOK, RunnerInv, Setup, Blank, Settled
<1>5. LockInv'
  <2>1. PICK n \in Wanted(t) : Acquire(t, n) /\ section' = [section EXCEPT ![t] = {n}]
    BY Zenon DEF Enter
  <2>2. n \in Locks
    BY DEF Wanted, Locks
  <2> SUFFICES ASSUME NEW u \in Threads, NEW k \in section'[u]
               PROVE /\ pc[u] \in exports \cup {"use"}
                     /\ section'[u] = {k}
                     /\ ~disturbed /\ ok /\ callback = "ours" => owner'[k] = u
                     /\ ~disturbed /\ ok /\ callback = "other" => otherOwner'[k] = u
    BY DEF LockInv
  <2>3. CASE u = t
    <3>1. k = n /\ section'[t] = {n}
      BY <2>1, <2>3 DEF TypeOK
    <3>2. ~disturbed /\ ok /\ callback = "ours" => owner'[n] = t
      BY <2>1, <2>2 DEF TypeOK, HandleInv
    <3>3. ~disturbed /\ ok /\ callback = "other" => otherOwner'[n] = t
      BY <2>1, <2>2 DEF TypeOK
    <3> QED
      BY <3>1, <3>2, <3>3, <2>3
  <2>4. CASE u # t
    <3>1. section'[u] = section[u] /\ k \in section[u]
      BY <2>1, <2>4 DEF TypeOK
    <3>2. ~disturbed /\ ok /\ callback = "ours" => owner[k] = u /\ owner[n] = Free /\ owner' = [owner EXCEPT ![n] = t]
      BY <3>1, <2>1 DEF LockInv, HandleInv
    <3>3. ~disturbed /\ ok /\ callback = "other" => otherOwner[k] = u /\ otherOwner[n] = Free
                                       /\ otherOwner' = [otherOwner EXCEPT ![n] = t]
      BY <3>1, <2>1 DEF LockInv
    <3>4. k \in Locks /\ u # Free
      BY <3>1 DEF TypeOK
    <3> QED
      BY <3>1, <3>2, <3>3, <3>4 DEF LockInv, TypeOK
  <2> QED
    BY <2>3, <2>4
<1> QED
  BY <1>1, <1>2, <1>3, <1>4, <1>5 DEF IInv

\* A thread gives the lock back.
LEMMA LeaveInv == ASSUME IInv, NEW t \in Threads, Leave(t) PROVE IInv'
<1> USE LocksAssumption DEF IInv, Leave, Release, Goto, Registrations, setup, libcrypto, held, control
<1>0. PICK n \in section[t] : Release(t, n) /\ section' = [section EXCEPT ![t] = {}]
  BY Zenon DEF Leave
<1>a. pc[t] \in {"addAll", "addDigests", "use"} /\ n \in Locks
  BY DEF LockInv, TypeOK
<1>b. pc' \in [Threads -> Labels] /\ \A u \in Threads : u # t => pc'[u] = pc[u]
  BY <1>a DEF TypeOK, Labels
<1>1. TypeOK'
  <2>1. owner' \in [Locks -> Threads \cup {Free}] /\ otherOwner' \in [Locks -> Threads \cup {Free}]
    BY <1>0, <1>a DEF TypeOK
  <2>2. section' \in [Threads -> SUBSET Locks]
    BY <1>0 DEF TypeOK
  <2>3. registered' \subseteq Registrations /\ once' \in {"no", "running", "done"}
    BY <1>a DEF TypeOK
  <2> QED
    BY <1>b, <2>1, <2>2, <2>3 DEF TypeOK
<1>2. RunnerInv'
  BY DEF RunnerInv, TypeOK, Setup
<1>3. StageInv'
  <2> USE DEF Setup, Blank, Settled
  <2>1. CASE pc[t] = "use"
    <3>1. pc'[t] = "idle" /\ registered' = registered /\ once' = once
      BY <2>1 DEF TypeOK
    <3> QED
      BY <3>1, <1>b DEF StageInv
  <2>2. CASE pc[t] = "addAll"
    <3>1. pc'[t] = "addDigests" /\ registered' = registered \cup {"addAll"} /\ once' = once
      BY <2>2 DEF TypeOK
    <3>2. once = "running" /\ \A u \in Threads : u # t => pc[u] \notin Setup
      BY <2>2 DEF RunnerInv
    <3> QED
      BY <3>1, <3>2, <1>b, <2>2 DEF StageInv
  <2>3. CASE pc[t] = "addDigests"
    <3>1. pc'[t] = "answer" /\ registered' = registered \cup {"addDigests"} /\ once' = "done"
      BY <2>3 DEF TypeOK
    <3>2. \A u \in Threads : u # t => pc[u] \notin Setup
      BY <2>3 DEF RunnerInv
    <3>3. registered' = Registrations
      BY <3>1, <2>3 DEF StageInv, TypeOK
    <3> QED
      BY <3>1, <3>2, <3>3, <1>b, <2>3 DEF StageInv
  <2> QED
    BY <1>a, <2>1, <2>2, <2>3
<1>4. HandleInv'
  BY DEF HandleInv, StageInv, TypeOK, RunnerInv, Setup, Blank, Settled
<1>5. LockInv'
  BY DEF LockInv, HandleInv, RunnerInv, StageInv, TypeOK, Setup, Locks
<1> QED
  BY <1>1, <1>2, <1>3, <1>4, <1>5 DEF IInv

\* Another library changes the callback.
LEMMA OtherInstallsInv == ASSUME IInv, OtherInstalls PROVE IInv'
<1> USE LocksAssumption DEF IInv, OtherInstalls, Registrations, setup, libcrypto, held, control
<1>1. TypeOK'
  BY DEF TypeOK
<1>2. RunnerInv'
  BY DEF RunnerInv
<1>3. StageInv'
  BY DEF StageInv, Blank, Settled
<1>4. HandleInv'
  BY DEF HandleInv
<1>5. LockInv'
  BY DEF LockInv
<1> QED
  BY <1>1, <1>2, <1>3, <1>4, <1>5 DEF IInv

\* A step that changes nothing.
LEMMA StutterInv == ASSUME IInv, UNCHANGED vars PROVE IInv'
  BY DEF IInv, vars, control, setup, libcrypto, held, TypeOK, RunnerInv, StageInv, HandleInv,
         LockInv, Blank, Settled

-----------------------------------------------------------------------------
\* The inductive invariant holds in every state of the set-up.
THEOREM Invariant == Spec => []IInv
<1>1. Init => IInv
  BY InitInv
<1>2. IInv /\ [Next]_vars => IInv'
  <2> SUFFICES ASSUME IInv, [Next]_vars PROVE IInv'
    OBVIOUS
  <2>1. CASE UNCHANGED vars
    BY <2>1, StutterInv
  <2>2. CASE OtherInstalls
    BY <2>2, OtherInstallsInv
  <2>3. ASSUME NEW t \in Threads, CallHandle(t) \/ Step(t) PROVE IInv'
    BY <2>3, CallHandleInv, OnceInv, AnswerInv, OpenInv, ProbeInv, AllocInv, InitMutexInv,
       SetLockInv, SetIdInv, SkipRegistrationInv, EnterInv, LeaveInv DEF Step
  <2> QED
    BY <2>1, <2>2, <2>3 DEF Next
<1> QED
  BY <1>1, <1>2, PTL DEF Spec

\* Whoever has the library from tls12_libcrypto_handle finds a locking callback in
\* force and both registrations over.
THEOREM ReadyHandle == Spec => []HandleMeansReady
<1>1. IInv => HandleMeansReady
  BY DEF IInv, HandleMeansReady, HandleInv, StageInv
<1> QED
  BY <1>1, Invariant, PTL

\* No two threads are at work on the same tables of libcrypto, unless another
\* library changed the callback under a thread inside it.
THEOREM ExclusiveUse == Spec => []Exclusive
<1>1. IInv => Exclusive
  <2> SUFFICES ASSUME IInv, ~disturbed, NEW t \in Threads, NEW u \in Threads, t # u,
                      NEW n \in section[t], n \in section[u]
               PROVE FALSE
    BY DEF Exclusive
  <2>1. pc[t] \in Registrations \cup {"use"} /\ pc[u] \in Registrations \cup {"use"}
    BY DEF IInv, LockInv, TypeOK
  <2>2. CASE ok
    BY <2>2 DEF IInv, LockInv, HandleInv, TypeOK
  <2>3. CASE ~ok
    BY <2>1, <2>3 DEF IInv, HandleInv, RunnerInv, Setup
  <2> QED
    BY <2>2, <2>3
<1> QED
  BY <1>1, Invariant, PTL

\* The set-up leaves a complete array under our callback, or nothing at all.
THEOREM CompleteSetup == Spec => []AllOrNothing
<1>1. IInv => AllOrNothing
  BY DEF IInv, AllOrNothing, StageInv, Settled
<1> QED
  BY <1>1, Invariant, PTL

=============================================================================
