------------------------- MODULE SessionCacheProofs -------------------------
(***************************************************************************)
(* Proofs about SessionCache for any number of threads, keys, session      *)
(* blobs, lifetimes and clock readings.                                    *)
(***************************************************************************)
EXTENDS SessionCache, TLAPS

(* The mutex is held exactly by the thread that walks or is about to       *)
(* unlock.                                                                 *)
Holder == \A t \in Threads : (pc[t] \in {"walk", "unlock"}) <=> (lock = t)

(* A thread inside a call has the arguments of one of the four functions. *)
InCall == \A t \in Threads : pc[t] # "idle" => req[t] \in Ops

(* A walk starts at the head, without a result: the cursor is reset before *)
(* the mutex is free.                                                      *)
Rested ==
  \A t \in Threads :
    /\ pc[t] \notin {"walk", "unlock"} => cur[t] = 1
    /\ pc[t] \notin {"unlock", "return"} => res[t] = NoData

(* What a walk has established about the nodes behind its cursor. *)
Searched ==
  \A t \in Threads :
    pc[t] = "walk" /\ req[t].op \in {"add", "get", "delete"} =>
      \A j \in 1 .. Len(list) : j < cur[t] => list[j].key # req[t].key

Swept ==
  \A t \in Threads :
    pc[t] = "walk" /\ req[t].op = "cleanup" =>
      \A j \in 1 .. Len(list) : j < cur[t] => ~IsStale(list[j], rightNow[t])

(* The cache exists before anybody holds the mutex, and is empty until then. *)
NotCreatedEmpty ==
  /\ ~created => list = <<>>
  /\ lock # Unlocked => created

CacheInv ==
  /\ TypeOK
  /\ Holder
  /\ InCall
  /\ Rested
  /\ UniqueKeys
  /\ Searched
  /\ Swept
  /\ DeleteEffective
  /\ CleanupComplete
  /\ NotCreatedEmpty
-----------------------------------------------------------------------------
(* The arguments that go with each operation. *)
LEMMA OpFields ==
  ASSUME NEW r \in Ops
  PROVE  /\ r.op \in {"add", "get", "delete", "cleanup"}
         /\ r.op = "add" => r.key \in Keys /\ r.data \in Data /\ r.ttl \in TTLs
         /\ r.op \in {"get", "delete"} => r.key \in Keys
  BY Zenon DEF Ops

(* A lifetime is a natural number, the default included. *)
LEMMA LifetimeNat ==
  ASSUME NEW ttl \in TTLs
  PROVE  Lifetime(ttl) \in Nat
  BY CacheAssumption, Zenon DEF Lifetime

(* Unlinking node i closes the gap and changes nothing else. *)
LEMMA UnlinkProps ==
  ASSUME NEW S, NEW s \in Seq(S), NEW i \in 1 .. Len(s)
  PROVE  /\ Unlink(s, i) \in Seq(S)
         /\ Len(Unlink(s, i)) = Len(s) - 1
         /\ \A j \in 1 .. Len(s) - 1 :
              Unlink(s, i)[j] = IF j < i THEN s[j] ELSE s[j + 1]
  <1> DEFINE u == Unlink(s, i)
  <1>1. Len(s) - 1 \in Nat
    OBVIOUS
  <1>2. \A j \in 1 .. Len(s) - 1 : u[j] = IF j < i THEN s[j] ELSE s[j + 1]
    BY Zenon DEF Unlink
  <1>3. \A j \in 1 .. Len(s) - 1 : u[j] \in S
    BY <1>2
  <1>4. u \in [1 .. Len(s) - 1 -> S]
    BY <1>3, Zenon DEF Unlink
  <1>5. u \in Seq(S) /\ Len(u) = Len(s) - 1
    BY <1>1, <1>4
  <1> QED
    BY <1>2, <1>5, Zenon

(* Pushing an entry shifts the others by one. *)
LEMMA PushProps ==
  ASSUME NEW S, NEW s \in Seq(S), NEW e \in S
  PROVE  /\ Push(e, s) \in Seq(S)
         /\ Len(Push(e, s)) = Len(s) + 1
         /\ Push(e, s)[1] = e
         /\ \A j \in 2 .. Len(s) + 1 : Push(e, s)[j] = s[j - 1]
  <1> DEFINE u == Push(e, s)
  <1>2. u[1] = e /\ \A j \in 2 .. Len(s) + 1 : u[j] = s[j - 1]
    BY DEF Push
  <1>3. \A j \in 1 .. Len(s) + 1 : u[j] \in S
    BY <1>2
  <1>4. u \in [1 .. Len(s) + 1 -> S]
    BY <1>3, Zenon DEF Push
  <1>5. u \in Seq(S) /\ Len(u) = Len(s) + 1
    BY <1>4
  <1> QED
    BY <1>2, <1>5, Zenon
(* No two nodes of a list have the same key. *)
Distinct(s) == \A i, j \in 1 .. Len(s) : s[i].key = s[j].key => i = j

(* Taking an entry out keeps the keys distinct. *)
LEMMA UnlinkDistinct ==
  ASSUME NEW s \in Seq(Entries), NEW i \in 1 .. Len(s), Distinct(s)
  PROVE  /\ Distinct(Unlink(s, i))
         /\ \A j \in 1 .. Len(Unlink(s, i)) : Unlink(s, i)[j].key # s[i].key
  <1> DEFINE u == Unlink(s, i)
             old(j) == IF j < i THEN j ELSE j + 1
  <1>1. Len(u) = Len(s) - 1
    BY UnlinkProps, Zenon
  <1>2. \A j \in 1 .. Len(u) : old(j) \in 1 .. Len(s) /\ u[j] = s[old(j)] /\ old(j) # i
    BY <1>1 DEF Unlink
  <1> HIDE DEF u
  <1>3. Distinct(u)
    <2> SUFFICES ASSUME NEW j \in 1 .. Len(u), NEW k \in 1 .. Len(u), u[j].key = u[k].key
                 PROVE  j = k
      BY Zenon DEF Distinct
    <2>1. s[old(j)].key = s[old(k)].key
      BY <1>2, Zenon
    <2>2. old(j) = old(k)
      BY <1>2, <2>1, Zenon DEF Distinct
    <2> QED
      BY <1>1, <2>2
  <1>4. \A j \in 1 .. Len(u) : u[j].key # s[i].key
    BY <1>2, Zenon DEF Distinct
  <1> QED
    BY <1>3, <1>4, Zenon DEF u

(* A new entry whose key is not in the list keeps the keys distinct. *)
LEMMA PushDistinct ==
  ASSUME NEW s \in Seq(Entries), NEW e \in Entries, Distinct(s),
         \A j \in 1 .. Len(s) : s[j].key # e.key
  PROVE  Distinct(Push(e, s))
  <1> DEFINE u == Push(e, s)
  <1>1. Len(u) = Len(s) + 1 /\ u[1] = e /\ \A j \in 2 .. Len(s) + 1 : u[j] = s[j - 1]
    BY PushProps
  <1> HIDE DEF u
  <1> SUFFICES ASSUME NEW j \in 1 .. Len(u), NEW k \in 1 .. Len(u), u[j].key = u[k].key
               PROVE  j = k
    BY Zenon DEF Distinct, u
  <1>2. CASE j = 1 \/ k = 1
    <2>1. \A m \in 2 .. Len(s) + 1 : u[m].key # e.key
      <3> TAKE m \in 2 .. Len(s) + 1
      <3>1. u[m] = s[m - 1] /\ m - 1 \in 1 .. Len(s)
        BY <1>1
      <3> QED
        BY <3>1, Zenon
    <2> QED
      BY <1>1, <1>2, <2>1
  <1>3. CASE j # 1 /\ k # 1
    <2>1. /\ j - 1 \in 1 .. Len(s) /\ k - 1 \in 1 .. Len(s)
          /\ u[j] = s[j - 1] /\ u[k] = s[k - 1]
      BY <1>1, <1>3
    <2>2. j - 1 = k - 1
      BY <2>1, Zenon DEF Distinct
    <2> QED
      BY <2>2
  <1> QED
    BY <1>2, <1>3, Zenon
-----------------------------------------------------------------------------
(* A cache that was not created yet satisfies the invariant. *)
LEMMA InitInv == CacheInit => CacheInv
  <1> SUFFICES ASSUME CacheInit PROVE CacheInv
    BY Zenon
  <1>1. TypeOK
    <2>1. clock \in Nat /\ list \in Seq(Entries)
      BY DEF CacheInit
    <2>6. created \in BOOLEAN
      BY Zenon DEF CacheInit
    <2>2. lock \in Threads \cup {Unlocked}
      BY Zenon DEF CacheInit
    <2>3. /\ pc \in [Threads -> {"idle", "lock", "walk", "unlock", "return"}]
          /\ req \in [Threads -> Ops \cup {NoCall}]
      BY Zenon DEF CacheInit
    <2>4. cur \in [Threads -> Nat \ {0}] /\ rightNow \in [Threads -> Nat]
      BY DEF CacheInit
    <2>5. res \in [Threads -> Data \cup {NoData}]
      BY Zenon DEF CacheInit
    <2> QED
      BY <2>1, <2>2, <2>3, <2>4, <2>5, <2>6, Zenon DEF TypeOK
  <1>2. Holder /\ InCall /\ Rested /\ Searched /\ Swept /\ DeleteEffective /\ CleanupComplete
    BY LockAssumption, Zenon DEF CacheInit, Holder, InCall, Rested, Searched, Swept,
       DeleteEffective,
      CleanupComplete
  <1>3. UniqueKeys /\ NotCreatedEmpty
    BY DEF CacheInit, UniqueKeys, NotCreatedEmpty
  <1> QED
    BY <1>1, <1>2, <1>3, Zenon DEF CacheInv

(* Facts about a walking thread t: nobody else walks or is about to        *)
(* unlock, so nobody else claims anything about the list.                  *)
LEMMA Alone ==
  ASSUME CacheInv, NEW t \in Threads, pc[t] = "walk"
  PROVE  /\ lock = t
         /\ \A u \in Threads : u # t => pc[u] \notin {"walk", "unlock"}
         /\ req[t] \in Ops
         /\ created
  BY LockAssumption DEF CacheInv, Holder, InCall, NotCreatedEmpty, TypeOK

(* A walk that reaches the end has met no entry of its key. *)
LEMMA Unfound ==
  ASSUME CacheInv, NEW t \in Threads, pc[t] = "walk",
         req[t].op \in {"add", "get", "delete"}, cur[t] > Len(list)
  PROVE  \A j \in 1 .. Len(list) : list[j].key # req[t].key
  <1>1. \A j \in 1 .. Len(list) : j < cur[t] => list[j].key # req[t].key
    BY Zenon DEF CacheInv, Searched
  <1>2. cur[t] \in Nat /\ Len(list) \in Nat
    BY DEF CacheInv, TypeOK
  <1> QED
    BY <1>1, <1>2

(* A walk that stops on a match stands on a node of the list. *)
LEMMA Found ==
  ASSUME CacheInv, NEW t \in Threads, Hit(t)
  PROVE  cur[t] \in 1 .. Len(list) /\ list[cur[t]].key = req[t].key
  <1>1. cur[t] \in Nat \ {0} /\ Len(list) \in Nat
    BY DEF CacheInv, TypeOK
  <1> QED
    BY <1>1 DEF Hit, AtEnd, MatchKey, Current

(* Every step of every thread, and of the clock, keeps the invariant. *)
LEMMA StepInv == CacheInv /\ [CacheNext]_cacheVars => CacheInv'
  <1> SUFFICES ASSUME CacheInv, [CacheNext]_cacheVars
               PROVE  CacheInv'
    BY Zenon
  <1> USE CacheAssumption, LockAssumption
  <1> USE DEF CacheInv
  <1>1. CASE UNCHANGED cacheVars
    <2>1. TypeOK'
      BY <1>1, Zenon DEF cacheVars, threadVars, TypeOK
    <2>2. Holder' /\ InCall' /\ Rested'
      BY <1>1, Zenon DEF cacheVars, threadVars, TypeOK, Holder, InCall, Rested
    <2>3. UniqueKeys' /\ NotCreatedEmpty'
      BY <1>1, Zenon DEF cacheVars, threadVars, UniqueKeys, NotCreatedEmpty
    <2>4. Searched' /\ Swept'
      BY <1>1, Zenon DEF cacheVars, threadVars, TypeOK, Searched, Swept, IsStale
    <2>5. DeleteEffective' /\ CleanupComplete'
      BY <1>1, Zenon DEF cacheVars, threadVars, TypeOK, DeleteEffective, CleanupComplete, IsStale
    <2> QED
      BY <2>1, <2>2, <2>3, <2>4, <2>5, Zenon
  <1>2. CASE Tick
    <2>1. TypeOK'
      BY <1>2 DEF Tick, threadVars, TypeOK
    <2>2. Holder' /\ InCall' /\ Rested'
      BY <1>2, Zenon DEF Tick, threadVars, TypeOK, Holder, InCall, Rested
    <2>3. UniqueKeys' /\ NotCreatedEmpty'
      BY <1>2, Zenon DEF Tick, threadVars, UniqueKeys, NotCreatedEmpty
    <2>4. Searched' /\ Swept'
      BY <1>2, Zenon DEF Tick, threadVars, TypeOK, Searched, Swept, IsStale
    <2>5. DeleteEffective' /\ CleanupComplete'
      BY <1>2, Zenon DEF Tick, threadVars, TypeOK, DeleteEffective, CleanupComplete, IsStale
    <2> QED
      BY <2>1, <2>2, <2>3, <2>4, <2>5, Zenon
  <1>3. ASSUME NEW t \in Threads, Enter(t)
        PROVE  CacheInv'
    <2>1. TypeOK'
      BY <1>3 DEF Enter, TypeOK
    <2>2. Holder' /\ InCall' /\ Rested'
      BY <1>3, Zenon DEF Enter, TypeOK, Holder, InCall, Rested
    <2>3. UniqueKeys' /\ NotCreatedEmpty'
      BY <1>3, Zenon DEF Enter, UniqueKeys, NotCreatedEmpty
    <2>4. Searched' /\ Swept'
      BY <1>3 DEF Enter, TypeOK, Searched, Swept, IsStale
    <2>5. DeleteEffective' /\ CleanupComplete'
      BY <1>3 DEF Enter, TypeOK, DeleteEffective, CleanupComplete, IsStale
    <2> QED
      BY <2>1, <2>2, <2>3, <2>4, <2>5, Zenon
  <1>4. ASSUME NEW t \in Threads, GetLockedInstance(t)
        PROVE  CacheInv'
    <2>1. created' \in BOOLEAN
      BY <1>4, Zenon DEF GetLockedInstance
    <2>2. list' = list
      BY <1>4, Zenon DEF GetLockedInstance, NotCreatedEmpty
    <2>3. TypeOK'
      BY <1>4, <2>1, <2>2, Zenon DEF GetLockedInstance, TypeOK
    <2>4. Holder' /\ InCall' /\ Rested' /\ UniqueKeys'
      BY <1>4, <2>2, Zenon DEF GetLockedInstance, TypeOK, Holder, InCall, Rested, UniqueKeys
    <2>a. cur[t] = 1 /\ cur' = cur /\ \A u \in Threads : u # t => pc'[u] # "walk"
      BY <1>4, Zenon DEF GetLockedInstance, TypeOK, Holder, Rested
    <2>5. Searched' /\ Swept'
      BY <2>a, <2>2 DEF TypeOK, Searched, Swept
    <2>6. DeleteEffective' /\ CleanupComplete'
      BY <1>4, <2>2, Zenon DEF GetLockedInstance, TypeOK, Holder, DeleteEffective, CleanupComplete
    <2>7. NotCreatedEmpty'
      BY <1>4, Zenon DEF GetLockedInstance, NotCreatedEmpty
    <2> QED
      BY <2>3, <2>4, <2>5, <2>6, <2>7, Zenon
  <1>5. ASSUME NEW t \in Threads, StepPast(t)
        PROVE  CacheInv'
    <2>0. /\ pc[t] = "walk" /\ req[t].op # "cleanup" /\ ~AtEnd(t) /\ ~Hit(t)
          /\ cur' = [cur EXCEPT ![t] = @ + 1]
          /\ UNCHANGED <<clock, created, list, lock, pc, req, rightNow, res>>
      BY <1>5, Zenon DEF StepPast, Advance
    <2>1. TypeOK'
      BY <2>0, SMTT(30) DEF TypeOK
    <2>2. Holder' /\ InCall' /\ Rested'
      BY <2>0, Zenon DEF TypeOK, Holder, InCall, Rested
    <2>3. UniqueKeys' /\ NotCreatedEmpty' /\ DeleteEffective' /\ CleanupComplete'
      BY <2>0, Zenon DEF UniqueKeys, NotCreatedEmpty, DeleteEffective, CleanupComplete, IsStale
    <2>4. Searched'
      <3> SUFFICES ASSUME NEW u \in Threads, pc[u] = "walk", req[u].op \in {"add", "get", "delete"},
                          NEW j \in 1 .. Len(list), j < cur'[u]
                   PROVE  list[j].key # req[u].key
        BY <2>0, Zenon DEF Searched
      <3>1. CASE j < cur[u]
        BY <3>1, Zenon DEF Searched
      <3>2. CASE ~(j < cur[u])
        <4>1. u = t /\ j = cur[t]
          BY <2>0, <3>2 DEF TypeOK
        <4> QED
          BY <2>0, <4>1, Zenon DEF Hit, MatchKey, Current
      <3> QED
        BY <3>1, <3>2, Zenon
    <2>5. Swept'
      BY <2>0, Zenon DEF TypeOK, Swept, IsStale
    <2> QED
      BY <2>1, <2>2, <2>3, <2>4, <2>5, Zenon
  <1>6. ASSUME NEW t \in Threads, AddHit(t)
        PROVE  CacheInv'
    <2>0. /\ pc[t] = "walk" /\ req[t].op = "add" /\ cur[t] \in 1 .. Len(list)
          /\ list' = [list EXCEPT ![cur[t]] = Entry(@.key, req[t].data, @.exp)]
          /\ Finish(t, NoData)
      BY <1>6 DEF AddHit, Walking, Hit, AtEnd, TypeOK
    <2>1. /\ \A u \in Threads : u # t => pc[u] \notin {"walk", "unlock"}
          /\ req[t] \in Ops /\ created
      BY <2>0, Alone, Zenon
    <2>2. list[cur[t]] \in Entries /\ req[t].data \in Data
      BY <2>0, <2>1, OpFields DEF TypeOK
    <2>3. Entry(list[cur[t]].key, req[t].data, list[cur[t]].exp) \in Entries
      BY <2>2, Zenon DEF Entry, Entries
    <2>4. list' \in Seq(Entries) /\ Len(list') = Len(list)
      BY <2>0, <2>3 DEF TypeOK
    <2>5. \A i \in 1 .. Len(list) : list'[i].key = list[i].key
      BY <2>0, <2>2, <2>3 DEF TypeOK, Entry
    <2>6. TypeOK'
      BY <2>0, <2>4, Zenon DEF TypeOK, Finish
    <2>7. UniqueKeys'
      BY <2>4, <2>5, Zenon DEF UniqueKeys
    <2>8. Holder' /\ InCall' /\ Rested' /\ Searched' /\ Swept' /\ DeleteEffective' /\ CleanupComplete'
      BY <2>0, <2>1, Zenon DEF TypeOK, Finish, Holder, InCall, Rested, Searched, Swept,
         DeleteEffective,
        CleanupComplete
    <2>9. NotCreatedEmpty'
      BY <2>0, <2>1, Zenon DEF Finish, NotCreatedEmpty
    <2> QED
      BY <2>6, <2>7, <2>8, <2>9, Zenon
  <1>7. ASSUME NEW t \in Threads, AddMiss(t)
        PROVE  CacheInv'
    <2> DEFINE e == Entry(req[t].key, req[t].data, clock + Lifetime(req[t].ttl))
    <2>0. /\ pc[t] = "walk" /\ req[t].op = "add" /\ cur[t] > Len(list)
          /\ list' = Push(e, list)
          /\ Finish(t, NoData)
      BY <1>7, Zenon DEF AddMiss, Walking, AtEnd
    <2>1. /\ \A u \in Threads : u # t => pc[u] \notin {"walk", "unlock"}
          /\ req[t] \in Ops /\ created
      BY <2>0, Alone, Zenon
    <2>2. req[t].key \in Keys /\ req[t].data \in Data /\ req[t].ttl \in TTLs
      BY <2>0, <2>1, OpFields, Zenon
    <2>3. Lifetime(req[t].ttl) \in Nat
      BY <2>2, LifetimeNat, Zenon
    <2>4. e \in Entries /\ e.key = req[t].key
      BY <2>2, <2>3 DEF Entry, Entries, TypeOK
    <2> HIDE DEF e
    <2>5. /\ list' \in Seq(Entries)
          /\ Len(list') = Len(list) + 1
          /\ list'[1] = e
          /\ \A j \in 2 .. Len(list) + 1 : list'[j] = list[j - 1]
      <3>1. list \in Seq(Entries)
        BY Zenon DEF TypeOK
      <3>2. /\ Push(e, list) \in Seq(Entries)
            /\ Len(Push(e, list)) = Len(list) + 1
            /\ Push(e, list)[1] = e
            /\ \A j \in 2 .. Len(list) + 1 : Push(e, list)[j] = list[j - 1]
        <4>1. PICK l : l = list
          BY Zenon
        <4>2. l \in Seq(Entries)
          BY <3>1, <4>1, Zenon
        <4>3. /\ Push(e, l) \in Seq(Entries)
              /\ Len(Push(e, l)) = Len(l) + 1
              /\ Push(e, l)[1] = e
              /\ \A j \in 2 .. Len(l) + 1 : Push(e, l)[j] = l[j - 1]
          BY <2>4, <4>2, PushProps
        <4> QED  BY <4>1, <4>3, Zenon
      <3> QED
        BY <2>0, <3>2, Zenon
    <2>6. \A j \in 1 .. Len(list) : list[j].key # req[t].key
      BY <2>0, Unfound, Zenon
    <2>7. UniqueKeys'
      <3>1. list \in Seq(Entries) /\ Distinct(list)
        BY Zenon DEF TypeOK, UniqueKeys, Distinct
      <3>2. Distinct(Push(e, list))
        BY <2>4, <2>6, <3>1, PushDistinct, Zenon
      <3> QED
        BY <2>0, <3>2, Zenon DEF UniqueKeys, Distinct
    <2>8. TypeOK'
      BY <2>0, <2>5, Zenon DEF TypeOK, Finish
    <2>9. Holder' /\ InCall' /\ Rested' /\ Searched' /\ Swept'
      BY <2>0, <2>1, Zenon DEF TypeOK, Finish, Holder, InCall, Rested, Searched, Swept
    <2>10. DeleteEffective' /\ CleanupComplete'
      BY <2>0, <2>1, Zenon DEF TypeOK, Finish, DeleteEffective, CleanupComplete
    <2>11. NotCreatedEmpty'
      BY <2>0, <2>1, Zenon DEF Finish, NotCreatedEmpty
    <2> QED
      BY <2>7, <2>8, <2>9, <2>10, <2>11, Zenon
  <1>8. ASSUME NEW t \in Threads, LookupHit(t)
        PROVE  CacheInv'
    <2>0. /\ pc[t] = "walk" /\ req[t].op = "get"
          /\ list' = list
      BY <1>8, Zenon DEF LookupHit, Walking
    <2>1. /\ \A u \in Threads : u # t => pc[u] \notin {"walk", "unlock"}
          /\ req[t] \in Ops /\ created
      BY <2>0, Alone, Zenon
    <2>2. TypeOK'
      <3>1. cur[t] \in 1 .. Len(list) /\ Finish(t, list[cur[t]].data)
        BY <1>8 DEF LookupHit, Hit, AtEnd, Current, TypeOK
      <3>2. list[cur[t]].data \in Data
        <4>1. list[cur[t]] \in Entries
          BY <3>1, SMTT(30) DEF TypeOK
        <4> QED
          BY <4>1, Zenon DEF Entries
      <3> QED
        BY <2>0, <3>1, <3>2, Zenon DEF TypeOK, Finish
    <2>3. Holder' /\ InCall' /\ Rested' /\ Searched' /\ Swept' /\ UniqueKeys'
      BY <1>8, <2>0, <2>1, ZenonT(40) DEF LookupHit, TypeOK, Finish, Holder, InCall, Rested,
         Searched,
        Swept, UniqueKeys
    <2>4. DeleteEffective' /\ CleanupComplete'
      BY <1>8, <2>0, <2>1, Zenon DEF LookupHit, TypeOK, Finish, DeleteEffective,
        CleanupComplete
    <2>5. NotCreatedEmpty'
      BY <1>8, <2>0, <2>1, Zenon DEF LookupHit, Finish, NotCreatedEmpty
    <2> QED
      BY <2>2, <2>3, <2>4, <2>5, Zenon
  <1>9. ASSUME NEW t \in Threads, LookupStale(t)
        PROVE  CacheInv'
    <2>0. /\ pc[t] = "walk" /\ req[t].op = "get" /\ cur[t] \in 1 .. Len(list)
          /\ list[cur[t]].key = req[t].key
          /\ list' = Unlink(list, cur[t])
          /\ Finish(t, NoData)
      BY <1>9 DEF LookupStale, Walking, Hit, AtEnd, MatchKey, Current, TypeOK
    <2>1. /\ \A u \in Threads : u # t => pc[u] \notin {"walk", "unlock"}
          /\ req[t] \in Ops /\ created
      BY <2>0, Alone, Zenon
    <2>a. list \in Seq(Entries) /\ Distinct(list)
      BY Zenon DEF TypeOK, UniqueKeys, Distinct
    <2>2. /\ list' \in Seq(Entries)
          /\ Len(list') = Len(list) - 1
          /\ \A j \in 1 .. Len(list) - 1 :
               list'[j] = IF j < cur[t] THEN list[j] ELSE list[j + 1]
      BY <2>0, <2>a, UnlinkProps, Zenon
    <2>b. Distinct(list') /\ \A j \in 1 .. Len(list') : list'[j].key # list[cur[t]].key
      BY <2>0, <2>a, UnlinkDistinct, Zenon
    <2>3. UniqueKeys'
      BY <2>b, Zenon DEF UniqueKeys, Distinct
    <2>4. TypeOK'
      BY <2>0, <2>2, Zenon DEF TypeOK, Finish
    <2>5. Holder' /\ InCall' /\ Rested' /\ Searched' /\ Swept' /\ CleanupComplete'
      BY <2>0, <2>1, Zenon DEF TypeOK, Finish, Holder, InCall, Rested, Searched, Swept,
        CleanupComplete
    <2>6. DeleteEffective'
      BY <2>0, <2>1, Zenon DEF TypeOK, Finish, DeleteEffective
    <2>7. NotCreatedEmpty'
      BY <2>0, <2>1, Zenon DEF Finish, NotCreatedEmpty
    <2> QED
      BY <2>3, <2>4, <2>5, <2>6, <2>7, Zenon
  <1>10. ASSUME NEW t \in Threads, LookupMiss(t)
        PROVE  CacheInv'
    <2>0. /\ pc[t] = "walk" /\ req[t].op = "get"
          /\ list' = list
      BY <1>10, Zenon DEF LookupMiss, Walking
    <2>1. /\ \A u \in Threads : u # t => pc[u] \notin {"walk", "unlock"}
          /\ req[t] \in Ops /\ created
      BY <2>0, Alone, Zenon
    <2>2. TypeOK'
      BY <1>10, <2>0, Zenon DEF LookupMiss, TypeOK, Finish
    <2>3. Holder' /\ InCall' /\ Rested' /\ Searched' /\ Swept' /\ UniqueKeys'
      BY <1>10, <2>0, <2>1, Zenon DEF LookupMiss, TypeOK, Finish, Holder, InCall, Rested, Searched,
        Swept, UniqueKeys
    <2>4. DeleteEffective' /\ CleanupComplete'
      BY <1>10, <2>0, <2>1, Zenon DEF LookupMiss, TypeOK, Finish, DeleteEffective,
        CleanupComplete
    <2>5. NotCreatedEmpty'
      BY <1>10, <2>0, <2>1, Zenon DEF LookupMiss, Finish, NotCreatedEmpty
    <2> QED
      BY <2>2, <2>3, <2>4, <2>5, Zenon
  <1>11. ASSUME NEW t \in Threads, DeleteHit(t)
        PROVE  CacheInv'
    <2>0. /\ pc[t] = "walk" /\ req[t].op = "delete" /\ cur[t] \in 1 .. Len(list)
          /\ list[cur[t]].key = req[t].key
          /\ list' = Unlink(list, cur[t])
          /\ Finish(t, NoData)
      BY <1>11 DEF DeleteHit, Walking, Hit, AtEnd, MatchKey, Current, TypeOK
    <2>1. /\ \A u \in Threads : u # t => pc[u] \notin {"walk", "unlock"}
          /\ req[t] \in Ops /\ created
      BY <2>0, Alone, Zenon
    <2>a. list \in Seq(Entries) /\ Distinct(list)
      BY Zenon DEF TypeOK, UniqueKeys, Distinct
    <2>2. /\ list' \in Seq(Entries)
          /\ Len(list') = Len(list) - 1
          /\ \A j \in 1 .. Len(list) - 1 :
               list'[j] = IF j < cur[t] THEN list[j] ELSE list[j + 1]
      BY <2>0, <2>a, UnlinkProps, Zenon
    <2>b. Distinct(list') /\ \A j \in 1 .. Len(list') : list'[j].key # list[cur[t]].key
      BY <2>0, <2>a, UnlinkDistinct, Zenon
    <2>3. UniqueKeys'
      BY <2>b, Zenon DEF UniqueKeys, Distinct
    <2>4. TypeOK'
      BY <2>0, <2>2, Zenon DEF TypeOK, Finish
    <2>5. Holder' /\ InCall' /\ Rested' /\ Searched' /\ Swept' /\ CleanupComplete'
      BY <2>0, <2>1, Zenon DEF TypeOK, Finish, Holder, InCall, Rested, Searched, Swept,
        CleanupComplete
    <2>6. DeleteEffective'
      BY <2>0, <2>1, <2>b, Zenon DEF TypeOK, Finish, DeleteEffective
    <2>7. NotCreatedEmpty'
      BY <2>0, <2>1, Zenon DEF Finish, NotCreatedEmpty
    <2> QED
      BY <2>3, <2>4, <2>5, <2>6, <2>7, Zenon
  <1>12. ASSUME NEW t \in Threads, DeleteMiss(t)
        PROVE  CacheInv'
    <2>0. /\ pc[t] = "walk" /\ req[t].op = "delete"
          /\ list' = list
      BY <1>12, Zenon DEF DeleteMiss, Walking
    <2>1. /\ \A u \in Threads : u # t => pc[u] \notin {"walk", "unlock"}
          /\ req[t] \in Ops /\ created
      BY <2>0, Alone, Zenon
    <2>2. TypeOK'
      BY <1>12, <2>0, Zenon DEF DeleteMiss, TypeOK, Finish
    <2>3. Holder' /\ InCall' /\ Rested' /\ Searched' /\ Swept' /\ UniqueKeys'
      BY <1>12, <2>0, <2>1, Zenon DEF DeleteMiss, TypeOK, Finish, Holder, InCall, Rested, Searched,
        Swept, UniqueKeys
    <2>4. DeleteEffective' /\ CleanupComplete'
      <3>1. \A j \in 1 .. Len(list) : list[j].key # req[t].key
        BY <1>12, <2>0, Unfound, Zenon DEF DeleteMiss, AtEnd
      <3> QED
        BY <1>12, <2>0, <2>1, <3>1, Zenon DEF DeleteMiss, TypeOK, Finish, DeleteEffective,
           CleanupComplete
    <2>5. NotCreatedEmpty'
      BY <1>12, <2>0, <2>1, Zenon DEF DeleteMiss, Finish, NotCreatedEmpty
    <2> QED
      BY <2>2, <2>3, <2>4, <2>5, Zenon
  <1>13. ASSUME NEW t \in Threads, CleanupStale(t)
        PROVE  CacheInv'
    <2>0. /\ pc[t] = "walk" /\ req[t].op = "cleanup" /\ cur[t] \in 1 .. Len(list)
          /\ list' = Unlink(list, cur[t])
          /\ UNCHANGED <<clock, created, lock, threadVars>>
      BY <1>13 DEF CleanupStale, Walking, AtEnd, TypeOK
    <2>1. /\ \A u \in Threads : u # t => pc[u] \notin {"walk", "unlock"}
          /\ req[t] \in Ops /\ created
      BY <2>0, Alone, Zenon
    <2>a. list \in Seq(Entries) /\ Distinct(list)
      BY Zenon DEF TypeOK, UniqueKeys, Distinct
    <2>2. /\ list' \in Seq(Entries)
          /\ Len(list') = Len(list) - 1
          /\ \A j \in 1 .. Len(list) - 1 :
               list'[j] = IF j < cur[t] THEN list[j] ELSE list[j + 1]
      BY <2>0, <2>a, UnlinkProps, Zenon
    <2>b. Distinct(list') /\ \A j \in 1 .. Len(list') : list'[j].key # list[cur[t]].key
      BY <2>0, <2>a, UnlinkDistinct, Zenon
    <2>3. UniqueKeys'
      BY <2>b, Zenon DEF UniqueKeys, Distinct
    <2>4. TypeOK'
      BY <2>0, <2>2, Zenon DEF TypeOK, threadVars
    <2>5. Holder' /\ InCall' /\ Rested' /\ Searched' /\ DeleteEffective' /\ CleanupComplete'
      BY <2>0, <2>1, Zenon DEF TypeOK, threadVars, Holder, InCall, Rested, Searched,
        DeleteEffective, CleanupComplete
    <2>6. Swept'
      <3>1. \A j \in 1 .. Len(list') : j < cur[t] => ~IsStale(list'[j], rightNow[t])
        <4>1. \A j \in 1 .. Len(list) : j < cur[t] => ~IsStale(list[j], rightNow[t])
          BY <2>0, Zenon DEF Swept
        <4>2. \A j \in 1 .. Len(list') : j < cur[t] => j \in 1 .. Len(list) /\ list'[j] = list[j]
          BY <2>0, <2>2
        <4> QED
          BY <4>1, <4>2, Zenon
      <3> QED
        BY <2>0, <2>1, <3>1, Zenon DEF Swept, threadVars, TypeOK
    <2>7. NotCreatedEmpty'
      BY <2>0, <2>1, Zenon DEF threadVars, NotCreatedEmpty
    <2> QED
      BY <2>3, <2>4, <2>5, <2>6, <2>7, Zenon
  <1>14. ASSUME NEW t \in Threads, CleanupKeep(t)
        PROVE  CacheInv'
    <2>0. /\ pc[t] = "walk" /\ req[t].op = "cleanup"
          /\ ~IsStale(list[cur[t]], rightNow[t])
          /\ Advance(t)
      BY <1>14, Zenon DEF CleanupKeep, Walking, Current
    <2>1. \A u \in Threads : u # t => pc[u] \notin {"walk", "unlock"}
      BY <2>0, Alone, Zenon
    <2>2. TypeOK' /\ UniqueKeys' /\ NotCreatedEmpty' /\ Holder' /\ InCall' /\ Rested'
      BY <2>0, <2>1, SMTT(30) DEF Advance, TypeOK, UniqueKeys, NotCreatedEmpty, Holder, InCall,
         Rested
    <2>3. Searched' /\ DeleteEffective' /\ CleanupComplete'
      BY <2>0, <2>1, Zenon DEF Advance, TypeOK, Searched, DeleteEffective, CleanupComplete
    <2>4. Swept'
      <3>1. \A j \in 1 .. Len(list) : j < cur[t] + 1 => ~IsStale(list[j], rightNow[t])
        BY <2>0, SMTT(30) DEF Swept, TypeOK
      <3> QED
        BY <2>0, <2>1, <3>1, Zenon DEF Advance, Swept, TypeOK
    <2> QED
      BY <2>2, <2>3, <2>4, Zenon
  <1>15. ASSUME NEW t \in Threads, CleanupEnd(t)
        PROVE  CacheInv'
    <2>0. /\ pc[t] = "walk" /\ req[t].op = "cleanup"
          /\ list' = list
      BY <1>15, Zenon DEF CleanupEnd, Walking
    <2>1. /\ \A u \in Threads : u # t => pc[u] \notin {"walk", "unlock"}
          /\ req[t] \in Ops /\ created
      BY <2>0, Alone, Zenon
    <2>2. TypeOK'
      BY <1>15, <2>0, Zenon DEF CleanupEnd, TypeOK, Finish
    <2>3. Holder' /\ InCall' /\ Rested' /\ Searched' /\ Swept' /\ UniqueKeys'
      BY <1>15, <2>0, <2>1, ZenonT(40) DEF CleanupEnd, TypeOK, Finish, Holder, InCall, Rested,
         Searched,
        Swept, UniqueKeys
    <2>4. DeleteEffective' /\ CleanupComplete'
      <3>1. \A u \in Threads : pc'[u] = "unlock" => u = t
        BY <1>15, <2>1, Zenon DEF CleanupEnd, Finish, TypeOK
      <3>2. /\ req'[t] = req[t] /\ list' = list /\ rightNow'[t] = rightNow[t]
            /\ cur[t] > Len(list)
        BY <1>15, Zenon DEF CleanupEnd, AtEnd, Finish
      <3>3. \A i \in 1 .. Len(list) : i < cur[t]
        BY <3>2 DEF TypeOK
      <3>4. \A i \in 1 .. Len(list) : ~IsStale(list[i], rightNow[t])
        BY <2>0, <3>3, Zenon DEF Swept
      <3>5. CleanupComplete'
        BY <3>1, <3>2, <3>4, Zenon DEF CleanupComplete
      <3>6. DeleteEffective'
        BY <2>0, <3>1, <3>2, Zenon DEF DeleteEffective
      <3> QED  BY <3>5, <3>6, Zenon
    <2>5. NotCreatedEmpty'
      BY <1>15, <2>0, <2>1, Zenon DEF CleanupEnd, Finish, NotCreatedEmpty
    <2> QED
      BY <2>2, <2>3, <2>4, <2>5, Zenon
  <1>16. ASSUME NEW t \in Threads, Unlock(t)
        PROVE  CacheInv'
    <2>1. TypeOK'
      BY <1>16 DEF Unlock, TypeOK
    <2>2. Holder' /\ InCall' /\ Rested'
      BY <1>16, Zenon DEF Unlock, TypeOK, Holder, InCall, Rested
    <2>3. Searched' /\ Swept'
      BY <1>16, Zenon DEF Unlock, TypeOK, Searched, Swept, IsStale
    <2>4. UniqueKeys' /\ DeleteEffective'
      BY <1>16, Zenon DEF Unlock, TypeOK, UniqueKeys, DeleteEffective
    <2>5. CleanupComplete' /\ NotCreatedEmpty'
      BY <1>16, Zenon DEF Unlock, TypeOK, CleanupComplete, NotCreatedEmpty, IsStale
    <2> QED
      BY <2>1, <2>2, <2>3, <2>4, <2>5, Zenon
  <1>17. ASSUME NEW t \in Threads, Return(t)
        PROVE  CacheInv'
    <2>1. TypeOK'
      BY <1>17, Zenon DEF Return, TypeOK
    <2>2. Holder' /\ InCall' /\ Rested' /\ Searched' /\ Swept'
      BY <1>17, Zenon DEF Return, TypeOK, Holder, InCall, Rested, Searched, Swept
    <2>3. UniqueKeys' /\ DeleteEffective' /\ CleanupComplete' /\ NotCreatedEmpty'
      BY <1>17 DEF Return, TypeOK, UniqueKeys, DeleteEffective, CleanupComplete,
        NotCreatedEmpty
    <2> QED
      BY <2>1, <2>2, <2>3, Zenon
  <1> QED
    BY <1>1, <1>2, <1>3, <1>4, <1>5, <1>6, <1>7, <1>8, <1>9, <1>10, <1>11, <1>12,
       <1>13, <1>14, <1>15, <1>16, <1>17, Zenon
    DEF CacheNext, Locked
-----------------------------------------------------------------------------
(* The inductive invariant holds in every reachable state. *)
THEOREM CacheInvariant == CacheSafety => []CacheInv
  BY InitInv, StepInv, PTL DEF CacheSafety

(* For any number of threads, keys and lifetimes: every variable of the     *)
(* cache, its calls and its mutex stays in its set.                         *)
THEOREM TypeCorrect == CacheSafety => []TypeOK
  <1>1. CacheInv => TypeOK
    BY Zenon DEF CacheInv
  <1> QED
    BY <1>1, CacheInvariant, PTL

(* No key is cached twice, whichever threads add it (SessionCacheAddEntry). *)
THEOREM KeysUnique == CacheSafety => []UniqueKeys
  <1>1. CacheInv => UniqueKeys
    BY Zenon DEF CacheInv
  <1> QED
    BY <1>1, CacheInvariant, PTL

(* A delete leaves no entry of its key (sslDeleteSession). *)
THEOREM DeletesTakeEffect == CacheSafety => []DeleteEffective
  <1>1. CacheInv => DeleteEffective
    BY Zenon DEF CacheInv
  <1> QED
    BY <1>1, CacheInvariant, PTL

(* A cleanup leaves no stale entry (sslCleanupSession). *)
THEOREM CleanupsComplete == CacheSafety => []CleanupComplete
  <1>1. CacheInv => CleanupComplete
    BY Zenon DEF CacheInv
  <1> QED
    BY <1>1, CacheInvariant, PTL

(* Every change of the list is one of four, each of which spares the       *)
(* expiration of the keys that stay.                                       *)
KeepsExpirations(s, u) ==
  \A i \in 1 .. Len(s), j \in 1 .. Len(u) : s[i].key = u[j].key => s[i].exp = u[j].exp

(* Taking an entry out moves no expiration. *)
LEMMA UnlinkKeeps ==
  ASSUME NEW s \in Seq(Entries), NEW i \in 1 .. Len(s), Distinct(s)
  PROVE  KeepsExpirations(s, Unlink(s, i))
  <1> SUFFICES ASSUME NEW m \in 1 .. Len(s), NEW j \in 1 .. Len(Unlink(s, i)),
                      s[m].key = Unlink(s, i)[j].key
               PROVE  s[m].exp = Unlink(s, i)[j].exp
    BY Zenon DEF KeepsExpirations
  <1>1. PICK k \in 1 .. Len(s) : Unlink(s, i)[j] = s[k]
    <2>1. j \in 1 .. Len(s) - 1
      BY UnlinkProps, Zenon
    <2>2. Unlink(s, i)[j] = IF j < i THEN s[j] ELSE s[j + 1]
      BY <2>1, Zenon DEF Unlink
    <2>3. CASE j < i
      BY <2>1, <2>2, <2>3
    <2>4. CASE ~(j < i)
      BY <2>1, <2>2, <2>4
    <2> QED
      BY <2>3, <2>4, Zenon
  <1>2. m = k
    BY <1>1, Zenon DEF Distinct
  <1> QED
    BY <1>1, <1>2, Zenon

(* No step moves the expiration of a key that stays. *)
LEMMA StepKeepsExpirations ==
  ASSUME CacheInv, CacheNext
  PROVE  KeepsExpirations(list, list')
  <1> USE DEF CacheInv
  <1>0. list \in Seq(Entries) /\ Distinct(list)
    BY Zenon DEF TypeOK, UniqueKeys, Distinct
  <1>1. CASE list' = list
    BY <1>0, <1>1, Zenon DEF KeepsExpirations, Distinct
  <1>2. ASSUME NEW t \in Threads, AddHit(t)
        PROVE  KeepsExpirations(list, list')
    <2>1. /\ cur[t] \in 1 .. Len(list)
          /\ list' = [list EXCEPT ![cur[t]] = Entry(@.key, req[t].data, @.exp)]
      BY <1>2 DEF AddHit, Hit, AtEnd, TypeOK
    <2>2. Len(list') = Len(list)
      BY <1>0, <2>1
    <2>3. \A j \in 1 .. Len(list) : list'[j].key = list[j].key /\ list'[j].exp = list[j].exp
      BY <1>0, <2>1 DEF Entry
    <2> QED
      BY <1>0, <2>2, <2>3, Zenon DEF KeepsExpirations, Distinct
  <1>3. ASSUME NEW t \in Threads, AddMiss(t)
        PROVE  KeepsExpirations(list, list')
    <2> DEFINE e == Entry(req[t].key, req[t].data, clock + Lifetime(req[t].ttl))
    <2>1. /\ Walking(t, "add") /\ cur[t] > Len(list)
          /\ list' = Push(e, list)
      BY <1>3, Zenon DEF AddMiss, AtEnd
    <2>2. \A j \in 1 .. Len(list) : list[j].key # e.key
      <3>1. e.key = req[t].key
        BY Zenon DEF Entry
      <3>2. \A j \in 1 .. Len(list) : list[j].key # req[t].key
        BY <2>1, Unfound, Zenon DEF Walking
      <3> QED
        BY <3>1, <3>2, Zenon
    <2> HIDE DEF e
    <2>3. /\ Len(list') = Len(list) + 1 /\ list'[1] = e
          /\ \A j \in 2 .. Len(list) + 1 : list'[j] = list[j - 1]
      BY <1>0, <2>1 DEF Push
    <2> SUFFICES ASSUME NEW i \in 1 .. Len(list), NEW j \in 1 .. Len(list'),
                        list[i].key = list'[j].key
                 PROVE  list[i].exp = list'[j].exp
      BY Zenon DEF KeepsExpirations
    <2>4. j # 1
      BY <2>2, <2>3, Zenon
    <2>5. j - 1 \in 1 .. Len(list) /\ list'[j] = list[j - 1]
      BY <1>0, <2>3, <2>4
    <2>6. i = j - 1
      BY <2>5, <1>0, Zenon DEF Distinct
    <2> QED
      BY <2>5, <2>6, Zenon
  <1>4. ASSUME NEW t \in Threads, LookupStale(t) \/ DeleteHit(t) \/ CleanupStale(t)
        PROVE  KeepsExpirations(list, list')
    <2>1. cur[t] \in 1 .. Len(list) /\ list' = Unlink(list, cur[t])
      BY <1>4, SMTT(30) DEF LookupStale, DeleteHit, CleanupStale, Hit, AtEnd, TypeOK
    <2> QED
      BY <1>0, <2>1, UnlinkKeeps, Zenon
  <1>5. ASSUME NEW t \in Threads,
               Enter(t) \/ StepPast(t) \/ LookupHit(t) \/ LookupMiss(t) \/ DeleteMiss(t)
                 \/ CleanupKeep(t) \/ CleanupEnd(t) \/ Unlock(t) \/ Return(t)
        PROVE  list' = list
    BY <1>5, Zenon DEF Enter, StepPast, LookupHit, LookupMiss, DeleteMiss, CleanupKeep, CleanupEnd,
      Unlock, Return, Advance, Finish
  <1>6. ASSUME NEW t \in Threads, GetLockedInstance(t)
        PROVE  list' = list
    BY <1>6, Zenon DEF GetLockedInstance, NotCreatedEmpty
  <1>7. ASSUME Tick
        PROVE  list' = list
    BY <1>7, Zenon DEF Tick
  <1> QED
    BY <1>1, <1>2, <1>3, <1>4, <1>5, <1>6, <1>7, Zenon DEF CacheNext, Locked

(* An entry's expiration never moves while it is cached, whatever the      *)
(* threads do: re-use does not prolong a session.                          *)
THEOREM ExpirationNeverMoves == CacheSafety => ExpirationFixed
  <1>1. CacheInv /\ [CacheNext]_cacheVars
          => [\A i \in 1 .. Len(list), j \in 1 .. Len(list') :
                list[i].key = list'[j].key => list[i].exp = list'[j].exp]_list
    BY StepKeepsExpirations, Zenon DEF KeepsExpirations, cacheVars
  <1> QED
    BY <1>1, CacheInvariant, PTL DEF CacheSafety, ExpirationFixed
-----------------------------------------------------------------------------
(* The refinement.  Outside a cleanup the abstract map is the set of all   *)
(* nodes of the list.                                                      *)
Nodes(s) == {s[i] : i \in 1 .. Len(s)}

(* While no cleanup walks, the abstract map holds every entry. *)
LEMMA NoCleanupMap ==
  ASSUME \A t \in Threads : ~Walking(t, "cleanup")
  PROVE  AbstractMap = Nodes(list)
  BY Zenon DEF AbstractMap, Doomed, Nodes

(* The same of the next state. *)
LEMMA NoCleanupMapNext ==
  ASSUME \A t \in Threads : ~Walking(t, "cleanup")'
  PROVE  AbstractMap' = Nodes(list')
  BY Zenon DEF AbstractMap, Doomed, Nodes

(* Taking an entry out of the list takes it out of the set of entries. *)
LEMMA UnlinkNodes ==
  ASSUME NEW s \in Seq(Entries), NEW i \in 1 .. Len(s), Distinct(s)
  PROVE  Nodes(Unlink(s, i)) = Nodes(s) \ {s[i]}
  <1> DEFINE u == Unlink(s, i)
  <1>1. Len(u) = Len(s) - 1
    BY UnlinkProps, Zenon
  <1>2. \A j \in 1 .. Len(u) : u[j] = IF j < i THEN s[j] ELSE s[j + 1]
    BY <1>1, Zenon DEF Unlink
  <1>3. \A j \in 1 .. Len(u) : u[j].key # s[i].key
    BY UnlinkDistinct, Zenon
  <1> HIDE DEF u
  <1>4. ASSUME NEW j \in 1 .. Len(u) PROVE u[j] \in Nodes(s) \ {s[i]}
    <2>1. u[j] # s[i]
      BY <1>3, Zenon
    <2>2. CASE j < i
      BY <1>1, <1>2, <2>1, <2>2 DEF Nodes
    <2>3. CASE ~(j < i)
      <3>1. u[j] = s[j + 1] /\ j + 1 \in 1 .. Len(s)
        BY <1>1, <1>2, <2>3
      <3> QED
        BY <2>1, <3>1 DEF Nodes
    <2> QED
      BY <2>2, <2>3, Zenon
  <1>5. ASSUME NEW k \in 1 .. Len(s), s[k] # s[i] PROVE s[k] \in Nodes(u)
    <2>1. CASE k < i
      BY <1>1, <1>2, <2>1 DEF Nodes
    <2>2. CASE k > i
      <3>1. k - 1 \in 1 .. Len(u) /\ u[k - 1] = s[k]
        BY <1>1, <1>2, <2>2
      <3> QED
        BY <3>1, Zenon DEF Nodes
    <2> QED
      BY <1>5, <2>1, <2>2
  <1> QED
    BY <1>4, <1>5, Zenon DEF Nodes, u

(* A new entry joins the set of entries. *)
LEMMA PushNodes ==
  ASSUME NEW s \in Seq(Entries), NEW e \in Entries
  PROVE  Nodes(Push(e, s)) = Nodes(s) \cup {e}
  <1> DEFINE u == Push(e, s)
  <1>1. Len(u) = Len(s) + 1 /\ u[1] = e /\ \A j \in 2 .. Len(s) + 1 : u[j] = s[j - 1]
    BY PushProps
  <1> HIDE DEF u
  <1>2. ASSUME NEW j \in 1 .. Len(u) PROVE u[j] \in Nodes(s) \cup {e}
    <2>1. CASE j = 1
      BY <1>1, <2>1, Zenon
    <2>2. CASE j # 1
      <3>1. u[j] = s[j - 1] /\ j - 1 \in 1 .. Len(s)
        BY <1>1, <2>2
      <3> QED
        BY <3>1, Zenon DEF Nodes
    <2> QED
      BY <2>1, <2>2, Zenon
  <1>3. e \in Nodes(u)
    BY <1>1 DEF Nodes
  <1>4. ASSUME NEW k \in 1 .. Len(s) PROVE s[k] \in Nodes(u)
    <2>1. k + 1 \in 1 .. Len(u) /\ u[k + 1] = s[k]
      BY <1>1
    <2> QED
      BY <2>1, Zenon DEF Nodes
  <1> QED
    BY <1>2, <1>3, <1>4, Zenon DEF Nodes, u

(* The entries of one key: the node the walk stopped at, or none. *)
LEMMA HitMatches ==
  ASSUME CacheInv, NEW i \in 1 .. Len(list)
  PROVE  Abstract!Matches(Nodes(list), list[i].key) = {list[i]}
  BY Zenon DEF CacheInv, UniqueKeys, Nodes, Abstract!Matches, Abstract!MatchKey

(* A walk that reached the end met no entry of its key. *)
LEMMA MissMatches ==
  ASSUME CacheInv, NEW k, \A i \in 1 .. Len(list) : list[i].key # k
  PROVE  Abstract!Matches(Nodes(list), k) = {}
  BY Zenon DEF CacheInv, Nodes, Abstract!Matches, Abstract!MatchKey

(* A call that is about to take effect maps to MapTake. *)
LEMMA FinishTakes ==
  ASSUME CacheInv, NEW t \in Threads, pc[t] = "walk", req[t].op # "cleanup",
         NEW r, Finish(t, r),
         Nodes(list') = Abstract!Effect(Nodes(list), req[t], clock),
         r = Abstract!Result(Nodes(list), req[t], clock)
  PROVE  Abstract!MapTake(t)
  <1>1. \A u \in Threads : u # t => pc[u] \notin {"walk", "unlock"}
    BY Alone, Zenon
  <1>2. AbstractMap = Nodes(list)
    <2>1. \A u \in Threads : ~Walking(u, "cleanup")
      BY <1>1, Zenon DEF Walking
    <2> QED
      BY <2>1, NoCleanupMap, Zenon
  <1>3. AbstractMap' = Nodes(list')
    <2>1. \A u \in Threads : ~Walking(u, "cleanup")'
      BY <1>1, Zenon DEF Walking, Finish, CacheInv, TypeOK
    <2> QED
      BY <2>1, NoCleanupMapNext, Zenon
  <1>4. /\ [u \in Threads |-> AbstractStatus(u)][t] = "pending"
        /\ [u \in Threads |-> AbstractStatus(u)]'
             = [[u \in Threads |-> AbstractStatus(u)] EXCEPT ![t] = "done"]
    BY ZenonT(40) DEF AbstractStatus, Finish, CacheInv, TypeOK
  <1>5. /\ res' = [res EXCEPT ![t] = Abstract!Result(AbstractMap, req[t], clock)]
        /\ clock' = clock /\ req' = req
    BY <1>2, Zenon DEF Finish
  <1> QED
    BY <1>2, <1>3, <1>4, <1>5, Zenon DEF Abstract!MapTake

(* A step that leaves the nodes, the calls and their results alone is a    *)
(* stutter of the abstract map when no cleanup is under way.               *)
LEMMA StatusStutters ==
  ASSUME \A u \in Threads : AbstractStatus(u)' = AbstractStatus(u)
  PROVE  [u \in Threads |-> AbstractStatus(u)]' = [u \in Threads |-> AbstractStatus(u)]
  BY Zenon

(* Every step of the list is a step of the map or a stutter. *)
LEMMA StepRefines ==
  ASSUME CacheInv, [CacheNext]_cacheVars
  PROVE  [Abstract!MapNext]_(Abstract!mapVars)
  <1> USE DEF CacheInv
  <1> DEFINE status == [u \in Threads |-> AbstractStatus(u)]
             Stutter == /\ clock' = clock /\ AbstractMap' = AbstractMap
                        /\ status' = status /\ req' = req /\ res' = res
  <1>0. list \in Seq(Entries) /\ Distinct(list)
    BY Zenon DEF TypeOK, UniqueKeys, Distinct
  <1>s. Stutter => UNCHANGED Abstract!mapVars
    BY Zenon DEF Abstract!mapVars
  <1>1. ASSUME UNCHANGED cacheVars PROVE Stutter
    BY <1>1, Zenon DEF cacheVars, threadVars, AbstractMap, Doomed, Walking, AbstractStatus
  <1>2. ASSUME Tick PROVE Abstract!MapTick
    BY <1>2, Zenon DEF Tick, threadVars, AbstractMap, Doomed, Walking, AbstractStatus,
       Abstract!MapTick
  <1>3. ASSUME NEW t \in Threads, Enter(t) PROVE Abstract!MapCall(t)
    <2>1. AbstractMap' = AbstractMap
      <3>1. \A u \in Threads : Walking(u, "cleanup")' <=> Walking(u, "cleanup")
        BY <1>3, Zenon DEF Enter, Walking, TypeOK
      <3> QED
        BY <1>3, <3>1, Zenon DEF Enter, AbstractMap, Doomed
    <2>2. status[t] = "idle" /\ status' = [status EXCEPT ![t] = "pending"]
      BY <1>3, Zenon DEF Enter, AbstractStatus, TypeOK
    <2>3. \E r \in Abstract!Ops : req' = [req EXCEPT ![t] = r]
      BY <1>3, Zenon DEF Enter, Ops, Abstract!Ops
    <2> QED
      BY <1>3, <2>1, <2>2, <2>3, Zenon DEF Enter, Abstract!MapCall
  <1>4. ASSUME NEW t \in Threads, GetLockedInstance(t), req[t].op # "cleanup" PROVE Stutter
    <2>1. list' = list
      BY <1>4, Zenon DEF GetLockedInstance, NotCreatedEmpty
    <2>2. \A u \in Threads : ~Walking(u, "cleanup") /\ ~Walking(u, "cleanup")'
      BY <1>4, LockAssumption, Zenon DEF GetLockedInstance, Walking, Holder, TypeOK
    <2>3. AbstractMap' = AbstractMap
      BY <2>1, <2>2, NoCleanupMap, NoCleanupMapNext, Zenon
    <2>4. \A u \in Threads : AbstractStatus(u)' = AbstractStatus(u)
      BY <1>4, Zenon DEF GetLockedInstance, AbstractStatus, TypeOK
    <2> QED
      BY <1>4, <2>3, <2>4, Zenon DEF GetLockedInstance
  <1>5. ASSUME NEW t \in Threads, GetLockedInstance(t), req[t].op = "cleanup"
        PROVE  Abstract!MapTake(t)
    <2>1. list' = list
      BY <1>5, Zenon DEF GetLockedInstance, NotCreatedEmpty
    <2>2. AbstractMap = Nodes(list)
      <3>1. \A u \in Threads : ~Walking(u, "cleanup")
        BY <1>5, LockAssumption, Zenon DEF GetLockedInstance, Walking, Holder
      <3> QED
        BY <3>1, NoCleanupMap, Zenon
    <2>3. \A i \in 1 .. Len(list) : Doomed(i)' <=> IsStale(list[i], clock)
      <3>1. /\ pc'[t] = "walk" /\ req' = req /\ cur'[t] = 1 /\ rightNow'[t] = clock
            /\ \A u \in Threads : u # t => pc'[u] # "walk"
        BY <1>5, LockAssumption, Zenon DEF GetLockedInstance, Holder, Rested, TypeOK
      <3> QED
        BY <1>5, <2>1, <3>1 DEF Doomed, Walking, IsStale
    <2>4. AbstractMap' = Abstract!Live(AbstractMap, clock)
      BY <2>1, <2>2, <2>3, Zenon DEF AbstractMap, Nodes, Abstract!Live, IsStale, Abstract!IsStale
    <2>5. status[t] = "pending" /\ status' = [status EXCEPT ![t] = "done"]
      BY <1>5, Zenon DEF GetLockedInstance, AbstractStatus, TypeOK
    <2>6. /\ Abstract!Effect(AbstractMap, req[t], clock) = Abstract!Live(AbstractMap, clock)
          /\ Abstract!Result(AbstractMap, req[t], clock) = NoData
      BY <1>5, Zenon DEF Abstract!Effect, Abstract!Result
    <2>7. res[t] = NoData
      BY <1>5, Zenon DEF GetLockedInstance, Rested
    <2> QED
      BY <1>5, <2>4, <2>5, <2>6, <2>7, Zenon DEF GetLockedInstance, Abstract!MapTake, TypeOK
  <1>6. ASSUME NEW t \in Threads, StepPast(t) PROVE Stutter
    <2>1. pc[t] = "walk" /\ req[t].op # "cleanup" /\ Advance(t)
      BY <1>6, Zenon DEF StepPast
    <2>2. \A u \in Threads : u # t => pc[u] # "walk"
      BY <2>1, Alone, Zenon
    <2>3. \A u \in Threads : ~Walking(u, "cleanup") /\ ~Walking(u, "cleanup")'
      BY <2>1, <2>2, Zenon DEF Advance, Walking
    <2>4. AbstractMap' = AbstractMap
      BY <2>1, <2>3, NoCleanupMap, NoCleanupMapNext, Zenon DEF Advance
    <2> QED
      BY <2>1, <2>4, Zenon DEF Advance, AbstractStatus
  <1>7. ASSUME NEW t \in Threads, AddHit(t) PROVE Abstract!MapTake(t)
    <2>1. /\ pc[t] = "walk" /\ req[t].op = "add" /\ cur[t] \in 1 .. Len(list)
          /\ list[cur[t]].key = req[t].key
      BY <1>7, Found, Zenon DEF AddHit, Walking
    <2>2. Abstract!Matches(Nodes(list), req[t].key) = {list[cur[t]]}
      BY <2>1, HitMatches, Zenon
    <2>3. /\ list' = [list EXCEPT ![cur[t]] = Entry(@.key, req[t].data, @.exp)]
          /\ Finish(t, NoData)
      BY <1>7, Zenon DEF AddHit
    <2> DEFINE old == list[cur[t]]
               new == Entry(list[cur[t]].key, req[t].data, list[cur[t]].exp)
    <2>4. Nodes(list') = (Nodes(list) \ {old}) \cup {new}
      <3>1. Len(list') = Len(list) /\ list'[cur[t]] = new
            /\ \A j \in 1 .. Len(list) : j # cur[t] => list'[j] = list[j] /\ list[j] # old
        <4>1. Len(list') = Len(list) /\ list'[cur[t]] = new
          BY <1>0, <2>1, <2>3
        <4>2. \A j \in 1 .. Len(list) : j # cur[t] => list'[j] = list[j]
          BY <1>0, <2>1, <2>3
        <4>3. \A j \in 1 .. Len(list) : j # cur[t] => list[j] # old
          BY <1>0, <2>1, Zenon DEF Distinct
        <4> QED
          BY <4>1, <4>2, <4>3, Zenon
      <3> HIDE DEF new, old
      <3>2. \A x : x \in Nodes(list') => x \in (Nodes(list) \ {old}) \cup {new}
        BY <3>1, Zenon DEF Nodes
      <3>3. \A x : x \in Nodes(list) \ {old} => x \in Nodes(list')
        BY <3>1, Zenon DEF Nodes, old
      <3>4. new \in Nodes(list')
        BY <2>1, <3>1, Zenon DEF Nodes
      <3> QED
        BY <3>2, <3>3, <3>4, Zenon
    <2>5. Abstract!Effect(Nodes(list), req[t], clock) = (Nodes(list) \ {old}) \cup {new}
      BY <2>1, <2>2, Zenon DEF Abstract!Effect, Abstract!MapAdd, Entry, Abstract!Entry
    <2>6. Abstract!Result(Nodes(list), req[t], clock) = NoData
      BY <2>1, Zenon DEF Abstract!Result
    <2> QED
      BY <2>1, <2>3, <2>4, <2>5, <2>6, FinishTakes, ZenonT(40)
  <1>8. ASSUME NEW t \in Threads, AddMiss(t) PROVE Abstract!MapTake(t)
    <2>1. /\ pc[t] = "walk" /\ req[t].op = "add" /\ cur[t] > Len(list)
      BY <1>8, Zenon DEF AddMiss, Walking, AtEnd
    <2>2. Abstract!Matches(Nodes(list), req[t].key) = {}
      <3>1. \A j \in 1 .. Len(list) : list[j].key # req[t].key
        BY <2>1, Unfound, Zenon
      <3> QED
        BY <3>1, MissMatches, Zenon
    <2> DEFINE new == Entry(req[t].key, req[t].data, clock + Lifetime(req[t].ttl))
    <2>3. list' = Push(new, list) /\ Finish(t, NoData)
      BY <1>8, Zenon DEF AddMiss
    <2>4. new \in Entries
      <3>1. req[t] \in Ops
        BY <2>1, Alone, Zenon
      <3>2. req[t].key \in Keys /\ req[t].data \in Data /\ req[t].ttl \in TTLs
        BY <2>1, <3>1, OpFields, Zenon
      <3> QED
        BY <3>2, LifetimeNat, SMTT(30) DEF Entry, Entries, TypeOK
    <2>5. Nodes(list') = Nodes(list) \cup {new}
      BY <1>0, <2>3, <2>4, PushNodes, Zenon
    <2>6. Abstract!Effect(Nodes(list), req[t], clock) = Nodes(list) \cup {new}
      BY <2>1, <2>2, Zenon
      DEF Abstract!Effect, Abstract!MapAdd, Entry, Abstract!Entry, Lifetime, Abstract!Lifetime
    <2>7. Abstract!Result(Nodes(list), req[t], clock) = NoData
      BY <2>1, Zenon DEF Abstract!Result
    <2> QED
      BY <2>1, <2>3, <2>5, <2>6, <2>7, FinishTakes, ZenonT(40)
  <1>9. ASSUME NEW t \in Threads, LookupHit(t) PROVE Abstract!MapTake(t)
    <2>1. /\ pc[t] = "walk" /\ req[t].op = "get" /\ cur[t] \in 1 .. Len(list)
          /\ list[cur[t]].key = req[t].key
      BY <1>9, Found, Zenon DEF LookupHit, Walking
    <2>2. Abstract!Matches(Nodes(list), req[t].key) = {list[cur[t]]}
      BY <2>1, HitMatches, ZenonT(40)
    <2>3. /\ list' = list /\ Finish(t, list[cur[t]].data)
          /\ ~Abstract!IsStale(list[cur[t]], clock)
      BY <1>9, Zenon DEF LookupHit, Current, IsStale, Abstract!IsStale
    <2>4. Abstract!Effect(Nodes(list), req[t], clock) = Nodes(list)
      BY <2>1, <2>2, <2>3, Zenon DEF Abstract!Effect, Abstract!MapGet
    <2>5. Abstract!Live(Abstract!Matches(Nodes(list), req[t].key), clock) = {list[cur[t]]}
      BY <2>2, <2>3, Zenon DEF Abstract!Live
    <2>6. Abstract!Result(Nodes(list), req[t], clock) = list[cur[t]].data
      BY <2>1, <2>5, Zenon DEF Abstract!Result, Abstract!MapGetResult
    <2>7. Nodes(list') = Nodes(list)
      BY <2>3, Zenon
    <2> QED
      BY <2>1, <2>3, <2>4, <2>6, <2>7, FinishTakes, Zenon
  <1>10. ASSUME NEW t \in Threads, LookupStale(t) PROVE Abstract!MapTake(t)
    <2>1. /\ pc[t] = "walk" /\ req[t].op = "get" /\ cur[t] \in 1 .. Len(list)
          /\ list[cur[t]].key = req[t].key
      BY <1>10, Found, Zenon DEF LookupStale, Walking
    <2>2. Abstract!Matches(Nodes(list), req[t].key) = {list[cur[t]]}
      BY <2>1, HitMatches, ZenonT(40)
    <2>3. /\ list' = Unlink(list, cur[t]) /\ Finish(t, NoData)
          /\ Abstract!IsStale(list[cur[t]], clock)
      BY <1>10, Zenon DEF LookupStale, Current, IsStale, Abstract!IsStale
    <2>4. Nodes(list') = Nodes(list) \ {list[cur[t]]}
      BY <1>0, <2>1, <2>3, UnlinkNodes, Zenon
    <2>5. Abstract!Effect(Nodes(list), req[t], clock) = Nodes(list) \ {list[cur[t]]}
      BY <2>1, <2>2, <2>3, Zenon DEF Abstract!Effect, Abstract!MapGet
    <2>6. Abstract!Live(Abstract!Matches(Nodes(list), req[t].key), clock) = {}
      BY <2>2, <2>3, Zenon DEF Abstract!Live
    <2>7. Abstract!Result(Nodes(list), req[t], clock) = NoData
      BY <2>1, <2>6, Zenon DEF Abstract!Result, Abstract!MapGetResult
    <2> QED
      BY <2>1, <2>3, <2>4, <2>5, <2>7, FinishTakes, Zenon
  <1>11. ASSUME NEW t \in Threads, LookupMiss(t) PROVE Abstract!MapTake(t)
    <2>1. /\ pc[t] = "walk" /\ req[t].op = "get" /\ cur[t] > Len(list)
      BY <1>11, Zenon DEF LookupMiss, Walking, AtEnd
    <2>2. Abstract!Matches(Nodes(list), req[t].key) = {}
      <3>1. \A j \in 1 .. Len(list) : list[j].key # req[t].key
        BY <2>1, Unfound, Zenon
      <3> QED
        BY <3>1, MissMatches, Zenon
    <2>3. list' = list /\ Finish(t, NoData)
      BY <1>11, Zenon DEF LookupMiss
    <2>4. Abstract!Effect(Nodes(list), req[t], clock) = Nodes(list)
      BY <2>1, <2>2, Zenon DEF Abstract!Effect, Abstract!MapGet
    <2>5. Abstract!Result(Nodes(list), req[t], clock) = NoData
      BY <2>1, <2>2, Zenon DEF Abstract!Result, Abstract!MapGetResult, Abstract!Live
    <2>6. Nodes(list') = Nodes(list)
      BY <2>3, Zenon
    <2> QED
      BY <2>1, <2>3, <2>4, <2>5, <2>6, FinishTakes, ZenonT(40)
  <1>12. ASSUME NEW t \in Threads, DeleteHit(t) PROVE Abstract!MapTake(t)
    <2>1. /\ pc[t] = "walk" /\ req[t].op = "delete" /\ cur[t] \in 1 .. Len(list)
          /\ list[cur[t]].key = req[t].key
      BY <1>12, Found, Zenon DEF DeleteHit, Walking
    <2>2. Abstract!Matches(Nodes(list), req[t].key) = {list[cur[t]]}
      BY <2>1, HitMatches, ZenonT(40)
    <2>3. list' = Unlink(list, cur[t]) /\ Finish(t, NoData)
      BY <1>12, Zenon DEF DeleteHit
    <2>4. Nodes(list') = Nodes(list) \ {list[cur[t]]}
      BY <1>0, <2>1, <2>3, UnlinkNodes, Zenon
    <2>5. Abstract!Effect(Nodes(list), req[t], clock) = Nodes(list) \ {list[cur[t]]}
      BY <2>1, <2>2, Zenon DEF Abstract!Effect
    <2>6. Abstract!Result(Nodes(list), req[t], clock) = NoData
      BY <2>1, Zenon DEF Abstract!Result
    <2> QED
      BY <2>1, <2>3, <2>4, <2>5, <2>6, FinishTakes, Zenon
  <1>13. ASSUME NEW t \in Threads, DeleteMiss(t) PROVE Abstract!MapTake(t)
    <2>1. /\ pc[t] = "walk" /\ req[t].op = "delete" /\ cur[t] > Len(list)
      BY <1>13, Zenon DEF DeleteMiss, Walking, AtEnd
    <2>2. Abstract!Matches(Nodes(list), req[t].key) = {}
      <3>1. \A j \in 1 .. Len(list) : list[j].key # req[t].key
        BY <2>1, Unfound, Zenon
      <3> QED
        BY <3>1, MissMatches, Zenon
    <2>3. list' = list /\ Finish(t, NoData)
      BY <1>13, Zenon DEF DeleteMiss
    <2>4. Abstract!Effect(Nodes(list), req[t], clock) = Nodes(list)
      BY <2>1, <2>2, Zenon DEF Abstract!Effect
    <2>5. Abstract!Result(Nodes(list), req[t], clock) = NoData
      BY <2>1, Zenon DEF Abstract!Result
    <2>6. Nodes(list') = Nodes(list)
      BY <2>3, Zenon
    <2> QED
      BY <2>1, <2>3, <2>4, <2>5, <2>6, FinishTakes, Zenon
  <1>14. ASSUME NEW t \in Threads, CleanupStale(t) PROVE Stutter
    <2>1. /\ pc[t] = "walk" /\ req[t].op = "cleanup" /\ cur[t] \in 1 .. Len(list)
          /\ IsStale(list[cur[t]], rightNow[t])
          /\ list' = Unlink(list, cur[t])
          /\ UNCHANGED <<clock, created, lock, threadVars>>
      BY <1>14, SMTT(30) DEF CleanupStale, Walking, AtEnd, Current, TypeOK
    <2>2. \A u \in Threads : u # t => pc[u] # "walk"
      BY <2>1, Alone, Zenon
    <2> DEFINE dead(e, i) == i >= cur[t] /\ IsStale(e, rightNow[t])
    <2>3. \A i \in 1 .. Len(list) : Doomed(i) <=> dead(list[i], i)
      BY <2>1, <2>2, ZenonT(40) DEF Doomed, Walking
    <2>4. \A i \in 1 .. Len(list') : Doomed(i)' <=> dead(list'[i], i)
      BY <2>1, <2>2, Zenon DEF Doomed, Walking, threadVars, IsStale
    <2>5. /\ Len(list') = Len(list) - 1
          /\ \A j \in 1 .. Len(list') :
               list'[j] = IF j < cur[t] THEN list[j] ELSE list[j + 1]
      BY <1>0, <2>1, UnlinkProps, Zenon
    <2>6. AbstractMap' = {list'[i] : i \in {j \in 1 .. Len(list') : ~dead(list'[j], j)}}
      BY <2>4, Zenon DEF AbstractMap
    <2>7. AbstractMap = {list[i] : i \in {j \in 1 .. Len(list) : ~dead(list[j], j)}}
      BY <2>3, Zenon DEF AbstractMap
    <2>8. ASSUME NEW j \in 1 .. Len(list'), ~dead(list'[j], j)
          PROVE  \E i \in 1 .. Len(list) : ~dead(list[i], i) /\ list[i] = list'[j]
      <3>1. CASE j < cur[t]
        BY <1>0, <2>5, <2>8, <3>1
      <3>2. CASE ~(j < cur[t])
        <4>1. j + 1 \in 1 .. Len(list) /\ list[j + 1] = list'[j]
          BY <1>0, <2>5, <3>2
        <4>2. ~dead(list[j + 1], j + 1)
          BY <2>1, <2>8, <4>1, <3>2, SMTT(30) DEF TypeOK
        <4> QED
          BY <4>1, <4>2, Zenon
      <3> QED
        BY <3>1, <3>2, Zenon
    <2>9. ASSUME NEW i \in 1 .. Len(list), ~dead(list[i], i)
          PROVE  \E j \in 1 .. Len(list') : ~dead(list'[j], j) /\ list'[j] = list[i]
      <3>0. i # cur[t]
        BY <2>1, <2>9
      <3>1. CASE i < cur[t]
        <4>1. i \in 1 .. Len(list') /\ list'[i] = list[i]
          BY <1>0, <2>1, <2>5, <3>1
        <4> QED
          BY <2>9, <4>1, Zenon
      <3>2. CASE ~(i < cur[t])
        <4>1. i - 1 \in 1 .. Len(list') /\ list'[i - 1] = list[i]
          BY <1>0, <2>1, <2>5, <3>0, <3>2, SMTT(30)
        <4>2. ~dead(list'[i - 1], i - 1)
          BY <2>1, <2>9, <3>0, <3>2, <4>1, SMTT(30) DEF TypeOK
        <4> QED
          BY <4>1, <4>2, Zenon
      <3> QED
        BY <3>1, <3>2, Zenon
    <2>10. AbstractMap' = AbstractMap
      <3> HIDE DEF dead
      <3>1. ASSUME NEW e \in AbstractMap' PROVE e \in AbstractMap
        BY <2>6, <2>7, <2>8, <3>1, ZenonT(30)
      <3>2. ASSUME NEW e \in AbstractMap PROVE e \in AbstractMap'
        BY <2>6, <2>7, <2>9, <3>2, ZenonT(30)
      <3> QED
        BY <3>1, <3>2, Zenon
    <2> QED
      BY <2>1, <2>10, Zenon DEF threadVars, AbstractStatus
  <1>15. ASSUME NEW t \in Threads, CleanupKeep(t) PROVE Stutter
    <2>1. /\ pc[t] = "walk" /\ req[t].op = "cleanup" /\ cur[t] \in 1 .. Len(list)
          /\ ~IsStale(list[cur[t]], rightNow[t])
          /\ Advance(t)
      BY <1>15 DEF CleanupKeep, Walking, AtEnd, Current, TypeOK
    <2>2. \A u \in Threads : u # t => pc[u] # "walk"
      BY <2>1, Alone, Zenon
    <2>3. \A i \in 1 .. Len(list) :
            Doomed(i) <=> i >= cur[t] /\ IsStale(list[i], rightNow[t])
      BY <2>1, <2>2, Zenon DEF Doomed, Walking
    <2>4. \A i \in 1 .. Len(list) :
            Doomed(i)' <=> i >= cur[t] + 1 /\ IsStale(list[i], rightNow[t])
      BY <2>1, <2>2, Zenon DEF Doomed, Walking, Advance, IsStale, TypeOK
    <2>5. \A i \in 1 .. Len(list) : Doomed(i)' <=> Doomed(i)
      BY <2>1, <2>3, <2>4 DEF TypeOK
    <2>6. AbstractMap' = AbstractMap
      BY <2>1, <2>5, Zenon DEF AbstractMap, Advance
    <2> QED
      BY <2>1, <2>6, Zenon DEF Advance, AbstractStatus
  <1>16. ASSUME NEW t \in Threads, CleanupEnd(t) PROVE Stutter
    <2>1. /\ pc[t] = "walk" /\ req[t].op = "cleanup" /\ cur[t] > Len(list)
          /\ Finish(t, NoData) /\ list' = list
      BY <1>16, Zenon DEF CleanupEnd, Walking, AtEnd
    <2>2. \A u \in Threads : u # t => pc[u] # "walk"
      BY <2>1, Alone, Zenon
    <2>3. \A i \in 1 .. Len(list) : ~Doomed(i) /\ ~Doomed(i)'
      BY <2>1, <2>2 DEF Doomed, Walking, Finish, TypeOK
    <2>4. AbstractMap' = AbstractMap
      BY <2>1, <2>3, Zenon DEF AbstractMap
    <2>5. res' = res
      BY <2>1, Zenon DEF Finish, Rested, TypeOK
    <2>6. \A u \in Threads : AbstractStatus(u)' = AbstractStatus(u)
      BY <2>1, Zenon DEF Finish, AbstractStatus, TypeOK
    <2> QED
      BY <2>1, <2>4, <2>5, <2>6, Zenon DEF Finish
  <1>17. ASSUME NEW t \in Threads, Unlock(t) PROVE Stutter
    <2>1. \A u \in Threads : ~Walking(u, "cleanup") /\ ~Walking(u, "cleanup")'
      BY <1>17, Zenon DEF Unlock, Walking, Holder, TypeOK
    <2>2. AbstractMap' = AbstractMap
      BY <1>17, <2>1, NoCleanupMap, NoCleanupMapNext, Zenon DEF Unlock
    <2>3. \A u \in Threads : AbstractStatus(u)' = AbstractStatus(u)
      BY <1>17, Zenon DEF Unlock, AbstractStatus, TypeOK
    <2> QED
      BY <1>17, <2>2, <2>3, Zenon DEF Unlock
  <1>18. ASSUME NEW t \in Threads, Return(t) PROVE Abstract!MapReturn(t)
    <2>1. AbstractMap' = AbstractMap
      <3>1. \A u \in Threads : pc'[u] = "walk" <=> pc[u] = "walk"
        BY <1>18, Zenon DEF Return, TypeOK
      <3>2. \A u \in Threads : pc[u] = "walk" => req'[u] = req[u]
        BY <1>18, Zenon DEF Return, TypeOK
      <3>3. \A u \in Threads : Walking(u, "cleanup")' <=> Walking(u, "cleanup")
        BY <3>1, <3>2, Zenon DEF Walking
      <3> QED
        BY <1>18, <3>3, Zenon DEF Return, AbstractMap, Doomed
    <2>2. status[t] = "done" /\ status' = [status EXCEPT ![t] = "idle"]
      BY <1>18, Zenon DEF Return, AbstractStatus, TypeOK
    <2> QED
      BY <1>18, <2>1, <2>2, Zenon DEF Return, Abstract!MapReturn, NoCall, Abstract!NoCall
  <1>20. QED
    <2> HIDE DEF Stutter
    <2>1. CASE UNCHANGED cacheVars
      BY <1>s, <1>1, <2>1, Zenon
    <2>2. CASE Tick
      BY <1>2, <2>2, Zenon DEF Abstract!MapNext
    <2>3. ASSUME NEW t \in Threads,
                 Enter(t) \/ GetLockedInstance(t) \/ Locked(t) \/ Return(t)
          PROVE  \/ Abstract!MapCall(t) \/ Abstract!MapTake(t) \/ Abstract!MapReturn(t)
                 \/ Stutter
      BY <1>3, <1>4, <1>5, <1>6, <1>7, <1>8, <1>9, <1>10, <1>11, <1>12, <1>13, <1>14,
         <1>15, <1>16, <1>17, <1>18, <2>3, Zenon
      DEF Locked
    <2> QED
      BY <1>s, <2>1, <2>2, <2>3, Zenon DEF CacheNext, Abstract!MapNext

(* An empty list is an empty map. *)
LEMMA InitRefines == CacheInit => Abstract!MapInit
  <1> SUFFICES ASSUME CacheInit PROVE Abstract!MapInit
    BY Zenon
  <1>1. AbstractMap = {}
    BY DEF CacheInit, AbstractMap
  <1>2. [t \in Threads |-> AbstractStatus(t)] = [t \in Threads |-> "idle"]
    BY Zenon DEF CacheInit, AbstractStatus
  <1> QED
    BY <1>1, <1>2, Zenon DEF CacheInit, Abstract!MapInit, NoCall, Abstract!NoCall

(* The mutex-and-list cache implements the atomic map: each exported       *)
(* function takes effect at one instant, for any number of threads.        *)
THEOREM CacheImplementsMap == CacheSafety => Linearizable
  <1>1. CacheInv /\ [CacheNext]_cacheVars => [Abstract!MapNext]_(Abstract!mapVars)
    BY StepRefines, Zenon
  <1> QED
    BY <1>1, InitRefines, CacheInvariant, PTL DEF CacheSafety, Linearizable, Abstract!MapSpec
=============================================================================
