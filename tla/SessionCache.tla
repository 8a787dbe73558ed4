---------------------------- MODULE SessionCache ----------------------------
(***************************************************************************)
(* The resumable-session cache of appleSession.c: a singly linked list of  *)
(* entries behind one process-wide mutex, created on first use.  The four  *)
(* exported functions lock, walk the list one node at a time and unlock;   *)
(* the wall clock moves on between any two of those steps.                 *)
(*                                                                         *)
(* Memory exhaustion (a failing SSLCopyBuffer or malloc) is not modelled.  *)
(***************************************************************************)
EXTENDS SessionCacheOps, Sequences

CONSTANT Unlocked
ASSUME LockAssumption == Unlocked \notin Threads

VARIABLES clock,    \* CFAbsoluteTimeGetCurrent()
          created,  \* gSessionCache # NULL
          list,     \* the entries reachable from gSessionCache->head
          lock,     \* holder of gSessionCacheLock, or Unlocked
          pc,       \* where each thread is
          req,      \* the function it has called, with its arguments
          cur,      \* the node its loop has reached
          rightNow, \* local of SessionCacheCleanup
          res       \* what the call returns: data, or NoData

threadVars == <<pc, req, cur, rightNow, res>>

cacheVars == <<clock, created, list, lock, threadVars>>

(* One entry deleted: *current = entry->next. *)
Unlink(s, i) == [j \in 1 .. Len(s) - 1 |-> IF j < i THEN s[j] ELSE s[j + 1]]

(* A new entry in front: entry->next = cache->head; cache->head = entry. *)
Push(e, s) == [j \in 1 .. Len(s) + 1 |-> IF j = 1 THEN e ELSE s[j - 1]]

CacheInit ==
  /\ clock = 0
  /\ created = FALSE
  /\ list = <<>>
  /\ lock = Unlocked
  /\ pc = [t \in Threads |-> "idle"]
  /\ req = [t \in Threads |-> NoCall]
  /\ cur = [t \in Threads |-> 1]
  /\ rightNow = [t \in Threads |-> 0]
  /\ res = [t \in Threads |-> NoData]

(* sslAddSession, sslGetSession, sslDeleteSession or sslCleanupSession is  *)
(* entered; the caller now waits for the mutex.                            *)
Enter(t) ==
  /\ pc[t] = "idle"
  /\ \E r \in Ops : req' = [req EXCEPT ![t] = r]
  /\ pc' = [pc EXCEPT ![t] = "lock"]
  /\ UNCHANGED <<clock, created, list, lock, cur, rightNow, res>>

\* Mutant: the mutex is not taken.
GetInstanceUnlocked(t) ==
  /\ pc[t] = "lock"
  /\ lock' = t
  /\ created' = TRUE
  /\ list' = IF created THEN list ELSE <<>>
  /\ pc' = [pc EXCEPT ![t] = "walk"]
  /\ rightNow' = [rightNow EXCEPT ![t] = clock]
  /\ UNCHANGED <<clock, req, cur, res>>

(* SessionCacheGetLockedInstance, and the clock reading with which         *)
(* SessionCacheCleanup begins.                                             *)
GetLockedInstance(t) ==
  /\ pc[t] = "lock"
  /\ lock = Unlocked
  /\ lock' = t
  /\ created' = TRUE
  /\ list' = IF created THEN list ELSE <<>>
  /\ pc' = [pc EXCEPT ![t] = "walk"]
  /\ rightNow' = [rightNow EXCEPT ![t] = IF req[t].op = "cleanup" THEN clock ELSE 0]
  /\ UNCHANGED <<clock, req, cur, res>>

Walking(t, op) == pc[t] = "walk" /\ req[t].op = op

\* Mutant: the loop stops before the last node.
AtLast(t) == cur[t] >= Len(list)

AtEnd(t) == cur[t] > Len(list)

Current(t) == list[cur[t]]

Hit(t) == ~AtEnd(t) /\ MatchKey(Current(t), req[t].key)

Finish(t, r) ==
  /\ pc' = [pc EXCEPT ![t] = "unlock"]
  /\ res' = [res EXCEPT ![t] = r]
  /\ UNCHANGED <<clock, created, lock, req, cur, rightNow>>

\* Mutant: the loop forgets to advance.
NoAdvance(t) == UNCHANGED cacheVars

(* The loops' advance to the next node. *)
Advance(t) ==
  /\ cur' = [cur EXCEPT ![t] = @ + 1]
  /\ UNCHANGED <<clock, created, list, lock, pc, req, rightNow, res>>

StepPast(t) ==
  /\ pc[t] = "walk"
  /\ req[t].op \in {"add", "get", "delete"}
  /\ ~AtEnd(t)
  /\ ~Hit(t)
  /\ Advance(t)

\* Mutant: a hit renews the expiration.
AddHitRenews(t) ==
  /\ Walking(t, "add")
  /\ Hit(t)
  /\ list' = [list EXCEPT ![cur[t]] =
                Entry(@.key, req[t].data, clock + Lifetime(req[t].ttl))]
  /\ Finish(t, NoData)

(* SessionCacheAddEntry, cache hit: new data, old expiration, old place. *)
AddHit(t) ==
  /\ Walking(t, "add")
  /\ Hit(t)
  /\ list' = [list EXCEPT ![cur[t]] = Entry(@.key, req[t].data, @.exp)]
  /\ Finish(t, NoData)

(* SessionCacheAddEntry, miss: a new entry at the head of the list. *)
AddMiss(t) ==
  /\ Walking(t, "add")
  /\ AtEnd(t)
  /\ LET expireTime == clock + Lifetime(req[t].ttl)
     IN  list' = Push(Entry(req[t].key, req[t].data, expireTime), list)
  /\ Finish(t, NoData)

\* Mutant: the expiration is not looked at.
LookupHitAnyAge(t) ==
  /\ Walking(t, "get")
  /\ Hit(t)
  /\ Finish(t, Current(t).data)
  /\ UNCHANGED list

(* SessionCacheLookupEntry: a live match is returned. *)
LookupHit(t) ==
  /\ Walking(t, "get")
  /\ Hit(t)
  /\ ~IsStale(Current(t), clock)
  /\ Finish(t, Current(t).data)
  /\ UNCHANGED list

(* SessionCacheLookupEntry: a stale match is unlinked and not returned. *)
LookupStale(t) ==
  /\ Walking(t, "get")
  /\ Hit(t)
  /\ IsStale(Current(t), clock)
  /\ list' = Unlink(list, cur[t])
  /\ Finish(t, NoData)

LookupMiss(t) ==
  /\ Walking(t, "get")
  /\ AtEnd(t)
  /\ Finish(t, NoData)
  /\ UNCHANGED list

(* SessionCacheDeleteEntry: the first match goes, the walk ends there. *)
DeleteHit(t) ==
  /\ Walking(t, "delete")
  /\ Hit(t)
  /\ list' = Unlink(list, cur[t])
  /\ Finish(t, NoData)

DeleteMiss(t) ==
  /\ Walking(t, "delete")
  /\ AtEnd(t)
  /\ Finish(t, NoData)
  /\ UNCHANGED list

\* Mutant: the walk advances after unlinking, past an entry it never tests.
CleanupStaleSkips(t) ==
  /\ Walking(t, "cleanup")
  /\ ~AtEnd(t)
  /\ IsStale(Current(t), rightNow[t])
  /\ list' = Unlink(list, cur[t])
  /\ cur' = [cur EXCEPT ![t] = @ + 1]
  /\ UNCHANGED <<clock, created, lock, pc, req, rightNow, res>>

(* SessionCacheCleanup: unlink without advancing, or advance. *)
CleanupStale(t) ==
  /\ Walking(t, "cleanup")
  /\ ~AtEnd(t)
  /\ IsStale(Current(t), rightNow[t])
  /\ list' = Unlink(list, cur[t])
  /\ UNCHANGED <<clock, created, lock, threadVars>>

CleanupKeep(t) ==
  /\ Walking(t, "cleanup")
  /\ ~AtEnd(t)
  /\ ~IsStale(Current(t), rightNow[t])
  /\ Advance(t)

CleanupEnd(t) ==
  /\ Walking(t, "cleanup")
  /\ AtEnd(t)
  /\ Finish(t, NoData)
  /\ UNCHANGED list

(* pthread_mutex_unlock; the locals of the walk go out of scope. *)
Unlock(t) ==
  /\ pc[t] = "unlock"
  /\ lock' = Unlocked
  /\ pc' = [pc EXCEPT ![t] = "return"]
  /\ cur' = [cur EXCEPT ![t] = 1]
  /\ rightNow' = [rightNow EXCEPT ![t] = 0]
  /\ UNCHANGED <<clock, created, list, req, res>>

Return(t) ==
  /\ pc[t] = "return"
  /\ pc' = [pc EXCEPT ![t] = "idle"]
  /\ req' = [req EXCEPT ![t] = NoCall]
  /\ res' = [res EXCEPT ![t] = NoData]
  /\ UNCHANGED <<clock, created, list, lock, cur, rightNow>>

Tick ==
  /\ clock < MaxTime
  /\ clock' = clock + 1
  /\ UNCHANGED <<created, list, lock, threadVars>>

(* What a thread does once it holds the mutex. *)
Locked(t) ==
  \/ StepPast(t)
  \/ AddHit(t) \/ AddMiss(t)
  \/ LookupHit(t) \/ LookupStale(t) \/ LookupMiss(t)
  \/ DeleteHit(t) \/ DeleteMiss(t)
  \/ CleanupStale(t) \/ CleanupKeep(t) \/ CleanupEnd(t)
  \/ Unlock(t)

CacheNext ==
  \/ Tick
  \/ \E t \in Threads : Enter(t) \/ GetLockedInstance(t) \/ Locked(t) \/ Return(t)

CacheSafety == CacheInit /\ [][CacheNext]_cacheVars

(* A thread that holds the mutex keeps running: the code under the lock    *)
(* neither blocks nor loops without advancing.  Nothing is assumed about   *)
(* who gets the mutex next.                                                *)
CacheSpec == CacheSafety /\ \A t \in Threads : WF_cacheVars(Locked(t))
-----------------------------------------------------------------------------
(* Every variable stays in its set: expirations are times, results data.  *)
TypeOK ==
  /\ clock \in Nat
  /\ created \in BOOLEAN
  /\ list \in Seq(Entries)
  /\ lock \in Threads \cup {Unlocked}
  /\ pc \in [Threads -> {"idle", "lock", "walk", "unlock", "return"}]
  /\ req \in [Threads -> Ops \cup {NoCall}]
  /\ cur \in [Threads -> Nat \ {0}]
  /\ rightNow \in [Threads -> Nat]
  /\ res \in [Threads -> Data \cup {NoData}]

(* At most one entry per key, however adds, lookups, deletes and cleanups  *)
(* of different threads interleave: SessionCacheDeleteEntry stops at the   *)
(* first match, so a second one would survive a delete.                    *)
UniqueKeys ==
  \A i, j \in 1 .. Len(list) : list[i].key = list[j].key => i = j

(* When sslDeleteSession is about to release the mutex no entry of its key *)
(* is left anywhere in the list: the session can no longer be resumed.     *)
DeleteEffective ==
  \A t \in Threads :
    pc[t] = "unlock" /\ req[t].op = "delete" =>
      \A i \in 1 .. Len(list) : list[i].key # req[t].key

(* When sslCleanupSession is about to release the mutex every entry that   *)
(* was stale when it read the clock is gone: unlinking one of two          *)
(* neighbouring stale entries does not skip the other.                     *)
CleanupComplete ==
  \A t \in Threads :
    pc[t] = "unlock" /\ req[t].op = "cleanup" =>
      \A i \in 1 .. Len(list) : ~IsStale(list[i], rightNow[t])

(* No step moves the expiration of a key that stays cached: "a given       *)
(* session entry can only be used for a finite time" however often         *)
(* sslAddSession is called for it again.                                   *)
ExpirationFixed ==
  [][\A i \in 1 .. Len(list), j \in 1 .. Len(list') :
       list[i].key = list'[j].key => list[i].exp = list'[j].exp]_list

(* The refinement mapping.  A cleanup takes effect when it reads the       *)
(* clock: the stale entries it has yet to reach are already gone from the  *)
(* abstract map, which nobody can tell while the mutex is held.            *)
Doomed(i) ==
  \E t \in Threads :
    /\ Walking(t, "cleanup")
    /\ i >= cur[t]
    /\ IsStale(list[i], rightNow[t])

AbstractMap == {list[i] : i \in {j \in 1 .. Len(list) : ~Doomed(j)}}

AbstractStatus(t) ==
  IF pc[t] = "idle" THEN "idle"
  ELSE IF pc[t] = "lock" \/ (pc[t] = "walk" /\ req[t].op # "cleanup") THEN "pending"
  ELSE "done"

Abstract ==
  INSTANCE SessionMap WITH map <- AbstractMap,
                           status <- [t \in Threads |-> AbstractStatus(t)]

(* Every call takes effect at one instant between its start and its return *)
(* and a lookup returns what the map held at that instant: the walk under  *)
(* the mutex implements the abstract map, a moving clock included.         *)
Linearizable == Abstract!MapSpec

(* The mutex is always released: no path through the four functions keeps  *)
(* gSessionCacheLock, which would hang every later handshake.              *)
LockReleased == \A t \in Threads : lock = t ~> lock # t
=============================================================================
