----------------------------- MODULE SessionMap -----------------------------
(***************************************************************************)
(* What the process-wide resumable-session cache promises its callers: a   *)
(* map from keys (peer IDs) to session data with an expiration time, on    *)
(* which every exported function of appleSession.c takes effect at one     *)
(* instant between its call and its return.  SessionCache.tla, the mutex   *)
(* and linked-list implementation, is shown to implement this module.      *)
(***************************************************************************)
EXTENDS SessionCacheOps

VARIABLES clock,   \* CFAbsoluteTimeGetCurrent()
          map,     \* the cached entries
          status,  \* per thread: idle, pending (called) or done (took effect)
          req,     \* per thread: the call in progress
          res      \* per thread: its result

mapVars == <<clock, map, status, req, res>>

Matches(S, key) == {e \in S : MatchKey(e, key)}

Live(S, now) == {e \in S : ~IsStale(e, now)}

(* A hit replaces the data and leaves the expiration alone, even when the  *)
(* entry has expired; a miss inserts with a fresh expiration.              *)
MapAdd(S, r, now) ==
  IF Matches(S, r.key) = {}
  THEN S \cup {Entry(r.key, r.data, now + Lifetime(r.ttl))}
  ELSE (S \ Matches(S, r.key)) \cup {Entry(e.key, r.data, e.exp) : e \in Matches(S, r.key)}

(* A lookup that meets a stale entry deletes it. *)
MapGet(S, r, now) == S \ {e \in Matches(S, r.key) : IsStale(e, now)}

MapGetResult(S, r, now) ==
  LET found == Live(Matches(S, r.key), now)
  IN  IF found = {} THEN NoData ELSE (CHOOSE e \in found : TRUE).data

Effect(S, r, now) ==
  CASE r.op = "add"     -> MapAdd(S, r, now)
    [] r.op = "get"     -> MapGet(S, r, now)
    [] r.op = "delete"  -> S \ Matches(S, r.key)
    [] r.op = "cleanup" -> Live(S, now)

Result(S, r, now) ==
  IF r.op = "get" THEN MapGetResult(S, r, now) ELSE NoData
-----------------------------------------------------------------------------
MapInit ==
  /\ clock = 0
  /\ map = {}
  /\ status = [t \in Threads |-> "idle"]
  /\ req = [t \in Threads |-> NoCall]
  /\ res = [t \in Threads |-> NoData]

MapCall(t) ==
  /\ status[t] = "idle"
  /\ status' = [status EXCEPT ![t] = "pending"]
  /\ \E r \in Ops : req' = [req EXCEPT ![t] = r]
  /\ UNCHANGED <<clock, map, res>>

(* The one instant at which the call takes effect. *)
MapTake(t) ==
  /\ status[t] = "pending"
  /\ status' = [status EXCEPT ![t] = "done"]
  /\ map' = Effect(map, req[t], clock)
  /\ res' = [res EXCEPT ![t] = Result(map, req[t], clock)]
  /\ UNCHANGED <<clock, req>>

MapReturn(t) ==
  /\ status[t] = "done"
  /\ status' = [status EXCEPT ![t] = "idle"]
  /\ req' = [req EXCEPT ![t] = NoCall]
  /\ res' = [res EXCEPT ![t] = NoData]
  /\ UNCHANGED <<clock, map>>

MapTick ==
  /\ clock < MaxTime
  /\ clock' = clock + 1
  /\ UNCHANGED <<map, status, req, res>>

MapNext == MapTick \/ \E t \in Threads : MapCall(t) \/ MapTake(t) \/ MapReturn(t)

MapSpec == MapInit /\ [][MapNext]_mapVars
=============================================================================
