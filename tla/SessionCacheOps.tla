--------------------------- MODULE SessionCacheOps ---------------------------
(***************************************************************************)
(* The interface of the resumable-session cache of appleSession.c: its     *)
(* callers, the arguments of its exported functions, and the lifetime of   *)
(* an entry.  Shared by the abstract map and by the implementation.        *)
(***************************************************************************)
EXTENDS Integers, FiniteSets

CONSTANTS Threads,    \* callers: threads of the process
          Keys,       \* opaque session keys (SSLContext.peerID)
          Data,       \* opaque session data blobs
          NoData,     \* result of a lookup that found nothing
          TTLs,       \* timeToLive arguments; 0 selects the default
          DefaultTTL, \* SESSION_CACHE_TTL
          MaxTime     \* bound on the clock

ASSUME CacheAssumption ==
  /\ NoData \notin Data
  /\ TTLs \subseteq Nat
  /\ DefaultTTL \in Nat
  /\ MaxTime \in Nat

(* The exported functions, with their arguments. *)
Ops == [op : {"add"}, key : Keys, data : Data, ttl : TTLs]
         \cup [op : {"get", "delete"}, key : Keys]
         \cup [op : {"cleanup"}]

NoCall == [op |-> "none"]

\* Mutant: the lifetime is counted from one second too early, and 0 is no default.
LifetimeShort(ttl) == ttl - 1

(* Default time to live when the caller passes 0. *)
Lifetime(ttl) == IF ttl # 0 THEN ttl ELSE DefaultTTL

Entries == [key : Keys, data : Data, exp : Nat]

(* SessionCacheEntryCreate *)
Entry(key, data, expirationTime) == [key |-> key, data |-> data, exp |-> expirationTime]

(* SessionCacheEntryIsStale: an entry is still good in its last second. *)
IsStale(entry, now) == now > entry.exp

(* SessionCacheEntryMatchKey *)
MatchKey(entry, key) == entry.key = key
=============================================================================
