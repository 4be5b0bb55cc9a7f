---------------------------- MODULE RateLimiter ----------------------------
(***************************************************************************)
(* The request limiter of the HTTP API (internal/api/rate_limit.go).       *)
(*                                                                         *)
(* Every request passes rateLimit, which asks requestLimiter.allow for a   *)
(* token of its key (client, path and method).  allow reads the clock and  *)
(* truncates it to a window BEFORE it takes the mutex; the bucket update   *)
(* is one critical section.  The clock may therefore pass into the next    *)
(* window between the two, and requests may take the mutex in an order     *)
(* that is not the order of their windows: both are steps of this module.  *)
(*                                                                         *)
(* The clock is counted in windows (one minute each).  A bucket is absent  *)
(* until its key is first used; the code's zero value, whose window is the *)
(* zero time and equals no window, behaves like an absent bucket.          *)
(***************************************************************************)
EXTENDS Naturals, FiniteSets, Functions

CONSTANTS
  Calls,       \* HTTP requests
  Keys,        \* client | path | method
  Limit,       \* the limit of the path (12 for POST /v1/chat)
  MaxBuckets,  \* the number of buckets above which stale ones go (4096)
  MaxWindow    \* bound of the clock

ASSUME LimiterAssumption == /\ Limit \in Nat \ {0}
                            /\ MaxBuckets \in Nat
                            /\ MaxWindow \in Nat

Windows == 0 .. MaxWindow

VARIABLES
  clock,    \* the current window
  buckets,  \* requestLimiter.buckets
  pc,       \* request -> where it is
  key,      \* request -> its key
  start,    \* request -> the window it read from the clock
  admitted, \* history: key, window -> the requests of that window let through
  late      \* history: key -> requests that took the mutex after their window

limiterVars == <<clock, buckets, pc, key, start, admitted, late>>

Bucket == [window : Windows, count : 0 .. Limit]

LimiterTypeOK == /\ clock \in Windows
                 /\ buckets \in UNION {[K -> Bucket] : K \in SUBSET Keys}
                 /\ pc \in [Calls -> {"new", "timed", "served", "refused"}]
                 /\ key \in [Calls -> Keys]
                 /\ start \in [Calls -> Windows]
                 /\ admitted \in [Keys -> [Windows -> SUBSET Calls]]
                 /\ late \in [Keys -> SUBSET Calls]

LimiterInit == /\ clock = 0
               /\ buckets = [k \in {} |-> 0]
               /\ pc = [r \in Calls |-> "new"]
               /\ key \in [Calls -> Keys]
               /\ start = [r \in Calls |-> 0]
               /\ admitted = [k \in Keys |-> [w \in Windows |-> {}]]
               /\ late = [k \in Keys |-> {}]

-----------------------------------------------------------------------------
(* the critical section of allow *)

Fresh(w) == [window |-> w, count |-> 0]

KeepsOld(k, w) == IF k \in DOMAIN buckets THEN buckets[k] ELSE Fresh(w)

\* the bucket of the key, started afresh when it is of another window
Current(k, w) ==
  IF k \in DOMAIN buckets /\ buckets[k].window = w THEN buckets[k] ELSE Fresh(w)

Exhausted(b) == b.count >= Limit

Store(k, b) == [x \in DOMAIN buckets \cup {k} |-> IF x = k THEN b ELSE buckets[x]]

PruneAll(bs, w) == IF Cardinality(DOMAIN bs) > MaxBuckets THEN [k \in {} |-> 0] ELSE bs

\* above the threshold, the buckets of windows before this request's go
Prune(bs, w) ==
  IF Cardinality(DOMAIN bs) > MaxBuckets
  THEN Restrict(bs, {k \in DOMAIN bs : bs[k].window >= w})
  ELSE bs

-----------------------------------------------------------------------------
(* steps *)

\* time.Now().Truncate(window), before the mutex
ReadClock(r) ==
  /\ pc[r] = "new"
  /\ pc' = [pc EXCEPT ![r] = "timed"]
  /\ start' = [start EXCEPT ![r] = clock]
  /\ UNCHANGED <<clock, buckets, key, admitted, late>>

NoteLate(r) ==
  late' = IF start[r] < clock
          THEN [late EXCEPT ![key[r]] = @ \cup {r}]
          ELSE late

Refuse(r) ==
  LET b == Current(key[r], start[r]) IN
  /\ pc[r] = "timed"
  /\ Exhausted(b)
  /\ buckets' = Store(key[r], b)
  /\ pc' = [pc EXCEPT ![r] = "refused"]
  /\ NoteLate(r)
  /\ UNCHANGED <<clock, key, start, admitted>>

Serve(r) ==
  LET b == Current(key[r], start[r]) IN
  /\ pc[r] = "timed"
  /\ ~Exhausted(b)
  /\ buckets' = Prune(Store(key[r], [b EXCEPT !.count = @ + 1]), start[r])
  /\ pc' = [pc EXCEPT ![r] = "served"]
  /\ admitted' = [admitted EXCEPT ![key[r]][start[r]] = @ \cup {r}]
  /\ NoteLate(r)
  /\ UNCHANGED <<clock, key, start>>

Tick ==
  /\ clock < MaxWindow
  /\ clock' = clock + 1
  /\ UNCHANGED <<buckets, pc, key, start, admitted, late>>

LimiterNext == \/ Tick
               \/ \E r \in Calls : ReadClock(r) \/ Refuse(r) \/ Serve(r)

LimiterSpec == LimiterInit /\ [][LimiterNext]_limiterVars

-----------------------------------------------------------------------------
(* properties *)

\* A request is answered 429 only when its key's limit of requests of the
\* same window was let through before it: neither another client, nor the
\* pruning, nor an earlier window costs it its share.
RefusedOnlyWhenSpent ==
  \A r \in Calls :
    pc[r] = "refused" => Cardinality(admitted[key[r]][start[r]]) >= Limit

\* Requests that reach the mutex in their own window are capped exactly, and
\* pruning never gives a key its count back: only a request that arrives late,
\* with the window before, can restart the count of a window.
CapUnlessLate ==
  \A k \in Keys, w \in Windows :
    Cardinality(admitted[k][w]) <= Limit * (1 + Cardinality(late[k]))
=============================================================================
