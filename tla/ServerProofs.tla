--------------------------- MODULE ServerProofs ---------------------------
(***************************************************************************)
(* What the HTTP server promises whatever its size: the request limiter    *)
(* (RateLimiter), the chat slots and the background jobs (ChatService) and *)
(* the event bus (StudioEvents).  The three are parts of one process that  *)
(* share no state, so each has its own specification, invariant and proof. *)
(*                                                                         *)
(* The limiter: for all requests, keys, limits, thresholds and numbers of  *)
(* windows, a refusal was earned and a window's count is kept.             *)
(*                                                                         *)
(* Slots and jobs: for every set of requests and jobs, finite or not, and  *)
(* every number of slots, SlotsExact and JobsHonest hold.                  *)
(*                                                                         *)
(* The bus: for every number of requests, connections and events and every *)
(* capacity, no emitter finds a closed channel, and each client's stream   *)
(* is each request's events in order, less those its own full channel      *)
(* missed.  Everything said of a client is said of its stream: what it was *)
(* sent followed by what waits in its channel.  Forwarding leaves the      *)
(* stream as it is, and an emitted event is added at its end or dropped.   *)
(* The order is inductive together with "no event of the stream has a      *)
(* number its request has not reached"; that nothing else is lost,         *)
(* together with "who streams is subscribed".                              *)
(***************************************************************************)
EXTENDS RateLimiter, ChatService, StudioEvents,
        FiniteSetTheorems, SequenceTheorems, TLAPS

-----------------------------------------------------------------------------
(* RateLimiter: the request limiter.                                     *)

Admitted(k, w) == Cardinality(admitted[k][w])
Late(k) == Cardinality(late[k])

\* The histories hold requests that have been answered.
Answered ==
  /\ \A k \in Keys, w \in Windows : \A r \in admitted[k][w] : pc[r] = "served"
  /\ \A k \in Keys : \A r \in late[k] : pc[r] \in {"served", "refused"}
  /\ \A k \in Keys : IsFiniteSet(late[k])
  /\ \A k \in Keys, w \in Windows : IsFiniteSet(admitted[k][w])

\* Nothing is of a window the clock has not reached.
NoFuture ==
  /\ \A r \in Calls : start[r] <= clock
  /\ \A k \in DOMAIN buckets : buckets[k].window <= clock
  /\ \A k \in Keys, w \in Windows : w > clock => admitted[k][w] = {}

\* A count stands for requests that were let through in its window.
Counted ==
  \A k \in DOMAIN buckets : buckets[k].count <= Admitted(k, buckets[k].window)

\* What the bucket of a key holds against the present window.
Held(k) ==
  IF k \in DOMAIN buckets /\ buckets[k].window = clock THEN buckets[k].count ELSE 0

\* In the present window the bucket misses no more than what late requests
\* made it forget.
NearlyHeld == \A k \in Keys : Admitted(k, clock) <= Held(k) + Limit * Late(k)

LimiterInv == /\ LimiterTypeOK
              /\ Answered /\ NoFuture
              /\ Counted /\ RefusedOnlyWhenSpent
              /\ NearlyHeld /\ CapUnlessLate

-----------------------------------------------------------------------------
(* Facts about the data.                                                   *)

LEMMA Multiples ==
  ASSUME NEW n \in Nat
  PROVE  /\ Limit * n \in Nat
         /\ Limit * (n + 1) = Limit * n + Limit
         /\ Limit * (1 + n) = Limit * n + Limit
  BY LimiterAssumption

\* What it takes for buckets to have its type.
LEMMA BucketsType ==
  ASSUME NEW bs
  PROVE  bs \in UNION {[K -> Bucket] : K \in SUBSET Keys} <=>
           /\ DOMAIN bs \subseteq Keys /\ bs = [k \in DOMAIN bs |-> bs[k]]
           /\ \A k \in DOMAIN bs : bs[k] \in Bucket
  OBVIOUS

LEMMA Types ==
  ASSUME LimiterInv
  PROVE  /\ clock \in Nat /\ clock \in Windows /\ Limit \in Nat \ {0}
         /\ MaxWindow \in Nat /\ Windows \subseteq Nat
         /\ DOMAIN buckets \subseteq Keys
         /\ buckets = [k \in DOMAIN buckets |-> buckets[k]]
         /\ \A k \in DOMAIN buckets :
              /\ buckets[k] \in Bucket
              /\ buckets[k].window \in Windows /\ buckets[k].count \in 0 .. Limit
         /\ \A r \in Calls : key[r] \in Keys /\ start[r] \in Windows
         /\ \A k \in Keys : Late(k) \in Nat
         /\ \A k \in Keys, w \in Windows : Admitted(k, w) \in Nat
  <1>1. /\ clock \in Windows /\ Windows \subseteq Nat /\ Limit \in Nat \ {0}
        /\ MaxWindow \in Nat
    BY LimiterAssumption DEF LimiterInv, LimiterTypeOK, Windows
  <1>2. /\ DOMAIN buckets \subseteq Keys /\ buckets = [k \in DOMAIN buckets |-> buckets[k]]
        /\ \A k \in DOMAIN buckets : buckets[k] \in Bucket
    BY BucketsType DEF LimiterInv, LimiterTypeOK
  <1>3. \A r \in Calls : key[r] \in Keys /\ start[r] \in Windows
    BY DEF LimiterInv, LimiterTypeOK
  <1>4. /\ \A k \in Keys : Late(k) \in Nat
        /\ \A k \in Keys, w \in Windows : Admitted(k, w) \in Nat
    BY FS_CardinalityType DEF LimiterInv, Answered, Late, Admitted
  <1>5. QED
    BY <1>1, <1>2, <1>3, <1>4 DEF Bucket

\* The bucket a request finds.
LEMMA Found ==
  ASSUME LimiterInv, NEW r \in Calls
  PROVE  LET b == Current(key[r], start[r])
         IN  /\ b \in Bucket /\ b.window = start[r] /\ b.count \in 0 .. Limit
             /\ b.count <= Admitted(key[r], start[r])
             /\ start[r] = clock => b.count = Held(key[r])
  <1> DEFINE b == Current(key[r], start[r])
  <1>1. key[r] \in Keys /\ start[r] \in Windows /\ Admitted(key[r], start[r]) \in Nat
    BY Types
  <1>2. CASE key[r] \in DOMAIN buckets /\ buckets[key[r]].window = start[r]
    <2>1. b = buckets[key[r]]
      BY <1>2 DEF Current
    <2>2. QED
      BY <1>2, <2>1, Types DEF LimiterInv, Counted, Held
  <1>3. CASE ~(key[r] \in DOMAIN buckets /\ buckets[key[r]].window = start[r])
    <2>1. b = [window |-> start[r], count |-> 0]
      BY <1>3 DEF Current, Fresh
    <2>2. QED
      BY <1>1, <1>3, <2>1, Types DEF Bucket, Held
  <1>4. QED
    BY <1>2, <1>3

\* What late grows by.
LEMMA Noted ==
  ASSUME LimiterInv, NEW r \in Calls, pc[r] = "timed", NoteLate(r)
  PROVE  /\ late' \in [Keys -> SUBSET Calls]
         /\ \A k \in Keys : IsFiniteSet(late'[k]) /\ late'[k] \subseteq late[k] \cup {r}
         /\ \A k \in Keys : Late(k)' \in Nat /\ Late(k) <= Late(k)'
         /\ \A k \in Keys : start[r] < clock /\ k = key[r] => Late(k)' = Late(k) + 1
  <1>1. /\ late \in [Keys -> SUBSET Calls] /\ key[r] \in Keys
        /\ \A k \in Keys : r \notin late[k] /\ IsFiniteSet(late[k]) /\ Late(k) \in Nat
    BY Types DEF LimiterInv, LimiterTypeOK, Answered
  <1>2. CASE start[r] < clock
    <2>1. late' = [late EXCEPT ![key[r]] = @ \cup {r}]
      BY <1>2 DEF NoteLate
    <2>2. /\ IsFiniteSet(late[key[r]] \cup {r})
          /\ Cardinality(late[key[r]] \cup {r}) = Cardinality(late[key[r]]) + 1
      BY <1>1, FS_AddElement
    <2>3. \A k \in Keys : late'[k] = IF k = key[r] THEN late[k] \cup {r} ELSE late[k]
      BY <1>1, <2>1
    <2>4. late' \in [Keys -> SUBSET Calls]
      BY <1>1, <2>1
    <2>5. \A k \in Keys :
            Late(k)' = IF k = key[r] THEN Late(k) + 1 ELSE Late(k)
      BY <2>2, <2>3 DEF Late
    <2>6. \A k \in Keys : IsFiniteSet(late'[k]) /\ late'[k] \subseteq late[k] \cup {r}
      BY <1>1, <2>2, <2>3
    <2>7. /\ \A k \in Keys : Late(k)' \in Nat /\ Late(k) <= Late(k)'
          /\ \A k \in Keys : k = key[r] => Late(k)' = Late(k) + 1
      BY <1>1, <2>5
    <2>8. QED
      BY <2>4, <2>6, <2>7
  <1>3. CASE ~(start[r] < clock)
    BY <1>1, <1>3 DEF NoteLate, Late
  <1>4. QED
    BY <1>2, <1>3

\* The buckets after a request has put one back.
LEMMA Stored ==
  ASSUME LimiterInv, NEW r \in Calls, NEW b \in Bucket, b.window = start[r],
         \/ buckets' = Store(key[r], b)
         \/ buckets' = Prune(Store(key[r], b), start[r])
  PROVE  /\ buckets' \in UNION {[K -> Bucket] : K \in SUBSET Keys}
         /\ key[r] \in DOMAIN buckets' /\ buckets'[key[r]] = b
         /\ \A k \in DOMAIN buckets' \ {key[r]} :
              k \in DOMAIN buckets /\ buckets'[k] = buckets[k]
         /\ \A k \in DOMAIN buckets : buckets[k].window = clock => k \in DOMAIN buckets'
  <1> DEFINE bs == Store(key[r], b)
  <1>1. /\ DOMAIN bs = DOMAIN buckets \cup {key[r]} /\ bs[key[r]] = b
        /\ bs = [k \in DOMAIN bs |-> bs[k]]
        /\ \A k \in DOMAIN bs \ {key[r]} : bs[k] = buckets[k]
    BY DEF Store
  <1>2. DOMAIN bs \subseteq Keys /\ \A k \in DOMAIN bs : bs[k] \in Bucket
    BY <1>1, Types
  <1>3. start[r] <= clock /\ start[r] \in Nat /\ clock \in Nat
    BY Types DEF LimiterInv, NoFuture
  <1> HIDE DEF bs
  <1>4. CASE buckets' = bs
    BY <1>1, <1>2, <1>4, BucketsType
  <1>5. CASE buckets' = Restrict(bs, {k \in DOMAIN bs : bs[k].window >= start[r]})
    <2>1. /\ DOMAIN buckets' = {k \in DOMAIN bs : bs[k].window >= start[r]}
          /\ \A k \in DOMAIN buckets' : buckets'[k] = bs[k]
          /\ buckets' = [k \in DOMAIN buckets' |-> buckets'[k]]
      BY <1>5 DEF Restrict
    <2>2. buckets' \in UNION {[K -> Bucket] : K \in SUBSET Keys}
      BY <1>2, <2>1, BucketsType
    <2>3. key[r] \in DOMAIN buckets' /\ buckets'[key[r]] = b
      BY <1>1, <1>3, <2>1
    <2>4. \A k \in DOMAIN buckets : buckets[k].window = clock => k \in DOMAIN buckets'
      BY <1>1, <1>3, <2>1, <2>3
    <2>5. QED
      BY <1>1, <2>1, <2>2, <2>3, <2>4
  <1>6. QED
    BY <1>4, <1>5 DEF Prune, bs

-----------------------------------------------------------------------------
(* The initial states, and each action.                                    *)

LEMMA LimiterInitially == LimiterInit => LimiterInv
  <1> SUFFICES ASSUME LimiterInit PROVE LimiterInv
    OBVIOUS
  <1>1. LimiterTypeOK
    <2>1. DOMAIN buckets = {} /\ buckets \in UNION {[K -> Bucket] : K \in SUBSET Keys}
      BY BucketsType DEF LimiterInit
    <2>2. clock \in Windows /\ 0 \in Windows
      BY LimiterAssumption DEF LimiterInit, Windows
    <2>3. QED
      BY <2>1, <2>2 DEF LimiterInit, LimiterTypeOK
  <1>2. /\ \A k \in Keys, w \in Windows : admitted[k][w] = {} /\ Admitted(k, w) = 0
        /\ \A k \in Keys : late[k] = {} /\ Late(k) = 0
    BY FS_EmptySet DEF LimiterInit, Admitted, Late
  <1>3. Answered /\ NoFuture /\ Counted /\ RefusedOnlyWhenSpent
    BY <1>2, FS_EmptySet, LimiterAssumption
       DEF LimiterInit, Answered, NoFuture, Counted, RefusedOnlyWhenSpent
  <1>4. clock \in Windows /\ \A k : Held(k) = 0
    BY LimiterAssumption DEF LimiterInit, Windows, Held
  <1>5. NearlyHeld /\ CapUnlessLate
    BY <1>2, <1>4, Multiples, LimiterAssumption
       DEF NearlyHeld, CapUnlessLate, Admitted, Late
  <1>6. QED
    BY <1>1, <1>3, <1>5 DEF LimiterInv

LEMMA ReadClockKeeps ==
  ASSUME LimiterInv, NEW r \in Calls, ReadClock(r)
  PROVE  LimiterInv'
  <1>1. /\ pc' = [pc EXCEPT ![r] = "timed"] /\ pc[r] = "new"
        /\ start' = [start EXCEPT ![r] = clock]
        /\ UNCHANGED <<clock, buckets, key, admitted, late>>
    BY DEF ReadClock
  <1>2. LimiterTypeOK'
    BY <1>1 DEF LimiterInv, LimiterTypeOK
  <1>3. Answered'
    BY <1>1 DEF LimiterInv, LimiterTypeOK, Answered
  <1>4. NoFuture'
    BY <1>1, Types DEF LimiterInv, LimiterTypeOK, NoFuture
  <1>5. RefusedOnlyWhenSpent'
    BY <1>1 DEF LimiterInv, LimiterTypeOK, RefusedOnlyWhenSpent
  <1>6. Counted' /\ NearlyHeld' /\ CapUnlessLate'
    BY <1>1 DEF LimiterInv, Counted, NearlyHeld, CapUnlessLate, Held, Admitted, Late
  <1>7. QED
    BY <1>2, <1>3, <1>4, <1>5, <1>6 DEF LimiterInv

\* The window ends: what it held against its keys becomes the one allowance
\* that a past window may have let through beside the late requests.
LEMMA TickKeeps ==
  ASSUME LimiterInv, Tick
  PROVE  LimiterInv'
  <1>1. /\ clock < MaxWindow /\ clock' = clock + 1
        /\ UNCHANGED <<buckets, pc, key, start, admitted, late>>
    BY DEF Tick
  <1>2. clock' \in Windows
    BY <1>1, Types DEF Windows
  <1>3. LimiterTypeOK'
    BY <1>1, <1>2 DEF LimiterInv, LimiterTypeOK
  <1>4. Answered' /\ Counted' /\ RefusedOnlyWhenSpent' /\ CapUnlessLate'
    BY <1>1 DEF LimiterInv, Answered, Counted, RefusedOnlyWhenSpent, CapUnlessLate, Admitted
  <1>5. NoFuture'
    BY <1>1, Types DEF LimiterInv, NoFuture
  <1>6. NearlyHeld'
    <2>1. \A k \in Keys : admitted'[k][clock'] = {} /\ Late(k)' = Late(k)
      BY <1>1, <1>2, Types DEF LimiterInv, NoFuture, Late
    <2>2. \A k \in Keys : Held(k)' \in Nat
      BY <1>1, Types DEF Held
    <2>3. \A k \in Keys : Admitted(k, clock)' = 0
      BY <2>1, FS_EmptySet DEF Admitted
    <2>4. \A k \in Keys : Limit * Late(k)' \in Nat
      BY <2>1, Types, Multiples
    <2>5. QED
      BY <2>2, <2>3, <2>4 DEF NearlyHeld
  <1>7. QED
    BY <1>3, <1>4, <1>5, <1>6 DEF LimiterInv

LEMMA RefuseKeeps ==
  ASSUME LimiterInv, NEW r \in Calls, Refuse(r)
  PROVE  LimiterInv'
  <1> DEFINE b == Current(key[r], start[r])
  <1>1. /\ pc[r] = "timed" /\ b.count >= Limit
        /\ buckets' = Store(key[r], b)
        /\ pc' = [pc EXCEPT ![r] = "refused"] /\ NoteLate(r)
        /\ UNCHANGED <<clock, key, start, admitted>>
    BY DEF Refuse, Exhausted
  <1>2. /\ b \in Bucket /\ b.window = start[r] /\ b.count \in 0 .. Limit
        /\ b.count <= Admitted(key[r], start[r])
        /\ start[r] = clock => b.count = Held(key[r])
    BY Found
  <1> HIDE DEF b
  <1>3. /\ buckets' \in UNION {[K -> Bucket] : K \in SUBSET Keys}
        /\ key[r] \in DOMAIN buckets' /\ buckets'[key[r]] = b
        /\ \A k \in DOMAIN buckets' \ {key[r]} :
             k \in DOMAIN buckets /\ buckets'[k] = buckets[k]
        /\ \A k \in DOMAIN buckets : buckets[k].window = clock => k \in DOMAIN buckets'
    BY <1>1, <1>2, Stored
  <1>4. /\ late' \in [Keys -> SUBSET Calls]
        /\ \A k \in Keys : IsFiniteSet(late'[k]) /\ late'[k] \subseteq late[k] \cup {r}
        /\ \A k \in Keys : Late(k)' \in Nat /\ Late(k) <= Late(k)'
        /\ \A k \in Keys : start[r] < clock /\ k = key[r] => Late(k)' = Late(k) + 1
    BY <1>1, Noted
  <1>5. LimiterTypeOK'
    BY <1>1, <1>3, <1>4 DEF LimiterInv, LimiterTypeOK
  <1>6. Answered'
    BY <1>1, <1>4 DEF LimiterInv, LimiterTypeOK, Answered
  <1>7. NoFuture'
    BY <1>1, <1>2, <1>3 DEF LimiterInv, NoFuture
  <1>8. Counted'
    BY <1>1, <1>2, <1>3 DEF LimiterInv, Counted, Admitted
  <1>9. RefusedOnlyWhenSpent'
    <2>1. Cardinality(admitted[key[r]][start[r]]) >= Limit
      BY <1>1, <1>2, Types DEF Admitted
    <2>2. QED
      BY <1>1, <2>1 DEF LimiterInv, LimiterTypeOK, RefusedOnlyWhenSpent
  <1>10. \A k \in Keys : /\ Limit * Late(k) \in Nat /\ Limit * Late(k)' \in Nat
                         /\ Limit * Late(k) <= Limit * Late(k)'
    BY <1>4, Types, Multiples
  <1>11. NearlyHeld'
    <2> SUFFICES ASSUME NEW k \in Keys
                 PROVE  Admitted(k, clock) <= Held(k)' + Limit * Late(k)'
      BY <1>1 DEF NearlyHeld, Admitted
    <2>1. Admitted(k, clock) <= Held(k) + Limit * Late(k)
      BY DEF LimiterInv, NearlyHeld
    <2>2. CASE k # key[r] \/ start[r] = clock
      <3>1. Held(k)' = Held(k)
        BY <1>1, <1>2, <1>3, <2>2 DEF Held
      <3>2. QED
        BY <1>10, <2>1, <3>1, Types DEF Held
    <2>3. CASE k = key[r] /\ start[r] # clock
      <3>0. start[r] < clock
        BY <2>3, Types DEF LimiterInv, NoFuture
      <3>1. Late(k)' = Late(k) + 1
        BY <1>4, <2>3, <3>0
      <3>2. Limit * Late(k)' = Limit * Late(k) + Limit
        BY <3>1, Types, Multiples
      <3>3. Held(k) \in 0 .. Limit /\ Held(k)' = 0
        BY <1>1, <1>2, <1>3, <2>3, Types DEF Held
      <3>4. QED
        BY <1>10, <2>1, <3>2, <3>3, Types
    <2>4. QED
      BY <2>2, <2>3
  <1>12. CapUnlessLate'
    BY <1>1, <1>4, <1>10, Types, Multiples DEF LimiterInv, CapUnlessLate, Admitted, Late
  <1>13. QED
    BY <1>5, <1>6, <1>7, <1>8, <1>9, <1>11, <1>12 DEF LimiterInv

LEMMA ServeKeeps ==
  ASSUME LimiterInv, NEW r \in Calls, Serve(r)
  PROVE  LimiterInv'
  <1> DEFINE old == Current(key[r], start[r])
             b == [old EXCEPT !.count = @ + 1]
  <1>1. /\ pc[r] = "timed" /\ ~(old.count >= Limit)
        /\ buckets' = Prune(Store(key[r], b), start[r])
        /\ pc' = [pc EXCEPT ![r] = "served"] /\ NoteLate(r)
        /\ admitted' = [admitted EXCEPT ![key[r]][start[r]] = @ \cup {r}]
        /\ UNCHANGED <<clock, key, start>>
    BY DEF Serve, Exhausted
  <1>2. /\ old \in Bucket /\ old.window = start[r] /\ old.count \in 0 .. Limit
        /\ old.count <= Admitted(key[r], start[r])
        /\ start[r] = clock => old.count = Held(key[r])
    BY Found
  <1> HIDE DEF old
  <1>3. /\ b \in Bucket /\ b.window = start[r] /\ b.count = old.count + 1
        /\ b.count \in 0 .. Limit
    BY <1>1, <1>2, Types DEF Bucket
  <1> HIDE DEF b
  <1>4. /\ buckets' \in UNION {[K -> Bucket] : K \in SUBSET Keys}
        /\ key[r] \in DOMAIN buckets' /\ buckets'[key[r]] = b
        /\ \A k \in DOMAIN buckets' \ {key[r]} :
             k \in DOMAIN buckets /\ buckets'[k] = buckets[k]
        /\ \A k \in DOMAIN buckets : buckets[k].window = clock => k \in DOMAIN buckets'
    BY <1>1, <1>3, Stored
  <1>5. /\ late' \in [Keys -> SUBSET Calls]
        /\ \A k \in Keys : IsFiniteSet(late'[k]) /\ late'[k] \subseteq late[k] \cup {r}
        /\ \A k \in Keys : Late(k)' \in Nat /\ Late(k) <= Late(k)'
        /\ \A k \in Keys : start[r] < clock /\ k = key[r] => Late(k)' = Late(k) + 1
    BY <1>1, Noted
  <1>6. /\ admitted' \in [Keys -> [Windows -> SUBSET Calls]]
        /\ \A k \in Keys, w \in Windows :
             admitted'[k][w] = IF k = key[r] /\ w = start[r]
                               THEN admitted[k][w] \cup {r} ELSE admitted[k][w]
    BY <1>1, Types DEF LimiterInv, LimiterTypeOK
  <1>7. \A k \in Keys, w \in Windows :
          /\ IsFiniteSet(admitted'[k][w])
          /\ Admitted(k, w)' = IF k = key[r] /\ w = start[r]
                               THEN Admitted(k, w) + 1 ELSE Admitted(k, w)
    <2> SUFFICES ASSUME NEW k \in Keys, NEW w \in Windows
                 PROVE  /\ IsFiniteSet(admitted'[k][w])
                        /\ Admitted(k, w)' = IF k = key[r] /\ w = start[r]
                                             THEN Admitted(k, w) + 1 ELSE Admitted(k, w)
      OBVIOUS
    <2>1. IsFiniteSet(admitted[k][w]) /\ r \notin admitted[k][w]
      BY <1>1 DEF LimiterInv, Answered
    <2>2. /\ IsFiniteSet(admitted[k][w] \cup {r})
          /\ Cardinality(admitted[k][w] \cup {r}) = Cardinality(admitted[k][w]) + 1
      BY <2>1, FS_AddElement
    <2>3. QED
      BY <1>6, <2>1, <2>2 DEF Admitted
  <1>8. LimiterTypeOK'
    BY <1>1, <1>4, <1>5, <1>6 DEF LimiterInv, LimiterTypeOK
  <1>9. Answered'
    <2>1. \A k \in Keys, w \in Windows : \A x \in admitted'[k][w] : pc'[x] = "served"
      BY <1>1, <1>6 DEF LimiterInv, LimiterTypeOK, Answered
    <2>2. \A k \in Keys : \A x \in late'[k] : pc'[x] \in {"served", "refused"}
      BY <1>1, <1>5 DEF LimiterInv, LimiterTypeOK, Answered
    <2>3. QED
      BY <1>5, <1>7, <2>1, <2>2 DEF Answered
  <1>10. NoFuture'
    <2>1. \A k \in DOMAIN buckets' : buckets'[k].window <= clock
      BY <1>3, <1>4 DEF LimiterInv, NoFuture
    <2>2. \A k \in Keys, w \in Windows : w > clock => admitted'[k][w] = {}
      <3>1. start[r] <= clock /\ start[r] \in Nat /\ clock \in Nat /\ Windows \subseteq Nat
        BY Types DEF LimiterInv, NoFuture
      <3>2. \A w \in Windows : w > clock => w # start[r]
        BY <3>1
      <3>3. QED
        BY <1>6, <3>2 DEF LimiterInv, NoFuture
    <2>3. QED
      BY <1>1, <2>1, <2>2 DEF LimiterInv, NoFuture
  <1>11. Counted'
    <2> SUFFICES ASSUME NEW k \in DOMAIN buckets'
                 PROVE  buckets'[k].count <= Admitted(k, buckets[k].window)'
      BY DEF Counted
    <2>1. CASE k = key[r]
      <3>1. /\ buckets'[k].count = old.count + 1 /\ buckets'[k].window = start[r]
            /\ Admitted(k, start[r])' = Admitted(k, start[r]) + 1
        BY <1>1, <1>3, <1>4, <1>7, <2>1, Types
      <3>2. QED
        BY <1>1, <1>2, <2>1, <3>1, Types DEF Admitted
    <2>2. CASE k # key[r]
      <3>1. k \in DOMAIN buckets /\ buckets'[k] = buckets[k]
        BY <1>4, <2>2
      <3>2. k \in Keys /\ buckets[k].window \in Windows
            /\ buckets[k].count <= Admitted(k, buckets[k].window)
        BY <3>1, Types DEF LimiterInv, Counted
      <3>3. admitted'[k][buckets[k].window] = admitted[k][buckets[k].window]
        BY <1>6, <2>2, <3>2
      <3>4. QED
        BY <3>1, <3>2, <3>3 DEF Admitted
    <2>3. QED
      BY <2>1, <2>2
  <1>12. RefusedOnlyWhenSpent'
    <2> SUFFICES ASSUME NEW x \in Calls, pc'[x] = "refused"
                 PROVE  Cardinality(admitted'[key[x]][start[x]]) >= Limit
      BY <1>1 DEF RefusedOnlyWhenSpent
    <2>1. pc[x] = "refused" /\ key[x] \in Keys /\ start[x] \in Windows
      BY <1>1, Types DEF LimiterInv, LimiterTypeOK
    <2>2. Admitted(key[x], start[x]) >= Limit
      BY <2>1 DEF LimiterInv, RefusedOnlyWhenSpent, Admitted
    <2>3. Cardinality(admitted'[key[x]][start[x]]) >= Admitted(key[x], start[x])
      BY <1>7, <2>1, Types DEF Admitted
    <2>4. QED
      BY <1>7, <2>1, <2>2, Types DEF Admitted
  <1>13. \A k \in Keys : /\ Limit * Late(k) \in Nat /\ Limit * Late(k)' \in Nat
                         /\ Limit * Late(k) <= Limit * Late(k)'
    BY <1>5, Types, Multiples
  <1>14. start[r] # clock => start[r] < clock
    BY Types DEF LimiterInv, NoFuture
  <1>15. NearlyHeld'
    <2> SUFFICES ASSUME NEW k \in Keys
                 PROVE  Cardinality(admitted'[k][clock]) <= Held(k)' + Limit * Late(k)'
      BY <1>1 DEF NearlyHeld, Admitted
    <2>1. Admitted(k, clock) <= Held(k) + Limit * Late(k)
      BY DEF LimiterInv, NearlyHeld
    <2>2. clock \in Windows /\ clock' = clock
      BY <1>1, Types
    <2>3. CASE k # key[r]
      <3>1. Held(k)' = Held(k) /\ admitted'[k][clock] = admitted[k][clock]
        BY <1>4, <1>6, <2>2, <2>3 DEF Held
      <3>2. QED
        BY <1>13, <2>1, <3>1, <2>2, Types DEF Held, Admitted
    <2>4. CASE k = key[r] /\ start[r] = clock
      <3>1. Held(k)' = Held(k) + 1
        BY <1>2, <1>3, <1>4, <2>2, <2>4 DEF Held
      <3>2. Cardinality(admitted'[k][clock]) = Admitted(k, clock) + 1
        BY <1>7, <2>2, <2>4 DEF Admitted
      <3>3. Held(k) \in Nat /\ Admitted(k, clock) \in Nat
        BY <1>2, <2>2, <2>4, Types
      <3>4. QED
        BY <1>13, <2>1, <3>1, <3>2, <3>3
    <2>5. CASE k = key[r] /\ start[r] # clock
      <3>1. Late(k)' = Late(k) + 1
        BY <1>5, <1>14, <2>5
      <3>2. Limit * Late(k)' = Limit * Late(k) + Limit
        BY <3>1, Types, Multiples
      <3>3. Held(k) \in 0 .. Limit /\ Held(k)' = 0
        BY <1>3, <1>4, <2>2, <2>5, Types DEF Held
      <3>4. admitted'[k][clock] = admitted[k][clock]
        BY <1>6, <2>2, <2>5
      <3>5. QED
        BY <1>13, <2>1, <2>2, <3>2, <3>3, <3>4, Types DEF Admitted
    <2>6. QED
      BY <2>3, <2>4, <2>5
  <1>16. CapUnlessLate'
    <2> SUFFICES ASSUME NEW k \in Keys, NEW w \in Windows
                 PROVE  Cardinality(admitted'[k][w]) <= Limit * (1 + Late(k)')
      BY DEF CapUnlessLate, Late
    <2>1. /\ Limit * (1 + Late(k)') = Limit * Late(k)' + Limit
          /\ Limit * (1 + Late(k)) = Limit * Late(k) + Limit
      BY <1>5, Types, Multiples
    <2>2. Admitted(k, w) <= Limit * (1 + Late(k)) /\ Admitted(k, w) \in Nat
      BY Types DEF LimiterInv, CapUnlessLate, Admitted, Late
    <2>3. CASE w = clock
      <3>1. Cardinality(admitted'[k][clock]) <= Held(k)' + Limit * Late(k)'
        BY <1>1, <1>15 DEF NearlyHeld, Admitted
      <3>2. Held(k)' \in 0 .. Limit
        BY <1>1, <1>3, <1>4, Types DEF Held
      <3>3. Cardinality(admitted'[k][w]) \in Nat
        BY <1>7, Types, FS_CardinalityType
      <3>4. QED
        BY <1>13, <2>1, <2>3, <3>1, <3>2, <3>3, Types
    <2>4. CASE k = key[r] /\ w = start[r] /\ w # clock
      <3>1. Late(k)' = Late(k) + 1
        BY <1>5, <1>14, <2>4
      <3>2. Limit * Late(k)' = Limit * Late(k) + Limit
        BY <3>1, Types, Multiples
      <3>3. Cardinality(admitted'[k][w]) = Admitted(k, w) + 1
        BY <1>7, <2>4 DEF Admitted
      <3>4. QED
        BY <1>13, <2>1, <2>2, <3>2, <3>3, Types
    <2>5. CASE ~(k = key[r] /\ w = start[r])
      <3>1. admitted'[k][w] = admitted[k][w]
        BY <1>6, <2>5
      <3>2. QED
        BY <1>13, <2>1, <2>2, <3>1, Types DEF Admitted
    <2>6. QED
      BY <2>3, <2>4, <2>5
  <1>17. QED
    BY <1>8, <1>9, <1>10, <1>11, <1>12, <1>15, <1>16 DEF LimiterInv

-----------------------------------------------------------------------------
(* The invariant, and what follows from it.                                *)

LEMMA LimiterInductive == LimiterInv /\ [LimiterNext]_limiterVars => LimiterInv'
  <1> SUFFICES ASSUME LimiterInv, [LimiterNext]_limiterVars PROVE LimiterInv'
    OBVIOUS
  <1>1. CASE Tick
    BY <1>1, TickKeeps
  <1>2. CASE \E r \in Calls : ReadClock(r) \/ Refuse(r) \/ Serve(r)
    BY <1>2, ReadClockKeeps, RefuseKeeps, ServeKeeps
  <1>3. CASE UNCHANGED limiterVars
    BY <1>3 DEF limiterVars, LimiterInv, LimiterTypeOK, Answered, NoFuture, Counted, RefusedOnlyWhenSpent,
                NearlyHeld, CapUnlessLate, Held, Admitted, Late
  <1>4. QED
    BY <1>1, <1>2, <1>3 DEF LimiterNext

\* What every step of rateLimiter.allow keeps.
THEOREM LimiterInvariant == LimiterSpec => []LimiterInv
  BY LimiterInitially, LimiterInductive, PTL DEF LimiterSpec

\* Every variable of the limiter keeps its type; in particular no count of
\* allow's buckets passes the limit.
THEOREM LimiterTypeCorrect == LimiterSpec => []LimiterTypeOK
  <1>1. LimiterInv => LimiterTypeOK
    BY DEF LimiterInv
  <1>2. QED
    BY <1>1, LimiterInvariant, PTL

\* allow refuses a client only after it let the limit of its requests through
\* in the same window.
THEOREM NoUnfairRefusal == LimiterSpec => []RefusedOnlyWhenSpent
  <1>1. LimiterInv => RefusedOnlyWhenSpent
    BY DEF LimiterInv
  <1>2. QED
    BY <1>1, LimiterInvariant, PTL

\* allow lets no more than the limit through in a window, but for one more
\* allowance for every request that took the mutex after its window had ended.
THEOREM CapKept == LimiterSpec => []CapUnlessLate
  <1>1. LimiterInv => CapUnlessLate
    BY DEF LimiterInv
  <1>2. QED
    BY <1>1, LimiterInvariant, PTL

-----------------------------------------------------------------------------
(* ChatService: chat slots and background jobs.                          *)

Chatting == {r \in Requests : request[r] = "chatting"}
Notes == {"agent started", "response generated"}

\* The record of a job says where its goroutine is.
Stage(j) ==
  /\ worker[j] = "none" <=> job[j] = NoJob
  /\ worker[j] = "none" => context[j] = "live"
  /\ worker[j] = "started" => job[j].status = "queued"
  /\ worker[j] \in {"running", "chatting", "replied", "back"} => job[j].status = "running"
  /\ worker[j] \in {"replied", "back", "done"} => chat[j] # "none"
  /\ worker[j] # "none" => (job[j].finished <=> worker[j] = "done")
  /\ worker[j] = "done" => job[j].status \in Terminal
  /\ worker[j] \notin {"none", "done"} => ~job[j].result /\ ~job[j].error

\* The parts of JobsHonest that are about the job itself.
Honest(j) ==
  /\ owner[j] = "service" /\ worker[j] \in {"started", "running", "chatting"}
       => context[j] # "canceled"
  /\ worker[j] = "done" =>
       /\ job[j].status = "succeeded" => chat[j] = "ok" /\ context[j] = "live"
       /\ job[j].status = "failed" => chat[j] = "error"
       /\ job[j].status = "cancelled" => chat[j] = "canceled" \/ context[j] # "live"
       /\ job[j].result <=> job[j].status = "succeeded"
       /\ job[j].error <=> job[j].status = "failed"

Prefix(s, t) == Len(s) <= Len(t) /\ s = SubSeq(t, 1, Len(s))

\* The last copy that was handed out is one of an earlier or of this moment.
Copied(j) ==
  seen[j] # NoJob =>
    /\ job[j] # NoJob
    /\ Prefix(seen[j].progress, job[j].progress)
    /\ seen[j].finished => seen[j] = job[j]
    /\ seen[j].finished <=> seen[j].status \in Terminal

SlotInv == slots = Cardinality(Chatting) /\ IsFiniteSet(Chatting)

IInv == ServiceTypeOK /\ SlotInv /\ \A j \in Jobs : Stage(j) /\ Honest(j) /\ Copied(j)

-----------------------------------------------------------------------------
(* Prefixes.                                                               *)

LEMMA PrefixItself == ASSUME NEW s \in Seq(Notes) PROVE Prefix(s, s)
  BY SubSeqFull, LenProperties DEF Prefix

\* A prefix stays one when the sequence grows.
LEMMA PrefixGrows ==
  ASSUME NEW s \in Seq(Notes), NEW t \in Seq(Notes), NEW e \in Notes, Prefix(s, t)
  PROVE  Prefix(s, Append(t, e))
  <1> DEFINE u == Append(t, e)
  <1>1. /\ Len(s) \in Nat /\ Len(t) \in Nat /\ Len(s) <= Len(t)
        /\ u \in Seq(Notes) /\ Len(u) = Len(t) + 1
        /\ \A i \in 1 .. Len(t) : u[i] = t[i] /\ t[i] \in Notes
    BY AppendProperties, ElementOfSeq, LenProperties DEF Prefix
  <1>2. /\ SubSeq(t, 1, Len(s)) \in Seq(Notes)
        /\ \A i \in 1 .. Len(s) : SubSeq(t, 1, Len(s))[i] = t[i]
    BY <1>1, SubSeqProperties
  <1>3. /\ SubSeq(u, 1, Len(s)) \in Seq(Notes)
        /\ Len(SubSeq(u, 1, Len(s))) = Len(s)
        /\ \A i \in 1 .. Len(s) : SubSeq(u, 1, Len(s))[i] = u[i]
    <2>1. \A i \in 1 .. Len(s) : u[i] \in Notes
      BY <1>1
    <2>2. QED
      BY <1>1, <2>1, SubSeqProperties
  <1>4. \A i \in 1 .. Len(s) : s[i] = SubSeq(u, 1, Len(s))[i]
    BY <1>1, <1>2, <1>3 DEF Prefix
  <1>5. s = SubSeq(u, 1, Len(s))
    BY <1>3, <1>4, SeqEqual
  <1>6. QED
    BY <1>1, <1>5 DEF Prefix

-----------------------------------------------------------------------------
(* The steps of the chat requests.                                         *)

LEMMA RequestStep ==
  ASSUME ServiceTypeOK, SlotInv, NEW r \in Requests, Admit(r) \/ Reject(r) \/ Answer(r)
  PROVE  SlotInv' /\ slots' \in 0 .. Slots
         /\ request' \in [Requests -> {"new", "chatting", "answered", "refused"}]
  <1>0. /\ slots \in 0 .. Slots /\ Slots \in Nat /\ IsFiniteSet(Chatting)
        /\ request \in [Requests -> {"new", "chatting", "answered", "refused"}]
    BY ChatServiceAssumption DEF ServiceTypeOK, SlotInv
  <1>1. CASE Admit(r)
    <2>1. Chatting' = Chatting \cup {r} /\ r \notin Chatting
      BY <1>0, <1>1 DEF Admit, Chatting
    <2>2. Cardinality(Chatting') = Cardinality(Chatting) + 1 /\ IsFiniteSet(Chatting')
      BY <1>0, <2>1, FS_AddElement
    <2>3. QED
      BY <1>0, <1>1, <2>2 DEF Admit, SlotFree, SlotInv
  <1>2. CASE Reject(r)
    <2>1. Chatting' = Chatting
      BY <1>0, <1>2 DEF Reject, Chatting
    <2>2. QED
      BY <1>0, <1>2, <2>1 DEF Reject, SlotInv
  <1>3. CASE Answer(r)
    <2>1. Chatting' = Chatting \ {r} /\ r \in Chatting
      BY <1>0, <1>3 DEF Answer, Chatting
    <2>2. Cardinality(Chatting') = Cardinality(Chatting) - 1 /\ IsFiniteSet(Chatting')
      BY <1>0, <2>1, FS_RemoveElement
    <2>3. Cardinality(Chatting') \in Nat
      BY <2>2, FS_CardinalityType
    <2>4. QED
      BY <1>0, <1>3, <2>2, <2>3 DEF Answer, GiveBack, SlotInv
  <1>4. QED
    BY <1>1, <1>2, <1>3

-----------------------------------------------------------------------------
(* The steps of the jobs.                                                  *)

JobTypes ==
  /\ job \in [Jobs -> Job \cup {NoJob}]
  /\ owner \in [Jobs -> Owners]
  /\ worker \in [Jobs -> {"none", "started", "running", "chatting", "replied", "back", "done"}]
  /\ chat \in [Jobs -> {"none", "ok", "error", "canceled"}]
  /\ context \in [Jobs -> {"live", "expired", "canceled"}]
  /\ client \in [Jobs -> {"connected", "left"}]
  /\ seen \in [Jobs -> Job \cup {NoJob}]

JobInv(k) == Stage(k) /\ Honest(k) /\ Copied(k)

\* A step of one job.
OfJob(j) == \/ Post(j) \/ JobStep(j) \/ ChatReturns(j) \/ Expire(j)
            \/ CallerCancels(j) \/ RequestEnds(j) \/ Look(j)

LEMMA JobTyped ==
  ASSUME JobTypes, NEW j \in Jobs, JobInv(j)
  PROVE  /\ worker[j] # "none" => job[j] \in Job /\ job[j].progress \in Seq(Notes)
         /\ seen[j] # NoJob => seen[j] \in Job /\ seen[j].progress \in Seq(Notes)
         /\ Queued \in Job
  <1>1. worker[j] # "none" => job[j] \in Job
    BY DEF JobTypes, JobInv, Stage
  <1>2. seen[j] # NoJob => seen[j] \in Job
    BY DEF JobTypes
  <1>3. \A b \in Job : b.progress \in Seq(Notes)
    BY DEF Job, Notes
  <1>4. Queued \in Job
    BY EmptySeq DEF Queued, Job, Statuses
  <1>5. QED
    BY <1>1, <1>2, <1>3, <1>4

\* What a step of j does to j, and that it keeps the types.
LEMMA JobSelf ==
  ASSUME JobTypes, NEW j \in Jobs, JobInv(j), OfJob(j)
  PROVE  JobTypes' /\ JobInv(j)'
  <1>0. /\ worker[j] # "none" => job[j] \in Job /\ job[j].progress \in Seq(Notes)
        /\ seen[j] # NoJob => seen[j] \in Job /\ seen[j].progress \in Seq(Notes)
        /\ Queued \in Job /\ NoJob \notin Job
    BY JobTyped, NoJobAssumption
  <1>1. CASE Post(j)
    <2>1. JobTypes'
      BY <1>0, <1>1 DEF Post, JobTypes
    <2>2. /\ worker[j] = "none" /\ worker'[j] = "started" /\ job'[j] = Queued
          /\ UNCHANGED <<owner, context, seen>>
      BY <1>1 DEF Post, JobTypes
    <2>3. /\ Queued.status = "queued" /\ ~Queued.finished
          /\ ~Queued.result /\ ~Queued.error
      BY DEF Queued
    <2>4. context[j] = "live"
      BY <2>2 DEF JobInv, Stage
    <2>5. JobInv(j)'
      BY <1>0, <2>2, <2>3, <2>4 DEF JobInv, Stage, Honest, Copied
    <2>6. QED
      BY <2>1, <2>5
  <1>2. CASE Begin(j)
    <2> DEFINE new == [job[j] EXCEPT !.status = "running"]
    <2>1. worker[j] = "started" /\ job[j] \in Job
      BY <1>0, <1>2 DEF Begin
    <2>2. /\ new \in Job /\ new # NoJob /\ new.status = "running"
          /\ new.progress = job[j].progress /\ new.finished = job[j].finished
      BY <1>0, <2>1 DEF Job, Statuses
    <2>3. JobTypes'
      BY <1>2, <2>2 DEF Begin, JobTypes
    <2>4. /\ worker'[j] = "running" /\ job'[j] = new
          /\ UNCHANGED <<owner, chat, context, seen>>
      BY <1>2 DEF Begin, JobTypes
    <2>5. ~job[j].finished /\ job[j].status = "queued"
      BY <2>1 DEF JobInv, Stage
    <2>6. JobInv(j)'
      BY <2>1, <2>2, <2>4, <2>5 DEF JobInv, Stage, Honest, Copied
    <2>7. QED
      BY <2>3, <2>6
  <1>3. CASE StartChat(j)
    <2> DEFINE new == [job[j] EXCEPT !.progress = Append(@, "agent started")]
    <2>1. worker[j] = "running" /\ job[j] \in Job /\ job[j].progress \in Seq(Notes)
      BY <1>0, <1>3 DEF StartChat
    <2>2. Append(job[j].progress, "agent started") \in Seq(Notes)
      BY <2>1, AppendProperties DEF Notes
    <2>3. /\ new \in Job /\ new # NoJob /\ new.status = job[j].status
          /\ new.progress = Append(job[j].progress, "agent started")
          /\ new.finished = job[j].finished
          /\ new.result = job[j].result /\ new.error = job[j].error
      BY <1>0, <2>1, <2>2 DEF Job, Notes
    <2>4. JobTypes'
      BY <1>3, <2>3 DEF StartChat, JobTypes
    <2>5. /\ worker'[j] = "chatting" /\ job'[j] = new
          /\ UNCHANGED <<owner, chat, context, seen>>
      BY <1>3 DEF StartChat, JobTypes
    <2>6. seen[j] # NoJob => Prefix(seen[j].progress, new.progress)
      BY <1>0, <2>1, <2>3, PrefixGrows DEF Notes, JobInv, Copied
    <2>7. /\ ~job[j].finished /\ job[j].status = "running"
          /\ ~job[j].result /\ ~job[j].error
      BY <2>1 DEF JobInv, Stage
    <2>8. JobInv(j)'
      BY <2>1, <2>3, <2>5, <2>6, <2>7 DEF JobInv, Stage, Honest, Copied
    <2>9. QED
      BY <2>4, <2>8
  <1>4. CASE ChatReturns(j)
    <2> DEFINE new == [job[j] EXCEPT !.progress = Append(@, "response generated")]
    <2>1. worker[j] = "chatting" /\ job[j] \in Job /\ job[j].progress \in Seq(Notes)
      BY <1>0, <1>4 DEF ChatReturns
    <2>2. Append(job[j].progress, "response generated") \in Seq(Notes)
      BY <2>1, AppendProperties DEF Notes
    <2>3. /\ new \in Job /\ new # NoJob /\ new.status = job[j].status
          /\ new.progress = Append(job[j].progress, "response generated")
          /\ new.finished = job[j].finished
          /\ new.result = job[j].result /\ new.error = job[j].error
      BY <1>0, <2>1, <2>2 DEF Job, Notes
    <2>4. PICK outcome \in {"ok", "error", "canceled"} :
            /\ chat' = [chat EXCEPT ![j] = outcome]
            /\ worker' = [worker EXCEPT ![j] = "replied"]
            /\ job' = IF outcome = "ok" THEN [job EXCEPT ![j] = new] ELSE job
      BY <1>4 DEF ChatReturns
    <2>5. UNCHANGED <<owner, context, client, seen>>
      BY <1>4 DEF ChatReturns
    <2>6. JobTypes'
      BY <2>3, <2>4, <2>5 DEF JobTypes
    <2>7. /\ worker'[j] = "replied" /\ job'[j] \in {job[j], new} /\ chat'[j] # "none"
      BY <2>4 DEF JobTypes
    <2>8. seen[j] # NoJob => Prefix(seen[j].progress, new.progress)
      BY <1>0, <2>1, <2>3, PrefixGrows DEF Notes, JobInv, Copied
    <2>9. /\ ~job[j].finished /\ job[j].status = "running" /\ job[j] # NoJob
          /\ ~job[j].result /\ ~job[j].error
      BY <2>1 DEF JobInv, Stage
    <2>10. JobInv(j)'
      BY <2>1, <2>3, <2>5, <2>7, <2>8, <2>9 DEF JobInv, Stage, Honest, Copied
    <2>11. QED
      BY <2>6, <2>10
  <1>5. CASE WorkReturns(j)
    <2>1. JobTypes'
      BY <1>5 DEF WorkReturns, JobTypes
    <2>2. JobInv(j)'
      BY <1>5 DEF WorkReturns, JobTypes, JobInv, Stage, Honest, Copied
    <2>3. QED
      BY <2>1, <2>2
  <1>6. CASE Conclude(j)
    <2> DEFINE new == Concluded(j)
    <2>1. worker[j] = "back" /\ job[j] \in Job /\ ~job[j].finished /\ chat[j] # "none"
      BY <1>0, <1>6 DEF Conclude, JobInv, Stage
    <2>2. Verdict(j) \in Terminal /\ Verdict(j) \in Statuses
      BY DEF Verdict, Terminal, Statuses
    <2>3. /\ (Verdict(j) = "succeeded") \in BOOLEAN /\ (Verdict(j) = "failed") \in BOOLEAN
      OBVIOUS
    <2>4. /\ new \in Job /\ new # NoJob /\ new.status = Verdict(j)
          /\ new.progress = job[j].progress /\ new.finished
      BY <1>0, <2>1, <2>2, <2>3 DEF Concluded, Job
    <2>5. /\ new.result <=> Verdict(j) = "succeeded"
          /\ new.error <=> Verdict(j) = "failed"
      BY <2>1 DEF Concluded, Job
    <2>6. JobTypes'
      BY <1>6, <2>4 DEF Conclude, Record, JobTypes
    <2>7. /\ worker'[j] = "done" /\ job'[j] = new
          /\ UNCHANGED <<owner, chat, context, seen>>
      BY <1>6 DEF Conclude, Record, JobTypes
    <2>8. /\ Verdict(j) = "succeeded" => chat[j] = "ok" /\ context[j] = "live"
          /\ Verdict(j) = "failed" => chat[j] = "error"
          /\ Verdict(j) = "cancelled" => chat[j] = "canceled" \/ context[j] # "live"
      BY <2>1 DEF Verdict, JobTypes
    <2>9. JobInv(j)'
      BY <2>1, <2>2, <2>4, <2>5, <2>7, <2>8 DEF JobInv, Stage, Honest, Copied
    <2>10. QED
      BY <2>6, <2>9
  <1>7. CASE Expire(j)
    BY <1>7 DEF Expire, JobTypes, JobInv, Stage, Honest, Copied
  <1>8. CASE CallerCancels(j)
    BY <1>8 DEF CallerCancels, JobTypes, JobInv, Stage, Honest, Copied
  <1>9. CASE RequestEnds(j)
    BY <1>9 DEF RequestEnds, OnClientGone, JobTypes, JobInv, Stage, Honest, Copied
  <1>10. CASE Look(j)
    <2>1. job[j] \in Job /\ worker[j] # "none" /\ job[j].progress \in Seq(Notes)
      BY <1>0, <1>10 DEF Look, JobInv, Stage
    <2>2. Prefix(job[j].progress, job[j].progress)
      BY <2>1, PrefixItself
    <2>3. JobTypes'
      BY <1>10, <2>1 DEF Look, JobTypes
    <2>4. seen'[j] = job[j] /\ UNCHANGED <<job, owner, worker, chat, context>>
      BY <1>10 DEF Look, JobTypes
    <2>5. job[j].finished <=> job[j].status \in Terminal
      BY <2>1 DEF JobInv, Stage, JobTypes, Terminal
    <2>6. JobInv(j)'
      BY <2>1, <2>2, <2>4, <2>5 DEF JobInv, Stage, Honest, Copied
    <2>7. QED
      BY <2>3, <2>6
  <1>11. QED
    BY <1>1, <1>2, <1>3, <1>4, <1>5, <1>6, <1>7, <1>8, <1>9, <1>10 DEF OfJob, JobStep

\* Jobs do not touch each other.
LEMMA JobOthers ==
  ASSUME JobTypes, NEW j \in Jobs, NEW k \in Jobs, k # j, JobInv(k), OfJob(j)
  PROVE  JobInv(k)'
  <1>1. /\ job'[k] = job[k] /\ owner'[k] = owner[k] /\ worker'[k] = worker[k]
        /\ chat'[k] = chat[k] /\ context'[k] = context[k] /\ seen'[k] = seen[k]
    BY DEF OfJob, JobTypes, Post, JobStep, Begin, StartChat, ChatReturns, WorkReturns, Conclude,
           Expire, CallerCancels, RequestEnds, Look
  <1>2. QED
    BY <1>1 DEF JobInv, Stage, Honest, Copied

-----------------------------------------------------------------------------
(* The theorems.                                                           *)

LEMMA InvInit == ServiceInit => IInv
  <1>1. ASSUME ServiceInit PROVE SlotInv
    <2>1. Chatting = {}
      BY <1>1 DEF ServiceInit, Chatting
    <2>2. QED
      BY <1>1, <2>1, FS_EmptySet DEF ServiceInit, SlotInv
  <1>2. ASSUME ServiceInit PROVE ServiceTypeOK
    BY <1>2, ChatServiceAssumption DEF ServiceInit, ServiceTypeOK
  <1>3. ASSUME ServiceInit, NEW j \in Jobs PROVE Stage(j) /\ Honest(j) /\ Copied(j)
    BY <1>3 DEF ServiceInit, Stage, Honest, Copied
  <1>4. QED
    BY <1>1, <1>2, <1>3 DEF IInv

LEMMA InvStep == IInv /\ [ServiceNext]_serviceVars => IInv'
  <1>0. SUFFICES ASSUME IInv, [ServiceNext]_serviceVars PROVE IInv'
    OBVIOUS
  <1>1. ServiceTypeOK /\ SlotInv /\ JobTypes /\ \A j \in Jobs : JobInv(j)
    BY <1>0 DEF IInv, JobInv, ServiceTypeOK, JobTypes
  <1>2. ASSUME NEW r \in Requests, Admit(r) \/ Reject(r) \/ Answer(r)
        PROVE  IInv'
    <2>1. UNCHANGED jobVars
      BY <1>2 DEF Admit, Reject, Answer
    <2>2. \A j \in Jobs : JobInv(j)'
      BY <1>1, <2>1 DEF jobVars, JobInv, Stage, Honest, Copied
    <2>3. JobTypes'
      BY <1>1, <2>1 DEF jobVars, JobTypes
    <2>4. QED
      BY <1>1, <1>2, <2>2, <2>3, RequestStep DEF IInv, JobInv, ServiceTypeOK, JobTypes
  <1>3. ASSUME NEW j \in Jobs, OfJob(j)
        PROVE  IInv'
    <2>1. UNCHANGED <<slots, request>>
      BY <1>3 DEF OfJob, Post, JobStep, Begin, StartChat, ChatReturns, WorkReturns, Conclude,
                  Expire, CallerCancels, RequestEnds, Look
    <2>2. SlotInv'
      BY <1>1, <2>1 DEF SlotInv, Chatting
    <2>3. JobTypes' /\ JobInv(j)'
      BY <1>1, <1>3, JobSelf
    <2>4. \A k \in Jobs : JobInv(k)'
      BY <1>1, <1>3, <2>3, JobOthers
    <2>5. QED
      BY <1>1, <2>1, <2>2, <2>3, <2>4 DEF IInv, JobInv, ServiceTypeOK, JobTypes
  <1>4. CASE UNCHANGED serviceVars
    BY <1>0, <1>4 DEF serviceVars, IInv, ServiceTypeOK, SlotInv, Chatting, Stage, Honest, Copied
  <1>5. QED
    BY <1>0, <1>2, <1>3, <1>4 DEF ServiceNext, SlotNext, JobNext, OfJob

\* A token is out for each request inside its handler and for no other, and
\* never more than there are: withChatSlot leaks none, whatever the handler's
\* end.
THEOREM SlotsAlwaysExact == ServiceSpec => [](SlotsExact /\ slots <= Slots)
  <1>1. IInv => SlotsExact /\ slots <= Slots
    BY ChatServiceAssumption DEF IInv, SlotInv, SlotsExact, Chatting, ServiceTypeOK
  <1>2. QED
    BY InvInit, InvStep, <1>1, PTL DEF ServiceSpec

\* The request that posted a background job does not cancel it, its record
\* claims no outcome it did not have, and no copy that was handed out is
\* contradicted later.
THEOREM JobsAlwaysHonest == ServiceSpec => []JobsHonest
  <1>1. IInv => JobsHonest
    <2>1. IInv => OutlivesRequest
      BY DEF IInv, Honest, OutlivesRequest
    <2>2. IInv => NoFalseVerdict
      BY DEF IInv, Stage, Honest, NoFalseVerdict, ServiceTypeOK, Job, Statuses, Terminal
    <2>3. IInv => CopiesHold
      BY DEF IInv, Copied, Prefix, CopiesHold
    <2>4. QED
      BY <2>1, <2>2, <2>3 DEF JobsHonest
  <1>2. QED
    BY InvInit, InvStep, <1>1, PTL DEF ServiceSpec

-----------------------------------------------------------------------------
(* StudioEvents: the event bus.                                          *)

Stream(s) == sent[s] \o buffer[s]

EventOf(e) == [from |-> e, number |-> emitted[e] + 1]

Misses(s) == s \in subscribers /\ ~HasRoom(s)
Receives(s) == s \in subscribers /\ HasRoom(s)

\* Where a handler is, its subscription and its channel agree.
Phases ==
  \A s \in Subscribers :
    /\ s \in subscribers <=> handler[s] \in {"streaming", "leaving"}
    /\ s \in closed <=> handler[s] = "gone"

Reached(s) ==
  \A i \in 1 .. Len(Stream(s)) : Stream(s)[i].number <= emitted[Stream(s)[i].from]

Ordered(s) ==
  \A i, k \in 1 .. Len(Stream(s)) : i < k => Before(Stream(s)[i], Stream(s)[k])

\* Every event emitted since the client subscribed is in its stream or dropped.
Accounted(s, e) ==
  \A n \in before[s][e] + 1 .. emitted[e] :
    [from |-> e, number |-> n] \in dropped[s] \cup ToSet(Stream(s))

AllAccounted(s) == handler[s] = "streaming" => \A e \in Emitters : Accounted(s, e)

BusInv == /\ BusTypeOK
          /\ Phases
          /\ \A s \in Subscribers : Reached(s) /\ Ordered(s) /\ AllAccounted(s)

-----------------------------------------------------------------------------
(* Sequences.                                                              *)

\* Moving the head of one sequence to the end of another keeps their
\* concatenation.
LEMMA HeadMoves ==
  ASSUME NEW S, NEW a \in Seq(S), NEW b \in Seq(S), b # <<>>
  PROVE  Append(a, Head(b)) \o Tail(b) = a \o b
<1> DEFINE c == Append(a, Head(b))
<1>1. Head(b) \in S /\ Tail(b) \in Seq(S) /\ Len(Tail(b)) = Len(b) - 1
      /\ \A i \in 1 .. Len(Tail(b)) : Tail(b)[i] = b[i + 1]
  BY HeadTailProperties
<1>2. Head(b) = b[1]
  OBVIOUS
<1>3. /\ c \in Seq(S) /\ Len(c) = Len(a) + 1
      /\ \A i \in 1 .. Len(a) : c[i] = a[i]
      /\ c[Len(a) + 1] = Head(b)
  BY <1>1, AppendProperties
<1>4. Len(a) \in Nat /\ Len(b) \in Nat \ {0}
  BY LenProperties, EmptySeq
<1>5. c \o Tail(b) \in Seq(S) /\ Len(c \o Tail(b)) = Len(a) + Len(b)
      /\ \A i \in 1 .. Len(a) + Len(b) :
           (c \o Tail(b))[i] = IF i <= Len(a) + 1 THEN c[i] ELSE Tail(b)[i - (Len(a) + 1)]
  <2> HIDE DEF c
  <2>1. c \o Tail(b) \in Seq(S) /\ Len(c \o Tail(b)) = Len(c) + Len(Tail(b))
        /\ \A i \in 1 .. Len(c) + Len(Tail(b)) :
             (c \o Tail(b))[i] = IF i <= Len(c) THEN c[i] ELSE Tail(b)[i - Len(c)]
    BY <1>1, <1>3, ConcatProperties
  <2> QED BY <2>1, <1>1, <1>3, <1>4
<1> DEFINE d == a \o b
<1>6. d \in Seq(S) /\ Len(d) = Len(a) + Len(b)
      /\ \A i \in 1 .. Len(a) + Len(b) : d[i] = IF i <= Len(a) THEN a[i] ELSE b[i - Len(a)]
  BY ConcatProperties
<1> HIDE DEF d
<1>7. ASSUME NEW i \in 1 .. Len(a) + Len(b)
      PROVE  (c \o Tail(b))[i] = d[i]
  <2> HIDE DEF c
  <2>0. i \in Nat /\ Len(a) \in Nat
    BY <1>4
  <2>1. CASE i <= Len(a)
    BY <2>1, <1>3, <1>4, <1>5, <1>6
  <2>2. CASE i = Len(a) + 1
    BY <2>2, <1>2, <1>3, <1>4, <1>5, <1>6
  <2>3. CASE i > Len(a) + 1
    <3>1. i - (Len(a) + 1) \in 1 .. Len(Tail(b))
      BY <2>3, <1>1, <1>4
    <3>2. Tail(b)[i - (Len(a) + 1)] = b[i - Len(a)]
      BY <3>1, <1>1, <1>4
    <3>3. ~(i <= Len(a) + 1) /\ ~(i <= Len(a))
      BY <2>0, <2>3
    <3>4. (c \o Tail(b))[i] = Tail(b)[i - (Len(a) + 1)]
      BY <3>3, <1>5, Zenon
    <3>5. d[i] = b[i - Len(a)]
      BY <3>3, <1>6, Zenon
    <3> QED BY <3>2, <3>4, <3>5
  <2>4. i <= Len(a) \/ i = Len(a) + 1 \/ i > Len(a) + 1
    BY <2>0
  <2> QED BY <2>1, <2>2, <2>3, <2>4
<1> HIDE DEF c
<1>8. c \o Tail(b) = d
  BY <1>5, <1>6, <1>7, SeqEqual
<1> QED BY <1>8 DEF c, d

\* Adding to the second of two sequences adds to their concatenation.
LEMMA AppendMoves ==
  ASSUME NEW S, NEW a \in Seq(S), NEW b \in Seq(S), NEW x \in S
  PROVE  a \o Append(b, x) = Append(a \o b, x)
<1>1. /\ <<x>> \in Seq(S)
      /\ Append(b, x) = b \o <<x>>
      /\ a \o b \in Seq(S)
      /\ Append(a \o b, x) = (a \o b) \o <<x>>
  BY ConcatProperties, AppendIsConcat
<1> QED BY <1>1, ConcatAssociative

\* The elements of a sequence with one more at its end.
LEMMA ToSetOfAppend ==
  ASSUME NEW S, NEW a \in Seq(S), NEW x \in S
  PROVE  ToSet(Append(a, x)) = ToSet(a) \cup {x}
<1> DEFINE b == Append(a, x)
<1>1. b \in Seq(S) /\ Len(b) = Len(a) + 1 /\ b[Len(a) + 1] = x
      /\ \A i \in 1 .. Len(a) : b[i] = a[i]
  BY AppendProperties
<1>2. Len(a) \in Nat /\ DOMAIN a = 1 .. Len(a)
  BY LenProperties
<1> HIDE DEF b
<1>3. DOMAIN b = 1 .. Len(a) + 1
  BY <1>1, <1>2, LenProperties
<1>4. ToSet(b) = {b[i] : i \in 1 .. Len(a) + 1} /\ ToSet(a) = {a[i] : i \in 1 .. Len(a)}
  BY <1>2, <1>3 DEF ToSet
<1>5. 1 .. Len(a) + 1 = (1 .. Len(a)) \cup {Len(a) + 1}
  BY <1>2
<1>6. ToSet(b) = ToSet(a) \cup {x}
  BY <1>1, <1>4, <1>5
<1> QED BY <1>6 DEF b

-----------------------------------------------------------------------------
(* Streams.                                                                *)

LEMMA StreamTyped ==
  ASSUME BusTypeOK, NEW s \in Subscribers
  PROVE  /\ sent[s] \in Seq(Event) /\ buffer[s] \in Seq(Event)
         /\ Stream(s) \in Seq(Event) /\ Len(Stream(s)) \in Nat
         /\ \A i \in 1 .. Len(Stream(s)) : Stream(s)[i] \in Event
<1>1. sent[s] \in Seq(Event) /\ buffer[s] \in Seq(Event)
  BY DEF BusTypeOK
<1>2. Stream(s) \in Seq(Event)
  BY <1>1, ConcatProperties DEF Stream
<1>3. Len(Stream(s)) \in Nat
  BY <1>2, LenProperties
<1>4. \A i \in 1 .. Len(Stream(s)) : Stream(s)[i] \in Event
  BY <1>2, ElementOfSeq
<1> QED BY <1>1, <1>2, <1>3, <1>4

LEMMA EventTyped ==
  ASSUME BusTypeOK, NEW e \in Emitters, emitted[e] < MaxEvents
  PROVE  /\ EventOf(e) \in Event /\ emitted[e] \in Nat
         /\ EventOf(e).from = e /\ EventOf(e).number = emitted[e] + 1
<1>1. emitted[e] \in 0 .. MaxEvents /\ MaxEvents \in Nat
  BY StudioEventsAssumption DEF BusTypeOK
<1>2. emitted[e] + 1 \in 1 .. MaxEvents
  BY <1>1
<1>3. EventOf(e).from = e /\ EventOf(e).number = emitted[e] + 1
  BY DEF EventOf
<1>4. EventOf(e) \in Event
  BY <1>2 DEF EventOf, Event
<1> QED BY <1>1, <1>3, <1>4

\* What an emitted event does to each client's stream.
LEMMA EmitStreams ==
  ASSUME BusTypeOK, NEW e \in Emitters, Emit(e), NEW s \in Subscribers
  PROVE  /\ Receives(s) => Stream(s)' = Append(Stream(s), EventOf(e))
         /\ ~Receives(s) => Stream(s)' = Stream(s)
<1>1. sent'[s] = sent[s]
  BY DEF Emit
<1>2. buffer'[s] = IF s \in subscribers THEN Offer(s, EventOf(e)) ELSE buffer[s]
  BY DEF Emit, EventOf
<1>3. EventOf(e) \in Event
  BY EventTyped DEF Emit
<1>4. CASE Receives(s)
  <2>1. buffer'[s] = Append(buffer[s], EventOf(e))
    BY <1>2, <1>4 DEF Receives, Offer
  <2>2. sent[s] \o Append(buffer[s], EventOf(e)) = Append(sent[s] \o buffer[s], EventOf(e))
    <3>1. sent[s] \in Seq(Event) /\ buffer[s] \in Seq(Event)
      BY StreamTyped
    <3>2. \A a, b \in Seq(Event), x \in Event : a \o Append(b, x) = Append(a \o b, x)
      BY AppendMoves
    <3> QED BY <3>1, <3>2, <1>3
  <2> QED BY <1>1, <2>1, <2>2, <1>4 DEF Stream
<1>5. CASE ~Receives(s)
  <2>1. buffer'[s] = buffer[s]
    BY <1>2, <1>5 DEF Receives, Offer
  <2> QED BY <1>1, <2>1, <1>5 DEF Stream
<1> QED BY <1>4, <1>5

\* Forwarding moves an event of a stream, and changes no stream.
LEMMA ForwardStreams ==
  ASSUME BusTypeOK, NEW r \in Subscribers, Forward(r), NEW s \in Subscribers
  PROVE  Stream(s)' = Stream(s)
<1>1. sent \in [Subscribers -> Seq(Event)] /\ buffer \in [Subscribers -> Seq(Event)]
  BY DEF BusTypeOK
<1>2. CASE s = r
  <2>1. sent'[s] = Append(sent[s], Head(buffer[s])) /\ buffer'[s] = Tail(buffer[s])
    BY <1>1, <1>2 DEF Forward
  <2>2. buffer[s] # <<>>
    BY <1>2 DEF Forward
  <2>3. Append(sent[s], Head(buffer[s])) \o Tail(buffer[s]) = sent[s] \o buffer[s]
    BY <2>2, StreamTyped, HeadMoves
  <2> QED BY <2>1, <2>3 DEF Stream
<1>3. CASE s # r
  BY <1>1, <1>3 DEF Forward, Stream
<1> QED BY <1>2, <1>3

-----------------------------------------------------------------------------
(* Types.                                                                  *)

LEMMA BusInitType == BusInit => BusTypeOK
<1> SUFFICES ASSUME BusInit PROVE BusTypeOK
  OBVIOUS
<1>1. 0 \in 0 .. MaxEvents /\ 0 <= Capacity
  BY StudioEventsAssumption
<1>2. <<>> \in Seq(Event) /\ Len(<<>>) = 0
  BY EmptySeq
<1> QED BY <1>1, <1>2 DEF BusInit, BusTypeOK

LEMMA BusTypeStep == BusTypeOK /\ [BusNext]_busVars => BusTypeOK'
<1> SUFFICES ASSUME BusTypeOK, [BusNext]_busVars PROVE BusTypeOK'
  OBVIOUS
<1>1. ASSUME NEW e \in Emitters, Emit(e) PROVE BusTypeOK'
  <2>1. EventOf(e) \in Event /\ emitted[e] + 1 \in 0 .. MaxEvents
    <3>1. emitted[e] \in 0 .. MaxEvents /\ MaxEvents \in Nat /\ emitted[e] < MaxEvents
      BY <1>1, StudioEventsAssumption DEF BusTypeOK, Emit
    <3> QED BY <3>1, EventTyped
  <2>2. emitted' \in [Emitters -> 0 .. MaxEvents]
    BY <1>1, <2>1 DEF Emit, BusTypeOK
  <2>3. ASSUME NEW s \in Subscribers
        PROVE  buffer'[s] \in Seq(Event) /\ Len(buffer'[s]) <= Capacity
    <3>1. buffer'[s] = IF s \in subscribers THEN Offer(s, EventOf(e)) ELSE buffer[s]
      BY <1>1 DEF Emit, EventOf
    <3>2. buffer[s] \in Seq(Event) /\ Len(buffer[s]) <= Capacity /\ Len(buffer[s]) \in Nat
      BY LenProperties DEF BusTypeOK
    <3>3. CASE Receives(s)
      <4>1. buffer'[s] = Append(buffer[s], EventOf(e)) /\ Len(buffer[s]) < Capacity
        BY <3>1, <3>3 DEF Receives, Offer, HasRoom
      <4>2. Append(buffer[s], EventOf(e)) \in Seq(Event)
            /\ Len(Append(buffer[s], EventOf(e))) = Len(buffer[s]) + 1
        BY <2>1, <3>2, AppendProperties
      <4> QED BY <4>1, <4>2, <3>2, StudioEventsAssumption
    <3>4. CASE ~Receives(s)
      BY <3>1, <3>2, <3>4 DEF Receives, Offer
    <3> QED BY <3>3, <3>4
  <2>4. buffer' \in [Subscribers -> Seq(Event)]
    <3>1. buffer' = [s \in Subscribers |-> buffer'[s]]
      BY <1>1 DEF Emit
    <3> QED BY <2>3, <3>1, Zenon
  <2>5. dropped' \in [Subscribers -> SUBSET Event]
    <3>1. dropped' = [s \in Subscribers |-> IF s \in subscribers /\ ~HasRoom(s)
                        THEN dropped[s] \cup {EventOf(e)} ELSE dropped[s]]
      BY <1>1 DEF Emit, EventOf
    <3> QED BY <3>1, <2>1 DEF BusTypeOK
  <2> QED BY <1>1, <2>2, <2>3, <2>4, <2>5 DEF Emit, BusTypeOK
<1>2. ASSUME NEW s \in Subscribers, Subscribe(s) PROVE BusTypeOK'
  BY <1>2 DEF Subscribe, BusTypeOK
<1>3. ASSUME NEW r \in Subscribers, Forward(r) PROVE BusTypeOK'
  <2>1. sent[r] \in Seq(Event) /\ buffer[r] \in Seq(Event) /\ buffer[r] # <<>>
        /\ Len(buffer[r]) <= Capacity
    BY <1>3 DEF BusTypeOK, Forward
  <2>2. /\ Head(buffer[r]) \in Event /\ Tail(buffer[r]) \in Seq(Event)
        /\ Len(Tail(buffer[r])) = Len(buffer[r]) - 1 /\ Len(buffer[r]) \in Nat
    BY <2>1, HeadTailProperties, LenProperties
  <2>3. Append(sent[r], Head(buffer[r])) \in Seq(Event)
    BY <2>1, <2>2, AppendProperties
  <2>4. Len(Tail(buffer[r])) <= Capacity
    BY <2>1, <2>2, StudioEventsAssumption
  <2>5. sent' \in [Subscribers -> Seq(Event)] /\ buffer' \in [Subscribers -> Seq(Event)]
    BY <1>3, <2>2, <2>3 DEF Forward, BusTypeOK
  <2>6. \A s \in Subscribers : Len(buffer'[s]) <= Capacity
    <3>1. \A s \in Subscribers :
            buffer'[s] = IF s = r THEN Tail(buffer[r]) ELSE buffer[s]
      BY <1>3 DEF Forward, BusTypeOK
    <3> QED BY <3>1, <2>4 DEF BusTypeOK
  <2> QED BY <1>3, <2>5, <2>6 DEF Forward, BusTypeOK
<1>4. ASSUME NEW s \in Subscribers, ClientLeaves(s) PROVE BusTypeOK'
  BY <1>4 DEF ClientLeaves, BusTypeOK
<1>5. ASSUME NEW s \in Subscribers, Unsubscribe(s) PROVE BusTypeOK'
  BY <1>5 DEF Unsubscribe, Removed, BusTypeOK
<1>6. CASE UNCHANGED busVars
  BY <1>6 DEF busVars, BusTypeOK
<1> QED BY <1>1, <1>2, <1>3, <1>4, <1>5, <1>6 DEF BusNext

-----------------------------------------------------------------------------
(* Phases.                                                                 *)

LEMMA PhasesStep == BusTypeOK /\ Phases /\ [BusNext]_busVars => Phases'
<1> SUFFICES ASSUME BusTypeOK, Phases, [BusNext]_busVars PROVE Phases'
  OBVIOUS
<1>1. ASSUME NEW e \in Emitters, Emit(e) PROVE Phases'
  BY <1>1 DEF Emit, Phases
<1>2. ASSUME NEW s \in Subscribers, Subscribe(s) PROVE Phases'
  BY <1>2 DEF Subscribe, Phases, BusTypeOK
<1>3. ASSUME NEW s \in Subscribers, Forward(s) PROVE Phases'
  BY <1>3 DEF Forward, Phases
<1>4. ASSUME NEW s \in Subscribers, ClientLeaves(s) PROVE Phases'
  BY <1>4 DEF ClientLeaves, Phases, BusTypeOK
<1>5. ASSUME NEW s \in Subscribers, Unsubscribe(s) PROVE Phases'
  BY <1>5 DEF Unsubscribe, Removed, Phases, BusTypeOK
<1>6. CASE UNCHANGED busVars
  BY <1>6 DEF busVars, Phases
<1> QED BY <1>1, <1>2, <1>3, <1>4, <1>5, <1>6 DEF BusNext

-----------------------------------------------------------------------------
(* The streams' invariants.                                                *)

StreamInv(s) == Reached(s) /\ Ordered(s) /\ AllAccounted(s)

\* What says nothing of a stream but through its events.
LEMMA StreamUnchanged ==
  ASSUME NEW s \in Subscribers, StreamInv(s), Stream(s)' = Stream(s),
         UNCHANGED <<emitted, dropped>>,
         handler'[s] = "streaming" =>
           handler[s] = "streaming" /\ before'[s] = before[s]
  PROVE  StreamInv(s)'
<1>1. Reached(s)'
  BY DEF StreamInv, Reached
<1>2. Ordered(s)'
  BY DEF StreamInv, Ordered, Before
<1>3. AllAccounted(s)'
  BY DEF StreamInv, AllAccounted, Accounted
<1> QED BY <1>1, <1>2, <1>3 DEF StreamInv

\* A request's next event comes after all of its events in the stream.
LEMMA EmitOrdered ==
  ASSUME BusTypeOK, NEW e \in Emitters, Emit(e), NEW s \in Subscribers,
         Reached(s), Ordered(s)
  PROVE  Reached(s)' /\ Ordered(s)'
<1>1. /\ EventOf(e) \in Event /\ emitted[e] \in Nat
      /\ EventOf(e).from = e /\ EventOf(e).number = emitted[e] + 1
  BY EventTyped DEF Emit
<1>2. \A f \in Emitters : /\ emitted[f] \in Nat
                          /\ emitted'[f] = IF f = e THEN emitted[f] + 1 ELSE emitted[f]
  <2>1. MaxEvents \in Nat
    BY StudioEventsAssumption
  <2> QED BY <2>1 DEF Emit, BusTypeOK
<1>3. /\ Stream(s) \in Seq(Event) /\ Len(Stream(s)) \in Nat
      /\ \A i \in 1 .. Len(Stream(s)) : Stream(s)[i] \in Event
  BY StreamTyped
<1>4. \A x \in Event : x.from \in Emitters /\ x.number \in Nat
  BY StudioEventsAssumption DEF Event
<1>5. \A i \in 1 .. Len(Stream(s)) : Stream(s)[i].number <= emitted[Stream(s)[i].from]
  BY DEF Reached
<1>6. \A i \in 1 .. Len(Stream(s)) : Stream(s)[i].number <= emitted'[Stream(s)[i].from]
  <2> TAKE i \in 1 .. Len(Stream(s))
  <2>1. Stream(s)[i].from \in Emitters /\ Stream(s)[i].number \in Nat
    BY <1>3, <1>4
  <2> QED BY <2>1, <1>2, <1>5
<1>7. CASE ~Receives(s)
  <2>1. Stream(s)' = Stream(s)
    BY <1>7, EmitStreams
  <2> QED BY <2>1, <1>6 DEF Reached, Ordered, Before
<1>8. CASE Receives(s)
  <2> DEFINE x == EventOf(e)
             a == Stream(s)
             b == Append(a, x)
  <2>1. Stream(s)' = b
    BY <1>8, EmitStreams
  <2>2. /\ Len(b) = Len(a) + 1
        /\ \A i \in 1 .. Len(a) : b[i] = a[i]
        /\ b[Len(a) + 1] = x
    BY <1>1, <1>3, AppendProperties
  <2>3. \A i \in 1 .. Len(b) : i \in 1 .. Len(a) \/ i = Len(a) + 1
    BY <2>2, <1>3
  <2>4. emitted'[e] = emitted[e] + 1
    BY <1>2
  <2>5. \A i \in 1 .. Len(b) : b[i].number <= emitted'[b[i].from]
    <3> TAKE i \in 1 .. Len(b)
    <3>1. CASE i \in 1 .. Len(a)
      BY <3>1, <2>2, <1>6
    <3>2. CASE i = Len(a) + 1
      BY <3>2, <2>2, <2>4, <1>1
    <3> QED BY <3>1, <3>2, <2>3
  <2>6. \A i, k \in 1 .. Len(b) : i < k => Before(b[i], b[k])
    <3> SUFFICES ASSUME NEW i \in 1 .. Len(b), NEW k \in 1 .. Len(b), i < k
                 PROVE  Before(b[i], b[k])
      OBVIOUS
    <3>1. i \in 1 .. Len(a)
      BY <2>2, <2>3, <1>3
    <3>2. CASE k \in 1 .. Len(a)
      BY <3>1, <3>2, <2>2 DEF Ordered
    <3>3. CASE k = Len(a) + 1
      <4>1. b[i] = a[i] /\ b[k] = x
        BY <3>1, <3>3, <2>2
      <4>2. a[i].from \in Emitters /\ a[i].number \in Nat
        BY <3>1, <1>3, <1>4
      <4>3. a[i].number <= emitted[a[i].from]
        BY <3>1, <1>5
      <4>4. a[i].from = e => a[i].number < emitted[e] + 1
        BY <4>2, <4>3, <1>1
      <4> QED BY <4>1, <4>4, <1>1 DEF Before
    <3> QED BY <3>2, <3>3, <2>3
  <2> HIDE DEF b
  <2> QED BY <2>1, <2>5, <2>6 DEF Reached, Ordered
<1> QED BY <1>7, <1>8

\* A client that streams gets the event, or its full channel misses it.
LEMMA EmitAccounted ==
  ASSUME BusTypeOK, Phases, NEW e \in Emitters, Emit(e), NEW s \in Subscribers,
         AllAccounted(s)
  PROVE  AllAccounted(s)'
<1> SUFFICES ASSUME handler'[s] = "streaming", NEW f \in Emitters,
                    NEW n \in before'[s][f] + 1 .. emitted'[f]
             PROVE  [from |-> f, number |-> n] \in dropped'[s] \cup ToSet(Stream(s)')
  BY DEF AllAccounted, Accounted
<1>1. handler[s] = "streaming" /\ s \in subscribers /\ before' = before
  BY DEF Emit, Phases
<1>2. EventOf(e) \in Event /\ emitted[e] \in Nat
  BY EventTyped DEF Emit
<1>3. /\ emitted[f] \in Nat /\ before[s][f] \in Nat
      /\ emitted'[f] = IF f = e THEN emitted[f] + 1 ELSE emitted[f]
  <2>1. MaxEvents \in Nat
    BY StudioEventsAssumption
  <2> QED BY <2>1 DEF Emit, BusTypeOK
<1>4. dropped'[s] = IF Misses(s) THEN dropped[s] \cup {EventOf(e)} ELSE dropped[s]
  BY DEF Emit, EventOf, Misses
<1>5. ToSet(Stream(s)') = IF Receives(s) THEN ToSet(Stream(s)) \cup {EventOf(e)}
                          ELSE ToSet(Stream(s))
  <2>1. ToSet(Append(Stream(s), EventOf(e))) = ToSet(Stream(s)) \cup {EventOf(e)}
    BY <1>2, StreamTyped, ToSetOfAppend
  <2> QED BY <2>1, EmitStreams
<1>6. Misses(s) \/ Receives(s)
  BY <1>1 DEF Misses, Receives
<1>7. CASE n \in before[s][f] + 1 .. emitted[f]
  <2>1. [from |-> f, number |-> n] \in dropped[s] \cup ToSet(Stream(s))
    BY <1>1, <1>7 DEF AllAccounted, Accounted
  <2> QED BY <2>1, <1>4, <1>5
<1>8. CASE f = e /\ n = emitted[e] + 1
  <2>1. [from |-> f, number |-> n] = EventOf(e)
    BY <1>8 DEF EventOf
  <2> QED BY <2>1, <1>4, <1>5, <1>6
<1> QED BY <1>1, <1>3, <1>7, <1>8

LEMMA StreamInvStep ==
  ASSUME BusTypeOK, Phases, [BusNext]_busVars, NEW s \in Subscribers, StreamInv(s)
  PROVE  StreamInv(s)'
<1>1. ASSUME NEW e \in Emitters, Emit(e) PROVE StreamInv(s)'
  <2>1. Reached(s) /\ Ordered(s) /\ AllAccounted(s)
    BY DEF StreamInv
  <2>2. Reached(s)' /\ Ordered(s)'
    BY <1>1, <2>1, EmitOrdered
  <2>3. AllAccounted(s)'
    BY <1>1, <2>1, EmitAccounted
  <2> QED BY <2>2, <2>3 DEF StreamInv
<1>2. ASSUME NEW r \in Subscribers, Subscribe(r) PROVE StreamInv(s)'
  <2>1. Stream(s)' = Stream(s) /\ UNCHANGED <<emitted, dropped>>
    BY <1>2 DEF Subscribe, Stream
  <2>2. CASE s = r
    <3>1. Reached(s)' /\ Ordered(s)'
      BY <2>1 DEF StreamInv, Reached, Ordered, Before
    <3>2. before'[s] = emitted
      BY <1>2, <2>2 DEF Subscribe, BusTypeOK
    <3>3. \A e \in Emitters : emitted[e] \in Nat
      BY StudioEventsAssumption DEF BusTypeOK
    <3>4. \A e \in Emitters : before'[s][e] + 1 .. emitted'[e] = {}
      BY <3>2, <3>3, <2>1
    <3>5. AllAccounted(s)'
      BY <3>4 DEF AllAccounted, Accounted
    <3> QED BY <3>1, <3>5 DEF StreamInv
  <2>3. CASE s # r
    <3>1. handler'[s] = handler[s] /\ before'[s] = before[s]
      BY <1>2, <2>3 DEF Subscribe, BusTypeOK
    <3> QED BY <2>1, <3>1, StreamUnchanged
  <2> QED BY <2>2, <2>3
<1>3. ASSUME NEW r \in Subscribers, Forward(r) PROVE StreamInv(s)'
  <2>1. Stream(s)' = Stream(s)
    BY <1>3, ForwardStreams
  <2>2. UNCHANGED <<emitted, dropped, handler, before>>
    BY <1>3 DEF Forward
  <2> QED BY <2>1, <2>2, StreamUnchanged
<1>4. ASSUME NEW r \in Subscribers, ClientLeaves(r) PROVE StreamInv(s)'
  <2>1. Stream(s)' = Stream(s) /\ UNCHANGED <<emitted, dropped, before>>
    BY <1>4 DEF ClientLeaves, Stream
  <2>2. handler'[s] = "streaming" => handler[s] = "streaming"
    BY <1>4 DEF ClientLeaves, BusTypeOK
  <2> QED BY <2>1, <2>2, StreamUnchanged
<1>5. ASSUME NEW r \in Subscribers, Unsubscribe(r) PROVE StreamInv(s)'
  <2>1. Stream(s)' = Stream(s) /\ UNCHANGED <<emitted, dropped, before>>
    BY <1>5 DEF Unsubscribe, Stream
  <2>2. handler'[s] = "streaming" => handler[s] = "streaming"
    BY <1>5 DEF Unsubscribe, BusTypeOK
  <2> QED BY <2>1, <2>2, StreamUnchanged
<1>6. CASE UNCHANGED busVars
  BY <1>6, StreamUnchanged DEF busVars, Stream
<1> QED BY <1>1, <1>2, <1>3, <1>4, <1>5, <1>6 DEF BusNext

-----------------------------------------------------------------------------
(* The theorems.                                                           *)

LEMMA BusInvInit == BusInit => BusInv
<1> SUFFICES ASSUME BusInit PROVE BusInv
  OBVIOUS
<1>1. BusTypeOK
  BY BusInitType
<1>2. Phases
  BY DEF BusInit, Phases
<1>3. ASSUME NEW s \in Subscribers PROVE Reached(s) /\ Ordered(s) /\ AllAccounted(s)
  <2>1. Stream(s) = <<>>
    <3>1. sent[s] = <<>> /\ buffer[s] = <<>>
      BY DEF BusInit
    <3>2. <<>> \in Seq(Event)
      BY EmptySeq
    <3> QED BY <3>1, <3>2, ConcatEmptySeq DEF Stream
  <2>2. 1 .. Len(Stream(s)) = {}
    BY <2>1
  <2> QED BY <2>2 DEF BusInit, Reached, Ordered, AllAccounted
<1> QED BY <1>1, <1>2, <1>3 DEF BusInv

LEMMA BusInvStep == BusInv /\ [BusNext]_busVars => BusInv'
<1> SUFFICES ASSUME BusInv, [BusNext]_busVars PROVE BusInv'
  OBVIOUS
<1>1. BusTypeOK' /\ Phases'
  BY BusTypeStep, PhasesStep DEF BusInv
<1>2. \A s \in Subscribers : StreamInv(s)'
  BY StreamInvStep DEF BusInv, StreamInv
<1> QED BY <1>1, <1>2 DEF BusInv, StreamInv

LEMMA BusInvariant == BusSpec => []BusInv
BY BusInvInit, BusInvStep, PTL DEF BusSpec

\* Every variable of the bus always has its type; in particular no channel
\* holds more events than it has room for.
THEOREM BusTypeCorrect == BusSpec => []BusTypeOK
<1>1. BusInv => BusTypeOK
  BY DEF BusInv
<1> QED BY <1>1, BusInvariant, PTL

\* An emitter never finds a closed channel among the subscribers: unsubscribing
\* takes the channel out of Service.eventSubscribers and closes it at once.
THEOREM NeverSendsOnClosed == BusSpec => []NoSendOnClosed
<1>1. BusInv => NoSendOnClosed
  BY DEF BusInv, Phases, BusTypeOK, NoSendOnClosed
<1> QED BY <1>1, BusInvariant, PTL

\* Each client is sent each request's events in the order they were emitted,
\* and an event emitted while it streams is sent, waits in its channel, or
\* found that channel full.
THEOREM StreamsAlwaysFaithful == BusSpec => []StreamsFaithful
<1>1. BusInv => StreamsFaithful
  <2> SUFFICES ASSUME BusInv PROVE StreamsFaithful
    OBVIOUS
  <2>1. InOrder
    BY DEF BusInv, InOrder, Ordered, Stream
  <2>2. OnlyOverflowDrops
    BY DEF BusInv, OnlyOverflowDrops, AllAccounted, Accounted, Stream
  <2> QED BY <2>1, <2>2 DEF StreamsFaithful
<1> QED BY <1>1, BusInvariant, PTL
=============================================================================
