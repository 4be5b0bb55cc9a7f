-------------------------- MODULE ProcessesProofs --------------------------
(***************************************************************************)
(* The safety of the child processes, for every number of requests and     *)
(* every kind, project and language: nothing a request started or made     *)
(* outlives all that could end it, and there is one sign-in at a time.     *)
(*                                                                         *)
(* The invariant says of each request what its handler's place tells about *)
(* its process and its directory (Sound), and of the requests together who *)
(* holds the preview's lock while the manager's field lags behind, whose   *)
(* process somebody still has, and who is signing in.  A step changes the  *)
(* record of one request and at most kills the process of another.         *)
(***************************************************************************)
EXTENDS Processes, FiniteSetTheorems, TLAPS

\* What the place of a handler says about its process and its directory.
Sound(x) ==
  /\ x.at \in {"begin", "detect", "missing", "launch", "reading", "stopping", "client", "ask"}
       => x.proc = "none"
  /\ x.kind = "none" => x.at = "end" /\ x.proc = "none"
  /\ x.at \in {"missing", "launch", "building", "running"} => x.kind \in {"run", "install"}
  /\ \/ x.temp = "none"
     \/ x.kind = "run" /\ x.seen \in Nameless
     \/ /\ x.temp = x.cleans /\ x.kind = "run"
        /\ x.at \in {"missing", "launch", "building", "running"}

\* A process that its handler left behind.
Stray(x) == x.proc = "running" /\ ~x.killed /\ x.at = "end"
Detects(x) == x.kind = "preview" /\ x.at = "detect"
Waits(x) == x.kind = "preview" /\ x.at = "waiting"
LogsIn(x) == x.kind = "sign-in" /\ x.at = "login"

Fresh == \A q \in Requests : q > asked => req[q].kind = "none"

Owned == \A q \in Requests : Stray(req[q]) => q = current \/ q \in items

\* A preview that starts holds the lock: the field is empty until its process
\* runs, and then names it.
Locked ==
  \A q \in Requests :
    /\ Detects(req[q]) => lock = q /\ current = Nobody
    /\ Waits(req[q]) => lock = q /\ current = q

Signing ==
  /\ \A p, q \in Requests : LogsIn(req[p]) /\ LogsIn(req[q]) => p = q
  /\ signing <=> \E q \in Requests : LogsIn(req[q])

AllSound == \A q \in Requests : Sound(req[q])

IInv == TypeOK /\ AllSound /\ Fresh /\ Owned /\ Locked /\ Signing

-----------------------------------------------------------------------------
(* Steps that change the record of one request.                            *)

Killed(x) == [x EXCEPT !.killed = TRUE]

\* Other requests keep their records, or have their processes killed.
Spares(r) ==
  \A q \in Requests \ {r} : req'[q] = req[q] \/ req'[q] = Killed(req[q])

LEMMA KilledRecord ==
  ASSUME NEW x \in Request
  PROVE  /\ Killed(x) \in Request /\ ~Stray(Killed(x))
         /\ Killed(x).killed /\ Killed(x).proc = x.proc
         /\ Killed(x).kind = x.kind /\ Killed(x).at = x.at
         /\ Sound(x) => Sound(Killed(x))
  <1>1. /\ Killed(x) \in Request /\ Killed(x).killed /\ Killed(x).proc = x.proc
        /\ Killed(x).kind = x.kind /\ Killed(x).at = x.at
        /\ Killed(x).temp = x.temp /\ Killed(x).cleans = x.cleans /\ Killed(x).seen = x.seen
    BY DEF Killed, Request
  <1> QED
    BY <1>1 DEF Sound, Stray

LEMMA Updated ==
  ASSUME TypeOK, NEW r \in Requests, NEW y \in Request, req' = [req EXCEPT ![r] = y]
  PROVE  req' \in [Requests -> Request] /\ req'[r] = y /\ Spares(r)
  BY DEF TypeOK, Spares

\* Kill(p, req) with a new record for r.
LEMMA KillUpdated ==
  ASSUME TypeOK, NEW r \in Requests, NEW p, NEW y \in Request,
         req' = [Kill(p, req) EXCEPT ![r] = y]
  PROVE  /\ req' \in [Requests -> Request] /\ req'[r] = y /\ Spares(r)
         /\ p \in Requests \ {r} => req'[p].proc # "running" \/ req'[p].killed
  <1> DEFINE K == Kill(p, req)
  <1>1. /\ req \in [Requests -> Request]
        /\ \A q \in Requests : K[q] = IF q = p /\ req[q].proc = "running"
                                      THEN Killed(req[q]) ELSE req[q]
        /\ DOMAIN K = Requests
    BY DEF Kill, Killed, TypeOK
  <1>2. K \in [Requests -> Request]
    BY <1>1, KilledRecord DEF Kill
  <1>3. req' = [K EXCEPT ![r] = y]
    OBVIOUS
  <1> HIDE DEF K
  <1>4. req' \in [Requests -> Request] /\ req'[r] = y
    BY <1>2, <1>3
  <1>5. \A q \in Requests \ {r} : req'[q] = K[q]
    BY <1>2, <1>3
  <1>6. Spares(r)
    BY <1>1, <1>5 DEF Spares
  <1>7. p \in Requests \ {r} => req'[p].proc # "running" \/ req'[p].killed
    BY <1>1, <1>5, KilledRecord
  <1> QED
    BY <1>4, <1>6, <1>7

\* The request keeps its kind, and comes to no place of importance.
Calm(x, y) ==
  /\ y.kind = x.kind
  /\ Detects(y) => Detects(x)
  /\ Waits(y) => Waits(x)
  /\ LogsIn(y) <=> LogsIn(x)

\* What every step of an existing request keeps.
LEMMA RecordsKept ==
  ASSUME IInv, NEW r \in Requests, Spares(r), asked' = asked,
         req' \in [Requests -> Request], Sound(req'[r]), req'[r].kind = req[r].kind
  PROVE  AllSound' /\ Fresh'
  <1>1. \A q \in Requests : req[q] \in Request /\ Sound(req[q])
    BY DEF IInv, TypeOK, AllSound
  <1>2. \A q \in Requests \ {r} : Sound(req'[q]) /\ req'[q].kind = req[q].kind
    BY <1>1, KilledRecord DEF Spares
  <1> QED
    BY <1>2 DEF IInv, AllSound, Fresh

LEMMA SigningKept ==
  ASSUME IInv, NEW r \in Requests, Spares(r), signing' = signing,
         LogsIn(req'[r]) <=> LogsIn(req[r])
  PROVE  Signing'
  <1>1. \A q \in Requests : req[q] \in Request
    BY DEF IInv, TypeOK
  <1>2. \A q \in Requests \ {r} : req'[q].kind = req[q].kind /\ req'[q].at = req[q].at
    BY <1>1, KilledRecord DEF Spares
  <1>3. \A q \in Requests : LogsIn(req'[q]) <=> LogsIn(req[q])
    BY <1>2 DEF LogsIn
  <1> QED
    BY <1>3 DEF IInv, Signing

LEMMA OwnersKept ==
  ASSUME IInv, NEW r \in Requests, Spares(r), lock' = lock, current' = current,
         items \subseteq items', Stray(req'[r]) => Stray(req[r]) \/ r \in items',
         Detects(req'[r]) => Detects(req[r]), Waits(req'[r]) => Waits(req[r])
  PROVE  Owned' /\ Locked'
  <1>1. \A q \in Requests : req[q] \in Request
    BY DEF IInv, TypeOK
  <1>2. \A q \in Requests \ {r} : /\ req'[q].kind = req[q].kind /\ req'[q].at = req[q].at
                                  /\ Stray(req'[q]) => Stray(req[q])
    BY <1>1, KilledRecord DEF Spares
  <1>3. \A q \in Requests : /\ Detects(req'[q]) => Detects(req[q])
                            /\ Waits(req'[q]) => Waits(req[q])
                            /\ Stray(req'[q]) => Stray(req[q]) \/ q \in items'
    BY <1>2 DEF Detects, Waits
  <1>4. Owned'
    BY <1>3 DEF IInv, Owned
  <1>5. Locked'
    BY <1>3 DEF IInv, Locked
  <1> QED
    BY <1>4, <1>5

\* A step of a request that concerns neither the preview's lock nor the
\* sign-in, and leaves no process without an owner.
LEMMA CalmStep ==
  ASSUME IInv, NEW r \in Requests, Spares(r), TypeOK', Sound(req'[r]),
         Calm(req[r], req'[r]), Stray(req'[r]) => Stray(req[r]) \/ r \in items',
         items \subseteq items', UNCHANGED <<asked, lock, current, signing>>
  PROVE  IInv'
  <1>1. req' \in [Requests -> Request]
    BY DEF TypeOK
  <1>2. AllSound' /\ Fresh'
    BY <1>1, RecordsKept DEF Calm
  <1>3. Signing'
    BY SigningKept DEF Calm
  <1>4. Owned' /\ Locked'
    BY OwnersKept DEF Calm
  <1> QED
    BY <1>2, <1>3, <1>4 DEF IInv

LEMMA MoveKeeps ==
  ASSUME IInv, NEW r \in Requests, NEW y \in Request, Moves(r, y),
         Sound(y), Calm(req[r], y), Stray(y) => Stray(req[r])
  PROVE  IInv'
  <1>1. req' = [req EXCEPT ![r] = y]
        /\ UNCHANGED <<asked, previewVars, sessions, managedVars, gitHubVars>>
    BY DEF Moves
  <1>2. req' \in [Requests -> Request] /\ req'[r] = y /\ Spares(r)
    BY <1>1, Updated DEF IInv
  <1>3. TypeOK'
    BY <1>1, <1>2 DEF IInv, TypeOK, previewVars, managedVars, gitHubVars
  <1> QED
    BY <1>1, <1>2, <1>3, CalmStep DEF previewVars, managedVars, gitHubVars

-----------------------------------------------------------------------------
(* Records.                                                                *)

\* A handler without a process and a directory answers.
LEMMA AnsweredRecord ==
  ASSUME IInv, NEW r \in Requests, NEW a \in Answers,
         req[r].at \in {"begin", "detect", "reading", "stopping", "client", "ask"}
  PROVE  /\ Answered(r, a) \in Request /\ Sound(Answered(r, a))
         /\ Calm(req[r], Answered(r, a)) /\ ~Stray(Answered(r, a))
         /\ Answered(r, a).at = "end"
  <1> DEFINE x == req[r]
             y == Answered(r, a)
  <1>1. x \in Request /\ Sound(x)
    BY DEF IInv, TypeOK, AllSound
  <1>2. /\ y \in Request /\ y.at = "end" /\ y.kind = x.kind /\ y.proc = x.proc
        /\ y.temp = x.temp /\ y.seen = x.seen
    BY <1>1 DEF Answered, Request, Places
  <1>3. x.at \in {"begin", "detect", "reading", "stopping", "client", "ask"}
    OBVIOUS
  <1> HIDE DEF x, y
  <1>4. Sound(y) /\ Calm(x, y) /\ ~Stray(y)
    BY <1>1, <1>2, <1>3 DEF Sound, Calm, Stray, Detects, Waits, LogsIn
  <1> QED
    BY <1>2, <1>4 DEF x, y

LEMMA AnswerKeeps ==
  ASSUME IInv, NEW r \in Requests, NEW a \in Answers, Moves(r, Answered(r, a)),
         req[r].at \in {"begin", "detect", "reading", "stopping", "client", "ask"}
  PROVE  IInv'
  BY AnsweredRecord, MoveKeeps

\* Only the place of the handler changes.
LEMMA Placed ==
  ASSUME NEW x \in Request, NEW p \in Places, NEW y, y = [x EXCEPT !.at = p]
  PROVE  /\ y \in Request /\ y.at = p /\ y.kind = x.kind /\ y.proc = x.proc
         /\ y.temp = x.temp /\ y.cleans = x.cleans /\ y.killed = x.killed
         /\ y.seen = x.seen
  BY DEF Request

LEMMA StartedRecord ==
  ASSUME NEW x \in Request, NEW next \in Places, NEW child \in BOOLEAN
  PROVE  /\ Started(x, next, child) \in Request
         /\ Started(x, next, child).at = next
         /\ Started(x, next, child).proc = "running"
         /\ Started(x, next, child).kind = x.kind
         /\ Started(x, next, child).temp = x.temp
         /\ Started(x, next, child).cleans = x.cleans
         /\ Started(x, next, child).seen = x.seen
  BY DEF Started, Request

LEMMA ReapedRecord ==
  ASSUME NEW x \in Request, NEW next \in Places
  PROVE  /\ Reaped(x, next) \in Request /\ Reaped(x, next).at = next
         /\ Reaped(x, next).proc = "reaped" /\ Reaped(x, next).kind = x.kind
         /\ Reaped(x, next).temp = x.temp /\ Reaped(x, next).cleans = x.cleans
         /\ Reaped(x, next).seen = x.seen
  BY DEF Reaped, Request

\* The deferred call, whatever the run's end, finds the directory of a run whose
\* source has a name.
Covered(x) == x.temp \in {"none", x.cleans} \/ (x.kind = "run" /\ x.seen \in Nameless)

LEMMA RunEnded ==
  ASSUME NEW x \in Request, NEW a \in Answers, Covered(x), x.kind # "none"
  PROVE  /\ RunEnds(x, a) \in Request /\ RunEnds(x, a).at = "end"
         /\ RunEnds(x, a).kind = x.kind /\ RunEnds(x, a).proc = x.proc
         /\ Sound(RunEnds(x, a))
  <1> DEFINE z == [x EXCEPT !.at = "end", !.answer = a]
             left == IF z.temp = z.cleans THEN "none" ELSE z.temp
  <1>1. /\ z \in Request /\ z.at = "end" /\ z.kind = x.kind /\ z.proc = x.proc
        /\ z.temp = x.temp /\ z.cleans = x.cleans /\ z.seen = x.seen
    BY DEF Request, Places
  <1>2. RunEnds(x, a) = [z EXCEPT !.temp = left]
    BY DEF RunEnds, CleanUp
  <1>3. left \in Directories \cup {"none"}
    BY <1>1 DEF Request
  <1>4. left = "none" \/ (x.kind = "run" /\ x.seen \in Nameless)
    BY <1>1 DEF Covered
  <1> HIDE DEF z, left
  <1>5. /\ RunEnds(x, a) \in Request /\ RunEnds(x, a).at = "end"
        /\ RunEnds(x, a).kind = x.kind /\ RunEnds(x, a).proc = x.proc
        /\ RunEnds(x, a).temp = left /\ RunEnds(x, a).seen = x.seen
    BY <1>1, <1>2, <1>3 DEF Request
  <1> QED
    BY <1>4, <1>5 DEF Sound

-----------------------------------------------------------------------------
(* Processes and requests come and go.                                     *)

LEMMA UnusedRecord ==
  /\ Unused \in Request /\ Sound(Unused)
  /\ Unused.proc = "none" /\ Unused.temp = "none"
  <1>1. Nobody \in 0 .. MaxRequests
    BY ProcessesAssumption DEF Nobody
  <1>2. Unused \in Request
    BY <1>1 DEF Unused, Request, Places, Answers
  <1> QED
    BY <1>2 DEF Unused, Sound

LEMMA Initially == Init => IInv
  <1> SUFFICES ASSUME Init  PROVE IInv
    OBVIOUS
  <1>1. \A q \in Requests : req[q] = Unused
    BY DEF Init
  <1>2. \A q \in Requests : /\ ~Stray(req[q]) /\ ~Detects(req[q]) /\ ~Waits(req[q])
                            /\ ~LogsIn(req[q]) /\ req[q].kind = "none"
    BY <1>1 DEF Unused, Stray, Detects, Waits, LogsIn
  <1>3. TypeOK
    <2>1. req \in [Requests -> Request]
      BY UnusedRecord DEF Init
    <2>2. asked \in 0 .. MaxRequests
      BY ProcessesAssumption DEF Init
    <2>3. gh \in BOOLEAN /\ token \in {"none", "personal", "disconnected"}
      BY DEF Init
    <2> QED
      BY <2>1, <2>2, <2>3 DEF Init, TypeOK
  <1>4. AllSound /\ Fresh /\ Owned /\ Locked
    BY <1>1, <1>2, UnusedRecord DEF AllSound, Fresh, Owned, Locked
  <1>5. Signing
    BY <1>2 DEF Init, Signing
  <1> QED
    BY <1>3, <1>4, <1>5 DEF IInv

LEMMA ExitKeeps ==
  ASSUME IInv, NEW r \in Requests, Exit(r) \/ ChildExit(r)
  PROVE  IInv'
  <1>1. req[r] \in Request /\ Sound(req[r])
    BY DEF IInv, TypeOK, AllSound
  <1>2. CASE Exit(r)
    <2> DEFINE y == [req[r] EXCEPT !.proc = "exited"]
    <2>1. Moves(r, y) /\ req[r].proc = "running"
      BY <1>2 DEF Exit, Moves
    <2>2. /\ y \in Request /\ y.proc = "exited" /\ y.at = req[r].at /\ y.kind = req[r].kind
          /\ y.temp = req[r].temp /\ y.cleans = req[r].cleans /\ y.seen = req[r].seen
      BY <1>1 DEF Request
    <2> HIDE DEF y
    <2>3. Sound(y) /\ Calm(req[r], y) /\ ~Stray(y)
      BY <1>1, <2>1, <2>2 DEF Sound, Calm, Stray, Detects, Waits, LogsIn
    <2> QED
      BY <2>1, <2>2, <2>3, MoveKeeps
  <1>3. CASE ChildExit(r)
    <2> DEFINE y == [req[r] EXCEPT !.child = FALSE]
    <2>1. Moves(r, y)
      BY <1>3 DEF ChildExit, Moves
    <2>2. /\ y \in Request /\ y.proc = req[r].proc /\ y.at = req[r].at /\ y.kind = req[r].kind
          /\ y.temp = req[r].temp /\ y.cleans = req[r].cleans /\ y.seen = req[r].seen /\ y.killed = req[r].killed
      BY <1>1 DEF Request
    <2> HIDE DEF y
    <2>3. Sound(y) /\ Calm(req[r], y) /\ (Stray(y) => Stray(req[r]))
      BY <1>1, <2>2 DEF Sound, Calm, Stray, Detects, Waits, LogsIn
    <2> QED
      BY <2>1, <2>2, <2>3, MoveKeeps
  <1> QED
    BY <1>2, <1>3

LEMMA NewRequestKeeps ==
  ASSUME IInv, NewRequest
  PROVE  IInv'
  <1>1. PICK kind \in Kinds, of \in 0 .. asked : Ask(kind, of)
    BY DEF NewRequest
  <1>2. /\ asked < MaxRequests /\ asked' = asked + 1
        /\ UNCHANGED <<previewVars, sessions, managedVars, gitHubVars>>
    BY <1>1 DEF Ask
  <1>3. asked \in 0 .. MaxRequests /\ MaxRequests \in Nat /\ req \in [Requests -> Request]
    BY ProcessesAssumption DEF IInv, TypeOK
  <1> DEFINE n == asked + 1
             y == [Unused EXCEPT !.kind = kind, !.at = "begin", !.of = of]
  <1>4. n \in Requests /\ n > asked
    BY <1>2, <1>3 DEF Requests
  <1>5. req' = [req EXCEPT ![n] = y]
    BY <1>1, <1>2 DEF Ask
  <1>6. /\ y \in Request /\ y.kind \in AllKinds /\ y.at = "begin" /\ y.proc = "none"
        /\ y.temp = "none"
    <2>1. kind \in AllKinds /\ of \in 0 .. MaxRequests
      BY <1>3, ProcessesAssumption
    <2>2. /\ y \in Request /\ y.kind = kind /\ y.at = "begin" /\ y.proc = Unused.proc
          /\ y.temp = Unused.temp
      BY <2>1, UnusedRecord DEF Request, Places
    <2> HIDE DEF y
    <2> QED
      BY <2>1, <2>2, UnusedRecord
  <1> HIDE DEF y
  <1>7. Sound(y) /\ ~Stray(y) /\ ~Detects(y) /\ ~Waits(y) /\ ~LogsIn(y)
    BY <1>6 DEF Sound, Stray, Detects, Waits, LogsIn, AllKinds
  <1>8. /\ req' \in [Requests -> Request] /\ req'[n] = y
        /\ \A q \in Requests \ {n} : req'[q] = req[q]
    BY <1>3, <1>4, <1>5, <1>6
  <1>9. req[n].kind = "none"
    BY <1>3, <1>4 DEF IInv, Fresh
  <1>10. TypeOK'
    BY <1>2, <1>3, <1>8 DEF IInv, TypeOK, previewVars, managedVars, gitHubVars
  <1>11. AllSound' /\ Fresh'
    <2>1. \A q \in Requests : q > asked' => q > asked /\ q # n
      BY <1>2, <1>3 DEF Requests
    <2> QED
      BY <1>7, <1>8, <2>1 DEF IInv, AllSound, Fresh
  <1>12. Owned' /\ Locked'
    BY <1>2, <1>7, <1>8 DEF IInv, Owned, Locked, previewVars, managedVars
  <1>13. Signing'
    <2>1. \A q \in Requests : LogsIn(req'[q]) <=> LogsIn(req[q])
      BY <1>7, <1>8, <1>9 DEF LogsIn
    <2> QED
      BY <1>2, <2>1 DEF IInv, Signing, gitHubVars
  <1> QED
    BY <1>10, <1>11, <1>12, <1>13 DEF IInv

-----------------------------------------------------------------------------
(* Runtime previews.                                                       *)

LEMMA KillOther ==
  ASSUME NEW p, NEW r \in Requests, req[r].proc # "running"
  PROVE  Kill(p, req)[r] = req[r]
  BY DEF Kill

LEMMA SomeRequest ==
  ASSUME NEW r \in Requests
  PROVE  r # Nobody
  BY ProcessesAssumption DEF Requests, Nobody

\* Nobody waits for the lock's sake while the lock is free.
LEMMA LockFree ==
  ASSUME IInv, lock = Nobody, NEW q \in Requests
  PROVE  ~Detects(req[q]) /\ ~Waits(req[q])
  BY SomeRequest DEF IInv, Locked

LEMMA LockHeld ==
  ASSUME IInv, NEW r \in Requests, Detects(req[r]) \/ Waits(req[r]), NEW q \in Requests \ {r}
  PROVE  lock = r /\ ~Detects(req[q]) /\ ~Waits(req[q])
  BY DEF IInv, Locked

\* Other previews do not move.
LEMMA OthersStay ==
  ASSUME IInv, NEW r \in Requests, Spares(r), NEW q \in Requests \ {r}
  PROVE  /\ Detects(req'[q]) <=> Detects(req[q])
         /\ Waits(req'[q]) <=> Waits(req[q])
         /\ Stray(req'[q]) => Stray(req[q])
  <1>1. req[q] \in Request
    BY DEF IInv, TypeOK
  <1> QED
    BY <1>1, KilledRecord DEF Spares, Detects, Waits

LEMMA PreviewBeginKeeps ==
  ASSUME IInv, NEW r \in Requests, PreviewBegin(r)
  PROVE  IInv'
  <1>1. /\ req[r].kind = "preview" /\ req[r].at = "begin" /\ lock = Nobody
        /\ lock' = r /\ current' = Nobody
        /\ req' = [Kill(current, req) EXCEPT ![r].at = "detect"]
        /\ UNCHANGED <<asked, sessions, managedVars, gitHubVars>>
    BY DEF PreviewBegin, At
  <1>2. req[r] \in Request /\ Sound(req[r]) /\ TypeOK
    BY DEF IInv, TypeOK, AllSound
  <1> DEFINE y == [req[r] EXCEPT !.at = "detect"]
  <1>3. /\ y \in Request /\ y.at = "detect" /\ y.kind = "preview" /\ y.proc = req[r].proc
        /\ y.temp = req[r].temp
    BY <1>1, <1>2, Placed DEF Places
  <1>4. req[r].proc = "none" /\ req[r].temp = "none"
    BY <1>1, <1>2 DEF Sound
  <1>5. req' = [Kill(current, req) EXCEPT ![r] = y]
    BY <1>1, <1>4, KillOther
  <1> HIDE DEF y
  <1>6. /\ req' \in [Requests -> Request] /\ req'[r] = y /\ Spares(r)
        /\ current \in Requests \ {r} => req'[current].proc # "running" \/ req'[current].killed
    BY <1>2, <1>3, <1>5, KillUpdated
  <1>7. Sound(y) /\ ~Stray(y) /\ ~LogsIn(y) /\ ~LogsIn(req[r]) /\ ~Waits(y)
    BY <1>1, <1>3, <1>4 DEF Sound, Stray, LogsIn, Waits
  <1>8. TypeOK'
    BY <1>1, <1>6 DEF IInv, TypeOK, managedVars, gitHubVars
  <1>9. AllSound' /\ Fresh'
    BY <1>1, <1>3, <1>6, <1>7, RecordsKept
  <1>10. Signing'
    BY <1>1, <1>6, <1>7, SigningKept DEF gitHubVars
  <1>11. Owned'
    <2> SUFFICES ASSUME NEW q \in Requests, Stray(req'[q])  PROVE q \in items
      BY <1>1 DEF Owned, managedVars
    <2>1. q # r /\ q # current
      BY <1>6, <1>7 DEF Stray
    <2> QED
      BY <1>6, <2>1, OthersStay DEF IInv, Owned
  <1>12. Locked'
    BY <1>1, <1>6, <1>7, LockFree, OthersStay DEF Locked
  <1> QED
    BY <1>8, <1>9, <1>10, <1>11, <1>12 DEF IInv

LEMMA PreviewLaunchKeeps ==
  ASSUME IInv, NEW r \in Requests, PreviewLaunch(r)
  PROVE  IInv'
  <1>1. /\ req[r].kind = "preview" /\ req[r].at = "detect"
        /\ UNCHANGED <<asked, sessions, managedVars, gitHubVars>>
    BY DEF PreviewLaunch, At
  <1>2. req[r] \in Request /\ Sound(req[r]) /\ TypeOK
    BY DEF IInv, TypeOK, AllSound
  <1>3. Detects(req[r]) /\ lock = r /\ current = Nobody /\ ~LogsIn(req[r])
    BY <1>1 DEF Detects, LogsIn, IInv, Locked
  <1>4. \/ \E child \in BOOLEAN :
             /\ req' = [req EXCEPT ![r] = Started(req[r], "waiting", child)]
             /\ current' = r /\ lock' = lock
        \/ /\ req' = [req EXCEPT ![r] = Answered(r, "failed")]
           /\ lock' = Nobody /\ current' = current
    BY DEF PreviewLaunch
  <1>5. CASE /\ req' = [req EXCEPT ![r] = Answered(r, "failed")]
             /\ lock' = Nobody /\ current' = current
    <2>1. /\ Answered(r, "failed") \in Request /\ Sound(Answered(r, "failed"))
          /\ Calm(req[r], Answered(r, "failed")) /\ ~Stray(Answered(r, "failed"))
          /\ Answered(r, "failed").at = "end"
      <3>1. "failed" \in Answers
        BY DEF Answers
      <3> QED
        BY <1>1, <3>1, AnsweredRecord
    <2>2. /\ req' \in [Requests -> Request] /\ req'[r] = Answered(r, "failed") /\ Spares(r)
      BY <1>2, <1>5, <2>1, Updated
    <2>3. TypeOK'
      BY <1>1, <1>2, <1>5, <2>2 DEF TypeOK, managedVars, gitHubVars
    <2>4. AllSound' /\ Fresh' /\ Signing'
      BY <1>1, <2>1, <2>2, RecordsKept, SigningKept DEF Calm, gitHubVars
    <2>5. Owned'
      BY <1>1, <1>5, <2>1, <2>2, OthersStay DEF IInv, Owned, managedVars
    <2>6. Locked'
      BY <1>3, <2>1, <2>2, LockHeld, OthersStay DEF Locked, Detects, Waits
    <2> QED
      BY <2>3, <2>4, <2>5, <2>6 DEF IInv
  <1>6. CASE \E child \in BOOLEAN :
               /\ req' = [req EXCEPT ![r] = Started(req[r], "waiting", child)]
               /\ current' = r /\ lock' = lock
    <2>1. PICK child \in BOOLEAN :
             /\ req' = [req EXCEPT ![r] = Started(req[r], "waiting", child)]
             /\ current' = r /\ lock' = lock
      BY <1>6
    <2> DEFINE y == Started(req[r], "waiting", child)
    <2>2. /\ y \in Request /\ y.at = "waiting" /\ y.kind = "preview" /\ y.temp = req[r].temp
          /\ req[r].temp = "none"
      <3>1. "waiting" \in Places
        BY DEF Places
      <3>2. req[r].temp = "none"
        BY <1>1, <1>2 DEF Sound
      <3> QED
        BY <1>1, <1>2, <3>1, <3>2, StartedRecord
    <2>3. /\ req' \in [Requests -> Request] /\ req'[r] = y /\ Spares(r)
      BY <1>2, <2>1, <2>2, Updated
    <2> HIDE DEF y
    <2>4. Sound(y) /\ ~Stray(y) /\ ~LogsIn(y) /\ ~Detects(y)
      BY <2>2 DEF Sound, Stray, LogsIn, Detects
    <2>5. TypeOK'
      BY <1>1, <1>2, <2>1, <2>3 DEF TypeOK, managedVars, gitHubVars
    <2>6. AllSound' /\ Fresh' /\ Signing'
      BY <1>1, <1>3, <2>2, <2>3, <2>4, RecordsKept, SigningKept DEF gitHubVars
    <2>7. Owned'
      <3> SUFFICES ASSUME NEW q \in Requests, Stray(req'[q])  PROVE q \in items
        BY <1>1 DEF Owned, managedVars
      <3>1. q # r
        BY <2>3, <2>4
      <3> QED
        BY <1>3, <2>3, <3>1, OthersStay, SomeRequest DEF IInv, Owned
    <2>8. Locked'
      BY <1>3, <2>1, <2>3, <2>4, LockHeld, OthersStay DEF Locked
    <2> QED
      BY <2>5, <2>6, <2>7, <2>8 DEF IInv
  <1> QED
    BY <1>4, <1>5, <1>6

LEMMA PreviewReadyKeeps ==
  ASSUME IInv, NEW r \in Requests, PreviewReady(r)
  PROVE  IInv'
  <1>1. /\ req[r].kind = "preview" /\ req[r].at = "waiting"
        /\ lock' = Nobody /\ current' = current
        /\ req' = [req EXCEPT ![r] = Answered(r, "ok")]
        /\ UNCHANGED <<asked, sessions, managedVars, gitHubVars>>
    BY DEF PreviewReady, At
  <1>2. req[r] \in Request /\ Sound(req[r]) /\ TypeOK
    BY DEF IInv, TypeOK, AllSound
  <1>3. Waits(req[r]) /\ current = r /\ ~LogsIn(req[r])
    BY <1>1 DEF Waits, LogsIn, IInv, Locked
  <1> DEFINE y == Answered(r, "ok")
  <1>4. /\ y \in Request /\ y.at = "end" /\ y.kind = "preview" /\ y.temp = req[r].temp
        /\ req[r].temp = "none"
    BY <1>1, <1>2 DEF Answered, Answers, Places, Request, Sound
  <1>5. /\ req' \in [Requests -> Request] /\ req'[r] = y /\ Spares(r)
    BY <1>1, <1>2, <1>4, Updated
  <1> HIDE DEF y
  <1>6. Sound(y) /\ ~LogsIn(y) /\ ~Detects(y) /\ ~Waits(y)
    BY <1>4 DEF Sound, LogsIn, Detects, Waits
  <1>7. TypeOK'
    BY <1>1, <1>2, <1>5 DEF TypeOK, managedVars, gitHubVars
  <1>8. AllSound' /\ Fresh' /\ Signing'
    BY <1>1, <1>3, <1>4, <1>5, <1>6, RecordsKept, SigningKept DEF gitHubVars
  <1>9. Owned'
    BY <1>1, <1>3, <1>5, OthersStay DEF IInv, Owned, managedVars
  <1>10. Locked'
    BY <1>3, <1>5, <1>6, LockHeld, OthersStay DEF Locked
  <1> QED
    BY <1>7, <1>8, <1>9, <1>10 DEF IInv

LEMMA PreviewTimeoutKeeps ==
  ASSUME IInv, NEW r \in Requests, PreviewTimeout(r)
  PROVE  IInv'
  <1>1. /\ req[r].kind = "preview" /\ req[r].at = "waiting"
        /\ lock' = Nobody /\ current' = Nobody
        /\ req' = [Kill(r, req) EXCEPT ![r] = [@ EXCEPT !.at = "end", !.answer = "failed"]]
        /\ UNCHANGED <<asked, sessions, managedVars, gitHubVars>>
    BY DEF PreviewTimeout, At
  <1>2. req[r] \in Request /\ Sound(req[r]) /\ TypeOK
    BY DEF IInv, TypeOK, AllSound
  <1>3. Waits(req[r]) /\ current = r /\ ~LogsIn(req[r])
    BY <1>1 DEF Waits, LogsIn, IInv, Locked
  <1> DEFINE x == IF req[r].proc = "running" THEN Killed(req[r]) ELSE req[r]
             y == [x EXCEPT !.at = "end", !.answer = "failed"]
  <1>4. Kill(r, req)[r] = x
    BY DEF Kill, Killed
  <1>5. req' = [Kill(r, req) EXCEPT ![r] = y]
    BY <1>1, <1>4
  <1>6. /\ x \in Request /\ x.kind = "preview" /\ x.at = "waiting" /\ Sound(x)
        /\ x.proc = "running" => x.killed
    BY <1>1, <1>2, KilledRecord
  <1> HIDE DEF x
  <1>7. /\ y \in Request /\ y.at = "end" /\ y.kind = "preview" /\ y.temp = x.temp
        /\ y.killed = x.killed /\ y.proc = x.proc
    BY <1>6 DEF Answers, Places, Request
  <1>8. /\ req' \in [Requests -> Request] /\ req'[r] = y /\ Spares(r)
    BY <1>2, <1>5, <1>7, KillUpdated
  <1> HIDE DEF y
  <1>9. Sound(y) /\ ~LogsIn(y) /\ ~Detects(y) /\ ~Waits(y) /\ ~Stray(y)
    BY <1>6, <1>7 DEF Sound, LogsIn, Detects, Waits, Stray
  <1>10. TypeOK'
    BY <1>1, <1>2, <1>8 DEF TypeOK, managedVars, gitHubVars
  <1>11. AllSound' /\ Fresh' /\ Signing'
    BY <1>1, <1>3, <1>7, <1>8, <1>9, RecordsKept, SigningKept DEF gitHubVars
  <1>12. Owned'
    BY <1>1, <1>3, <1>8, <1>9, OthersStay DEF IInv, Owned, managedVars
  <1>13. Locked'
    BY <1>3, <1>8, <1>9, LockHeld, OthersStay DEF Locked
  <1> QED
    BY <1>10, <1>11, <1>12, <1>13 DEF IInv

LEMMA PreviewGoneKeeps ==
  ASSUME IInv, NEW r \in Requests, PreviewGone(r)
  PROVE  IInv'
  <1>1. /\ req[r].kind = "preview" /\ req[r].proc = "exited" /\ lock = Nobody
        /\ req' = [req EXCEPT ![r].proc = "reaped"]
        /\ current' = IF current = r THEN Nobody ELSE current
        /\ UNCHANGED <<asked, lock, sessions, managedVars, gitHubVars>>
    BY DEF PreviewGone, IsCurrent
  <1>2. req[r] \in Request /\ Sound(req[r]) /\ TypeOK
    BY DEF IInv, TypeOK, AllSound
  <1> DEFINE y == [req[r] EXCEPT !.proc = "reaped"]
  <1>3. /\ y \in Request /\ y.at = req[r].at /\ y.kind = req[r].kind /\ y.proc = "reaped"
        /\ y.temp = req[r].temp /\ y.cleans = req[r].cleans /\ y.seen = req[r].seen
    BY <1>2 DEF Request
  <1>4. req' = [req EXCEPT ![r] = y]
    BY <1>1
  <1>5. /\ req' \in [Requests -> Request] /\ req'[r] = y /\ Spares(r)
    BY <1>2, <1>3, <1>4, Updated
  <1> HIDE DEF y
  <1>6. Sound(y) /\ ~Stray(y) /\ (LogsIn(y) <=> LogsIn(req[r]))
        /\ ~Detects(y) /\ ~Waits(y)
    <2>1. ~Detects(req[r]) /\ ~Waits(req[r])
      BY <1>1, LockFree
    <2> QED
      BY <1>1, <1>2, <1>3, <2>1 DEF Sound, Stray, LogsIn, Detects, Waits
  <1>7. TypeOK'
    BY <1>1, <1>2, <1>5 DEF TypeOK, managedVars, gitHubVars
  <1>8. AllSound' /\ Fresh' /\ Signing'
    BY <1>1, <1>3, <1>5, <1>6, RecordsKept, SigningKept DEF gitHubVars
  <1>9. Owned'
    <2> SUFFICES ASSUME NEW q \in Requests, Stray(req'[q])
                 PROVE  q = current' \/ q \in items
      BY <1>1 DEF Owned, managedVars
    <2>1. q # r
      BY <1>5, <1>6
    <2>2. q = current \/ q \in items
      BY <1>5, <2>1, OthersStay DEF IInv, Owned
    <2> QED
      BY <1>1, <2>1, <2>2
  <1>10. Locked'
    BY <1>1, <1>5, <1>6, LockFree, OthersStay DEF Locked
  <1> QED
    BY <1>7, <1>8, <1>9, <1>10 DEF IInv

LEMMA PreviewStopKeeps ==
  ASSUME IInv, NEW r \in Requests, PreviewStop(r)
  PROVE  IInv'
  <1>1. /\ req[r].kind = "stop-preview" /\ req[r].at = "begin" /\ lock = Nobody
        /\ current' = Nobody
        /\ req' = [Kill(current, req) EXCEPT ![r] = Answered(r, "ok")]
        /\ UNCHANGED <<asked, lock, sessions, managedVars, gitHubVars>>
    BY DEF PreviewStop, At
  <1>2. TypeOK /\ "ok" \in Answers
    BY DEF IInv, Answers
  <1> DEFINE y == Answered(r, "ok")
  <1>3. /\ y \in Request /\ Sound(y) /\ Calm(req[r], y) /\ ~Stray(y) /\ y.at = "end"
    BY <1>1, <1>2, AnsweredRecord
  <1> HIDE DEF y
  <1>4. /\ req' \in [Requests -> Request] /\ req'[r] = y /\ Spares(r)
        /\ current \in Requests \ {r} => req'[current].proc # "running" \/ req'[current].killed
    BY <1>1, <1>2, <1>3, KillUpdated DEF y
  <1>5. TypeOK'
    BY <1>1, <1>2, <1>4 DEF TypeOK, managedVars, gitHubVars
  <1>6. AllSound' /\ Fresh' /\ Signing'
    BY <1>1, <1>3, <1>4, RecordsKept, SigningKept DEF Calm, gitHubVars
  <1>7. Owned'
    <2> SUFFICES ASSUME NEW q \in Requests, Stray(req'[q])  PROVE q \in items
      BY <1>1 DEF Owned, managedVars
    <2>1. q # r /\ q # current
      BY <1>3, <1>4 DEF Stray
    <2> QED
      BY <1>4, <2>1, OthersStay DEF IInv, Owned
  <1>8. Locked'
    BY <1>1, <1>3, <1>4, LockFree, OthersStay DEF Locked, Calm
  <1> QED
    BY <1>5, <1>6, <1>7, <1>8 DEF IInv

-----------------------------------------------------------------------------
(* Project runs and installers.                                            *)

\* Where the arguments of each compiler name its output.
LEMMA OutputFound ==
  ASSUME NEW path
  PROVE  /\ TemporaryBuildDirectory(<<"source", "-o", path>>)
              = DirectoryOf(path, {"rust", "native", "compile"})
         /\ TemporaryBuildDirectory(<<"-x", "-o", path, "source">>) = DirectoryOf(path, {"cobol"})
         /\ TemporaryBuildDirectory(<<"source", "-include-runtime", "-d", path>>)
              = DirectoryOf(path, {"kotlin"})
         /\ TemporaryBuildDirectory(<<"run", "--project", path>>) = DirectoryOf(path, {"csharp"})
  BY DEF TemporaryBuildDirectory

\* Whatever runSpec makes for a source with a name, temporaryBuildDirectory finds
\* behind its arguments.
LEMMA DirectoryFound ==
  ASSUME NEW l \in AllLanguages
  PROVE  /\ RunSpec(l).dir \in Directories \cup {"none"}
         /\ \/ TemporaryBuildDirectory(RunSpec(l).args) = RunSpec(l).dir
            \/ l \in Nameless /\ TemporaryBuildDirectory(RunSpec(l).args) = "none"
  <1> USE DEF Directories
  <1>1. CASE l = "script"
    <2>1. RunSpec(l).args = <<"source">> /\ RunSpec(l).dir = "none"
      BY <1>1 DEF RunSpec, Recipe
    <2> QED
      BY <2>1 DEF TemporaryBuildDirectory
  <1>2. CASE l = "go"
    <2>1. RunSpec(l).args = <<"run", "source">> /\ RunSpec(l).dir = "none"
      BY <1>2 DEF RunSpec, Recipe
    <2> QED
      BY <2>1 DEF TemporaryBuildDirectory
  <1>3. CASE l = "rust"
    <2>1. RunSpec(l).args = <<"source", "-o", Join("rust", "program")>> /\ RunSpec(l).dir = "rust"
      BY <1>3 DEF RunSpec, Recipe
    <2>2. TemporaryBuildDirectory(RunSpec(l).args) = DirectoryOf(Join("rust", "program"), {"rust", "native", "compile"})
      BY <2>1, OutputFound
    <2>3. DirectoryOf(Join("rust", "program"), {"rust", "native", "compile"}) = "rust"
      BY DEF DirectoryOf, Join, Dir
    <2> QED
      BY <2>1, <2>2, <2>3
  <1>4. CASE l = "c"
    <2>1. RunSpec(l).args = <<"source", "-o", Join("native", "program")>> /\ RunSpec(l).dir = "native"
      BY <1>4 DEF RunSpec, Recipe
    <2>2. TemporaryBuildDirectory(RunSpec(l).args) = DirectoryOf(Join("native", "program"), {"rust", "native", "compile"})
      BY <2>1, OutputFound
    <2>3. DirectoryOf(Join("native", "program"), {"rust", "native", "compile"}) = "native"
      BY DEF DirectoryOf, Join, Dir
    <2> QED
      BY <2>1, <2>2, <2>3
  <1>5. CASE l = "kotlin"
    <2>1. RunSpec(l).args = <<"source", "-include-runtime", "-d", Join("kotlin", "jar")>> /\ RunSpec(l).dir = "kotlin"
      BY <1>5 DEF RunSpec, Recipe
    <2>2. TemporaryBuildDirectory(RunSpec(l).args) = DirectoryOf(Join("kotlin", "jar"), {"kotlin"})
      BY <2>1, OutputFound
    <2>3. DirectoryOf(Join("kotlin", "jar"), {"kotlin"}) = "kotlin"
      BY DEF DirectoryOf, Join, Dir
    <2> QED
      BY <2>1, <2>2, <2>3
  <1>6. CASE l = "csharp"
    <2>1. RunSpec(l).args = <<"run", "--project", Join("csharp", "project")>> /\ RunSpec(l).dir = "csharp"
      BY <1>6 DEF RunSpec, Recipe
    <2>2. TemporaryBuildDirectory(RunSpec(l).args) = DirectoryOf(Join("csharp", "project"), {"csharp"})
      BY <2>1, OutputFound
    <2>3. DirectoryOf(Join("csharp", "project"), {"csharp"}) = "csharp"
      BY DEF DirectoryOf, Join, Dir
    <2> QED
      BY <2>1, <2>2, <2>3
  <1>7. CASE l = "csproj"
    <2>1. RunSpec(l).args = <<"run", "--project", Join("workspace", "project")>> /\ RunSpec(l).dir = "none"
      BY <1>7 DEF RunSpec, Recipe
    <2>2. TemporaryBuildDirectory(RunSpec(l).args) = DirectoryOf(Join("workspace", "project"), {"csharp"})
      BY <2>1, OutputFound
    <2>3. DirectoryOf(Join("workspace", "project"), {"csharp"}) = "none"
      BY DEF DirectoryOf, Join, Dir
    <2> QED
      BY <2>1, <2>2, <2>3
  <1>8. CASE l = "cobol"
    <2>1. RunSpec(l).args = <<"-x", "-o", Join("cobol", "stem"), "source">> /\ RunSpec(l).dir = "cobol"
      BY <1>8 DEF RunSpec, Recipe
    <2>2. TemporaryBuildDirectory(RunSpec(l).args) = DirectoryOf(Join("cobol", "stem"), {"cobol"})
      BY <2>1, OutputFound
    <2>3. DirectoryOf(Join("cobol", "stem"), {"cobol"}) = "cobol"
      BY DEF DirectoryOf, Join, Dir
    <2> QED
      BY <2>1, <2>2, <2>3
  <1>9. CASE l = ".cob"
    <2>1. RunSpec(l).args = <<"-x", "-o", Join("cobol", ""), "source">> /\ RunSpec(l).dir = "cobol"
      BY <1>9 DEF RunSpec, Recipe
    <2>2. TemporaryBuildDirectory(RunSpec(l).args) = DirectoryOf(Join("cobol", ""), {"cobol"})
      BY <2>1, OutputFound
    <2>3. DirectoryOf(Join("cobol", ""), {"cobol"}) = "none"
      BY DEF DirectoryOf, Join, Dir
    <2> QED
      BY <1>9, <2>1, <2>2, <2>3 DEF Nameless
  <1>10. CASE l = "fortran"
    <2>1. RunSpec(l).args = <<"source", "-o", Join("compile", "stem")>> /\ RunSpec(l).dir = "compile"
      BY <1>10 DEF RunSpec, Recipe
    <2>2. TemporaryBuildDirectory(RunSpec(l).args) = DirectoryOf(Join("compile", "stem"), {"rust", "native", "compile"})
      BY <2>1, OutputFound
    <2>3. DirectoryOf(Join("compile", "stem"), {"rust", "native", "compile"}) = "compile"
      BY DEF DirectoryOf, Join, Dir
    <2> QED
      BY <2>1, <2>2, <2>3
  <1>11. CASE l = ".f90"
    <2>1. RunSpec(l).args = <<"source", "-o", Join("compile", "")>> /\ RunSpec(l).dir = "compile"
      BY <1>11 DEF RunSpec, Recipe
    <2>2. TemporaryBuildDirectory(RunSpec(l).args) = DirectoryOf(Join("compile", ""), {"rust", "native", "compile"})
      BY <2>1, OutputFound
    <2>3. DirectoryOf(Join("compile", ""), {"rust", "native", "compile"}) = "none"
      BY DEF DirectoryOf, Join, Dir
    <2> QED
      BY <1>11, <2>1, <2>2, <2>3 DEF Nameless
  <1>12. CASE l = "pascal"
    <2>1. RunSpec(l).args = <<"-FEpascal", "-FUpascal", "-o", "source">> /\ RunSpec(l).dir = "pascal"
      BY <1>12 DEF RunSpec, Recipe
    <2> QED
      BY <2>1 DEF TemporaryBuildDirectory
  <1>13. CASE l = "uncompiled"
    <2>1. RunSpec(l).args = <<>> /\ RunSpec(l).dir = "none"
      BY <1>13 DEF RunSpec, Recipe
    <2>2. Len(<<>>) = 0
      OBVIOUS
    <2>3. TemporaryBuildDirectory(<<>>) = "none"
      BY <2>2 DEF TemporaryBuildDirectory
    <2> QED
      BY <2>1, <2>3
  <1> QED
    BY <1>1, <1>2, <1>3, <1>4, <1>5, <1>6, <1>7, <1>8, <1>9, <1>10, <1>11, <1>12, <1>13
    DEF AllLanguages, Nameless

LEMMA RunPrepareKeeps ==
  ASSUME IInv, NEW r \in Requests, RunPrepare(r)
  PROVE  IInv'
  <1>1. req[r].kind = "run" /\ req[r].at = "begin"
    BY DEF RunPrepare, At
  <1>2. req[r] \in Request /\ Sound(req[r])
    BY DEF IInv, TypeOK, AllSound
  <1>3. CASE Moves(r, Answered(r, "rejected"))
    <2>1. "rejected" \in Answers
      BY DEF Answers
    <2> QED
      BY <1>1, <1>3, <2>1, AnswerKeeps
  <1>4. CASE \E language \in Languages :
               Moves(r, [req[r] EXCEPT
                           !.at = IF RunSpec(language).command = "" THEN "missing" ELSE "launch",
                           !.temp = RunSpec(language).dir,
                           !.cleans = TemporaryBuildDirectory(RunSpec(language).args),
                           !.seen = language])
    <2>1. PICK language \in Languages :
            Moves(r, [req[r] EXCEPT
                        !.at = IF RunSpec(language).command = "" THEN "missing" ELSE "launch",
                        !.temp = RunSpec(language).dir,
                        !.cleans = TemporaryBuildDirectory(RunSpec(language).args),
                        !.seen = language])
      BY <1>4
    <2> DEFINE p == IF RunSpec(language).command = "" THEN "missing" ELSE "launch"
               d == RunSpec(language).dir
               c == TemporaryBuildDirectory(RunSpec(language).args)
               y == [req[r] EXCEPT !.at = p, !.temp = d, !.cleans = c, !.seen = language]
    <2>2. language \in AllLanguages
      BY ProcessesAssumption
    <2>3. /\ d \in Directories \cup {"none"} /\ c \in Directories \cup {"none"}
          /\ c = d \/ language \in Nameless
      BY <2>2, DirectoryFound
    <2>4. p \in {"missing", "launch"} /\ p \in Places
      BY DEF Places
    <2>7. Moves(r, y)
      BY <2>1
    <2> HIDE DEF p, d, c
    <2>5. /\ y \in Request /\ y.at = p /\ y.kind = "run" /\ y.proc = req[r].proc
          /\ y.temp = d /\ y.cleans = c /\ y.seen = language
      BY <1>1, <1>2, <2>2, <2>3, <2>4 DEF Request
    <2> HIDE DEF y
    <2>6. Sound(y) /\ Calm(req[r], y) /\ ~Stray(y)
      BY <1>1, <1>2, <2>3, <2>4, <2>5 DEF Sound, Calm, Stray, Detects, Waits, LogsIn
    <2> QED
      BY <2>5, <2>6, <2>7, MoveKeeps
  <1> QED
    BY <1>3, <1>4 DEF RunPrepare

\* A run or an installation whose process does not run, or has ended, is over.
LEMMA RunOver ==
  ASSUME IInv, NEW r \in Requests, NEW x \in Request, NEW a \in Answers,
         Moves(r, RunEnds(x, a)), req[r].kind \in {"run", "install"}, x.kind = req[r].kind,
         x.proc # "running", Covered(x)
  PROVE  IInv'
  <1> DEFINE y == RunEnds(x, a)
  <1>1. /\ y \in Request /\ y.at = "end" /\ y.kind = req[r].kind /\ y.proc # "running"
        /\ Sound(y)
    BY RunEnded
  <1>2. Moves(r, y)
    OBVIOUS
  <1> HIDE DEF y
  <1>3. Calm(req[r], y) /\ ~Stray(y)
    BY <1>1 DEF Calm, Stray, Detects, Waits, LogsIn
  <1> QED
    BY <1>1, <1>2, <1>3, MoveKeeps

LEMMA RunStarts ==
  ASSUME IInv, NEW r \in Requests, NEW child \in BOOLEAN, NEW p \in {"building", "running"},
         Moves(r, Started(req[r], p, child)),
         req[r].kind \in {"run", "install"}, req[r].at \in {"launch", "building", "begin"}
  PROVE  IInv'
  <1> DEFINE y == Started(req[r], p, child)
  <1>1. req[r] \in Request /\ Sound(req[r]) /\ p \in Places
    BY DEF IInv, TypeOK, AllSound, Places
  <1>2. /\ y \in Request /\ y.at = p /\ y.kind = req[r].kind
        /\ y.temp = req[r].temp /\ y.cleans = req[r].cleans /\ y.seen = req[r].seen
    BY <1>1, StartedRecord
  <1>3. Moves(r, y)
    OBVIOUS
  <1> HIDE DEF y
  <1>4. Sound(y) /\ Calm(req[r], y) /\ ~Stray(y)
    BY <1>1, <1>2 DEF Sound, Calm, Stray, Detects, Waits, LogsIn
  <1> QED
    BY <1>2, <1>3, <1>4, MoveKeeps

LEMMA RunLaunchKeeps ==
  ASSUME IInv, NEW r \in Requests, RunLaunch(r)
  PROVE  IInv'
  <1>1. req[r] \in Request /\ Sound(req[r])
    BY DEF IInv, TypeOK, AllSound
  <1>2. /\ req[r].kind \in {"run", "install"} /\ req[r].at \in {"missing", "launch", "begin"}
        /\ \/ Moves(r, RunEnds(req[r], "runtime missing"))
           \/ /\ req[r].at # "missing"
              /\ \E child \in BOOLEAN, p \in {"building", "running"} :
                   Moves(r, Started(req[r], p, child))
    <2>1. CASE At(r, "run", "missing") /\ Moves(r, RunEnds(req[r], "runtime missing"))
      BY <2>1 DEF At
    <2>2. CASE /\ At(r, "run", "launch") \/ At(r, "install", "begin")
               /\ Moves(r, RunEnds(req[r], "runtime missing"))
      BY <2>2 DEF At
    <2>3. CASE /\ At(r, "run", "launch") \/ At(r, "install", "begin")
               /\ \E child \in BOOLEAN :
                    Moves(r, Started(req[r], IF req[r].kind = "run" /\ req[r].seen \notin Unbuilt
                                             THEN "building" ELSE "running", child))
      BY <2>3 DEF At
    <2> QED
      BY <2>1, <2>2, <2>3 DEF RunLaunch
  <1>3. req[r].proc = "none" /\ Covered(req[r])
    BY <1>1, <1>2 DEF Sound, Covered
  <1>4. "runtime missing" \in Answers
    BY DEF Answers
  <1>5. CASE Moves(r, RunEnds(req[r], "runtime missing"))
    BY <1>1, <1>2, <1>3, <1>4, <1>5, RunOver
  <1>6. CASE /\ req[r].at # "missing"
             /\ \E child \in BOOLEAN, p \in {"building", "running"} :
                  Moves(r, Started(req[r], p, child))
    BY <1>2, <1>6, RunStarts
  <1> QED
    BY <1>2, <1>5, <1>6

LEMMA RunReturnsKeeps ==
  ASSUME IInv, NEW r \in Requests, RunReturns(r)
  PROVE  IInv'
  <1>1. req[r] \in Request /\ Sound(req[r])
    BY DEF IInv, TypeOK, AllSound
  <1>2. req[r].kind \in {"run", "install"} /\ req[r].at \in {"building", "running"}
    BY DEF RunReturns
  <1> DEFINE x == Reaped(req[r], "end")
  <1>3. /\ x \in Request /\ x.proc = "reaped" /\ x.kind = req[r].kind
        /\ Covered(x)
    BY <1>1, ReapedRecord DEF Sound, Places, Covered
  <1>4. \/ \E a \in Answers : Moves(r, RunEnds(x, a))
        \/ \E child \in BOOLEAN : Moves(r, Started(req[r], "running", child))
           /\ req[r].at = "building"
    BY DEF RunReturns, Answers
  <1> HIDE DEF x
  <1>5. CASE \E a \in Answers : Moves(r, RunEnds(x, a))
    BY <1>2, <1>3, <1>5, RunOver
  <1>6. CASE \E child \in BOOLEAN : Moves(r, Started(req[r], "running", child))
             /\ req[r].at = "building"
    BY <1>2, <1>6, RunStarts
  <1> QED
    BY <1>4, <1>5, <1>6

LEMMA DeadlineKeeps ==
  ASSUME IInv, NEW r \in Requests, Deadline(r)
  PROVE  IInv'
  <1> DEFINE y == [req[r] EXCEPT !.late = TRUE, !.killed = TRUE]
  <1>1. req[r] \in Request /\ Sound(req[r])
    BY DEF IInv, TypeOK, AllSound
  <1>2. /\ y \in Request /\ y.killed /\ y.at = req[r].at /\ y.kind = req[r].kind
        /\ y.proc = req[r].proc /\ y.temp = req[r].temp /\ y.cleans = req[r].cleans /\ y.seen = req[r].seen
    BY <1>1 DEF Request
  <1>3. Moves(r, y)
    BY DEF Deadline
  <1> HIDE DEF y
  <1>4. Sound(y) /\ Calm(req[r], y) /\ ~Stray(y)
    BY <1>1, <1>2 DEF Sound, Calm, Stray, Detects, Waits, LogsIn
  <1> QED
    BY <1>2, <1>3, <1>4, MoveKeeps

-----------------------------------------------------------------------------
(* Terminals, language servers and debug adapters.                         *)

\* The handler moves to a place without a meaning of its own.
LEMMA PlaceKeeps ==
  ASSUME IInv, NEW r \in Requests, NEW p \in {"leaving", "serving", "reading", "client"},
         Moves(r, [req[r] EXCEPT !.at = p]), req[r].kind \notin {"none", "run", "sign-in"},
         req[r].at \notin {"missing", "launch", "building", "running"},
         p \in {"reading", "client"} => req[r].at = "begin"
  PROVE  IInv'
  <1> DEFINE y == [req[r] EXCEPT !.at = p]
  <1>1. req[r] \in Request /\ Sound(req[r]) /\ p \in Places
    BY DEF IInv, TypeOK, AllSound, Places
  <1>2. /\ y \in Request /\ y.at = p /\ y.kind = req[r].kind /\ y.proc = req[r].proc
        /\ y.temp = req[r].temp
    BY <1>1, Placed
  <1>3. Moves(r, y)
    OBVIOUS
  <1> HIDE DEF y
  <1>4. Sound(y) /\ Calm(req[r], y) /\ ~Stray(y)
    BY <1>1, <1>2 DEF Sound, Calm, Stray, Detects, Waits, LogsIn
  <1> QED
    BY <1>2, <1>3, <1>4, MoveKeeps

\* Kill(r, req) leaves r a record of a process that does not run on unharmed.
LEMMA KillSelf ==
  ASSUME IInv, NEW r \in Requests
  PROVE  LET x == Kill(r, req)[r] IN
         /\ x \in Request /\ Sound(x) /\ x.kind = req[r].kind /\ x.at = req[r].at
         /\ x.proc = "running" => x.killed
  <1>1. req[r] \in Request /\ Sound(req[r])
    BY DEF IInv, TypeOK, AllSound
  <1>2. Kill(r, req)[r] = IF req[r].proc = "running" THEN Killed(req[r]) ELSE req[r]
    BY DEF Kill, Killed
  <1> QED
    BY <1>1, <1>2, KilledRecord

\* The handler of a process kills it and then answers or waits.
LEMMA KillMoves ==
  ASSUME IInv, NEW r \in Requests, NEW y \in Request,
         req' = [Kill(r, req) EXCEPT ![r] = y],
         UNCHANGED <<asked, previewVars, sessions, managedVars, gitHubVars>>,
         Sound(y), Calm(req[r], y), ~Stray(y)
  PROVE  IInv'
  <1>1. TypeOK
    BY DEF IInv
  <1>2. req' \in [Requests -> Request] /\ req'[r] = y /\ Spares(r)
    BY <1>1, KillUpdated
  <1>3. TypeOK'
    BY <1>1, <1>2 DEF TypeOK, previewVars, managedVars, gitHubVars
  <1> QED
    BY <1>2, <1>3, CalmStep DEF previewVars, managedVars, gitHubVars

LEMMA SocketOpenKeeps ==
  ASSUME IInv, NEW r \in Requests, SocketOpen(r)
  PROVE  IInv'
  <1>1. req[r].kind \in Sockets /\ req[r].at = "begin"
    BY DEF SocketOpen
  <1>2. req[r] \in Request /\ Sound(req[r]) /\ TypeOK
    BY DEF IInv, TypeOK, AllSound
  <1>3. CASE Moves(r, Answered(r, "error"))
    <2>1. "error" \in Answers
      BY DEF Answers
    <2> QED
      BY <1>1, <1>3, <2>1, AnswerKeeps
  <1>4. CASE \E child \in BOOLEAN, p \in {"connecting", "serving"} :
               /\ req' = [req EXCEPT ![r] = Started(req[r], p, child)]
               /\ sessions' \subseteq sessions \cup {r}
               /\ UNCHANGED <<asked, previewVars, managedVars, gitHubVars>>
    <2>1. PICK child \in BOOLEAN, p \in {"connecting", "serving"} :
               /\ req' = [req EXCEPT ![r] = Started(req[r], p, child)]
               /\ sessions' \subseteq sessions \cup {r}
               /\ UNCHANGED <<asked, previewVars, managedVars, gitHubVars>>
      BY <1>4
    <2> DEFINE y == Started(req[r], p, child)
    <2>2. p \in Places
      BY DEF Places
    <2>3. /\ y \in Request /\ y.at = p /\ y.kind = req[r].kind /\ y.temp = req[r].temp
      BY <1>2, <2>2, StartedRecord
    <2>4. req' \in [Requests -> Request] /\ req'[r] = y /\ Spares(r)
      BY <1>2, <2>1, <2>3, Updated
    <2> HIDE DEF y
    <2>5. Sound(y) /\ Calm(req[r], y) /\ ~Stray(y)
      BY <1>1, <1>2, <2>3 DEF Sound, Calm, Stray, Detects, Waits, LogsIn, Sockets
    <2>6. TypeOK'
      BY <1>2, <2>1, <2>4 DEF TypeOK, previewVars, managedVars, gitHubVars
    <2> QED
      BY <2>1, <2>4, <2>5, <2>6, CalmStep DEF previewVars, managedVars, gitHubVars
  <1> QED
    BY <1>3, <1>4 DEF SocketOpen

LEMMA DebugConnectKeeps ==
  ASSUME IInv, NEW r \in Requests, DebugConnect(r)
  PROVE  IInv'
  <1>1. req[r].kind = "dap" /\ req[r].at = "connecting"
    BY DEF DebugConnect, At
  <1>2. CASE Moves(r, [req[r] EXCEPT !.at = "serving"])
    BY <1>1, <1>2, PlaceKeeps
  <1>3. CASE /\ req' = [Kill(r, req) EXCEPT ![r] = [@ EXCEPT !.at = "end", !.answer = "error"]]
             /\ UNCHANGED <<asked, previewVars, sessions, managedVars, gitHubVars>>
    <2> DEFINE x == Kill(r, req)[r]
               y == [x EXCEPT !.at = "end", !.answer = "error"]
    <2>1. /\ x \in Request /\ Sound(x) /\ x.kind = "dap" /\ x.at = "connecting"
          /\ x.proc = "running" => x.killed
      BY <1>1, KillSelf
    <2>2. req' = [Kill(r, req) EXCEPT ![r] = y]
      BY <1>3
    <2> HIDE DEF x
    <2>3. /\ y \in Request /\ y.at = "end" /\ y.kind = "dap" /\ y.proc = x.proc
          /\ y.killed = x.killed /\ y.temp = x.temp
      BY <2>1 DEF Request, Places, Answers
    <2> HIDE DEF y
    <2>4. Sound(y) /\ Calm(req[r], y) /\ ~Stray(y)
      BY <1>1, <2>1, <2>3 DEF Sound, Calm, Stray, Detects, Waits, LogsIn
    <2> QED
      BY <1>3, <2>2, <2>3, <2>4, KillMoves
  <1> QED
    BY <1>2, <1>3 DEF DebugConnect

LEMMA SocketClosesKeep ==
  ASSUME IInv, NEW r \in Requests, SocketClose(r) \/ SocketEnded(r)
  PROVE  IInv'
  <1>1. /\ req[r].kind \in Sockets /\ req[r].at = "serving"
        /\ Moves(r, [req[r] EXCEPT !.at = "leaving"])
    BY DEF SocketClose, SocketEnded, Sockets
  <1> QED
    BY <1>1, PlaceKeeps DEF Sockets

LEMMA SocketLeaveKeeps ==
  ASSUME IInv, NEW r \in Requests, SocketLeave(r)
  PROVE  IInv'
  <1> DEFINE x == Kill(r, req)[r]
             p == IF req[r].kind = "lsp" THEN "end" ELSE "waiting"
             y == [x EXCEPT !.at = p]
  <1>1. /\ req[r].kind \in Sockets /\ req[r].at = "leaving"
        /\ req' = [Kill(r, req) EXCEPT ![r] = y]
        /\ UNCHANGED <<asked, previewVars, sessions, managedVars, gitHubVars>>
    BY DEF SocketLeave
  <1>2. /\ x \in Request /\ Sound(x) /\ x.kind = req[r].kind /\ x.at = "leaving"
        /\ x.proc = "running" => x.killed
    BY <1>1, KillSelf
  <1>3. p \in {"end", "waiting"} /\ p \in Places
    BY DEF Places
  <1> HIDE DEF x, p
  <1>4. /\ y \in Request /\ y.at = p /\ y.kind = x.kind /\ y.proc = x.proc
        /\ y.killed = x.killed /\ y.temp = x.temp
    BY <1>2, <1>3, Placed
  <1> HIDE DEF y
  <1>5. Sound(y) /\ Calm(req[r], y) /\ ~Stray(y)
    BY <1>1, <1>2, <1>3, <1>4 DEF Sound, Calm, Stray, Detects, Waits, LogsIn, Sockets
  <1> QED
    BY <1>1, <1>4, <1>5, KillMoves

LEMMA SocketReapKeeps ==
  ASSUME IInv, NEW r \in Requests, SocketReap(r)
  PROVE  IInv'
  <1> DEFINE y == Reaped(req[r], "end")
  <1>1. /\ req[r].kind \in {"terminal", "dap"} /\ req[r].at = "waiting"
        /\ req' = [req EXCEPT ![r] = y] /\ sessions' = sessions \ {r}
        /\ UNCHANGED <<asked, previewVars, managedVars, gitHubVars>>
    BY DEF SocketReap
  <1>2. req[r] \in Request /\ Sound(req[r]) /\ TypeOK /\ "end" \in Places
    BY DEF IInv, TypeOK, AllSound, Places
  <1>3. /\ y \in Request /\ y.at = "end" /\ y.proc = "reaped" /\ y.kind = req[r].kind
        /\ y.temp = req[r].temp
    BY <1>2, ReapedRecord
  <1> HIDE DEF y
  <1>4. req' \in [Requests -> Request] /\ req'[r] = y /\ Spares(r)
    BY <1>1, <1>2, <1>3, Updated
  <1>5. Sound(y) /\ Calm(req[r], y) /\ ~Stray(y)
    BY <1>1, <1>2, <1>3 DEF Sound, Calm, Stray, Detects, Waits, LogsIn
  <1>6. TypeOK'
    BY <1>1, <1>2, <1>4 DEF TypeOK, previewVars, managedVars, gitHubVars
  <1> QED
    BY <1>1, <1>4, <1>5, <1>6, CalmStep DEF previewVars, managedVars, gitHubVars

-----------------------------------------------------------------------------
(* Managed processes.                                                      *)

LEMMA ManagedLaunchKeeps ==
  ASSUME IInv, NEW r \in Requests, NEW args, ManagedLaunch(r, args),
         req[r].kind \in {"managed", "restart"}, req[r].at \in {"begin", "stopping"}
  PROVE  IInv'
  <1>1. req[r] \in Request /\ Sound(req[r]) /\ TypeOK
    BY DEF IInv, TypeOK, AllSound
  <1>2. CASE Moves(r, Answered(r, "blocked"))
    <2>1. "blocked" \in Answers
      BY DEF Answers
    <2> QED
      BY <1>2, <2>1, AnswerKeeps
  <1>3. CASE \E child \in BOOLEAN :
               /\ req' = [req EXCEPT ![r] = [Started(req[r], "end", child) EXCEPT !.answer = "started"]]
               /\ items' = items \cup {r}
               /\ UNCHANGED <<asked, previewVars, sessions, codes, done, gitHubVars>>
    <2>1. PICK child \in BOOLEAN :
               /\ req' = [req EXCEPT ![r] = [Started(req[r], "end", child) EXCEPT !.answer = "started"]]
               /\ items' = items \cup {r}
               /\ UNCHANGED <<asked, previewVars, sessions, codes, done, gitHubVars>>
      BY <1>3
    <2> DEFINE x == Started(req[r], "end", child)
               y == [x EXCEPT !.answer = "started"]
    <2>2. "end" \in Places /\ "started" \in Answers
      BY DEF Places, Answers
    <2>3. x \in Request /\ x.at = "end" /\ x.kind = req[r].kind /\ x.temp = req[r].temp
      BY <1>1, <2>2, StartedRecord
    <2> HIDE DEF x
    <2>4. y \in Request /\ y.at = "end" /\ y.kind = x.kind /\ y.temp = x.temp
      BY <2>2, <2>3 DEF Request
    <2>5. req' \in [Requests -> Request] /\ req'[r] = y /\ Spares(r)
      BY <1>1, <2>1, <2>4, Updated DEF x
    <2> HIDE DEF y
    <2>6. Sound(y) /\ Calm(req[r], y)
      BY <1>1, <2>3, <2>4 DEF Sound, Calm, Detects, Waits, LogsIn
    <2>7. TypeOK'
      BY <1>1, <2>1, <2>5 DEF TypeOK, previewVars, gitHubVars
    <2> QED
      BY <2>1, <2>5, <2>6, <2>7, CalmStep DEF previewVars, gitHubVars
  <1> QED
    BY <1>2, <1>3 DEF ManagedLaunch

LEMMA ManagedStartKeeps ==
  ASSUME IInv, NEW r \in Requests, ManagedStart(r)
  PROVE  IInv'
  BY ManagedLaunchKeeps DEF ManagedStart, At

LEMMA ManagedRecordKeeps ==
  ASSUME IInv, NEW r \in Requests, ManagedRecord(r)
  PROVE  IInv'
  <1> DEFINE y == [req[r] EXCEPT !.proc = "reaped"]
  <1>1. /\ r \in items /\ req[r].proc \in {"exited", "reaped"}
        /\ codes' = codes \cup {r} /\ req' = [req EXCEPT ![r] = y]
        /\ UNCHANGED <<asked, previewVars, sessions, items, done, gitHubVars>>
    BY DEF ManagedRecord, PipesClosed, Exited
  <1>2. req[r] \in Request /\ Sound(req[r]) /\ TypeOK
    BY DEF IInv, TypeOK, AllSound
  <1>3. /\ y \in Request /\ y.at = req[r].at /\ y.kind = req[r].kind /\ y.proc = "reaped"
        /\ y.temp = req[r].temp /\ y.cleans = req[r].cleans /\ y.seen = req[r].seen
    BY <1>2 DEF Request
  <1> HIDE DEF y
  <1>4. req' \in [Requests -> Request] /\ req'[r] = y /\ Spares(r)
    BY <1>1, <1>2, <1>3, Updated
  <1>5. Sound(y) /\ Calm(req[r], y) /\ ~Stray(y)
    BY <1>1, <1>2, <1>3 DEF Sound, Calm, Stray, Detects, Waits, LogsIn
  <1>6. TypeOK'
    BY <1>1, <1>2, <1>4 DEF TypeOK, previewVars, gitHubVars
  <1> QED
    BY <1>1, <1>4, <1>5, <1>6, CalmStep DEF previewVars, gitHubVars

LEMMA ManagedCloseKeeps ==
  ASSUME IInv, NEW r \in Requests, ManagedClose(r)
  PROVE  IInv'
  <1>1. /\ r \in items /\ done' = done \cup {r}
        /\ UNCHANGED <<asked, req, previewVars, sessions, items, codes, gitHubVars>>
    BY DEF ManagedClose
  <1>2. TypeOK'
    BY <1>1 DEF IInv, TypeOK, previewVars, gitHubVars
  <1> QED
    BY <1>1, <1>2 DEF IInv, AllSound, Fresh, Owned, Locked, Signing, previewVars, gitHubVars

LEMMA ManagedStatusKeeps ==
  ASSUME IInv, NEW r \in Requests, ManagedStatus(r)
  PROVE  IInv'
  <1>1. req[r].kind = "status" /\ req[r].at = "begin"
    BY DEF ManagedStatus, At
  <1>2. req[r] \in Request /\ Sound(req[r])
    BY DEF IInv, TypeOK, AllSound
  <1>3. CASE Moves(r, Answered(r, "unknown"))
    <2>1. "unknown" \in Answers
      BY DEF Answers
    <2> QED
      BY <1>1, <1>3, <2>1, AnswerKeeps
  <1>4. CASE \E s \in {"exited", "running"} :
               Moves(r, [req[r] EXCEPT !.at = "reading", !.seen = s])
    <2>1. PICK s \in {"exited", "running"} :
               Moves(r, [req[r] EXCEPT !.at = "reading", !.seen = s])
      BY <1>4
    <2> DEFINE y == [req[r] EXCEPT !.at = "reading", !.seen = s]
    <2>2. /\ y \in Request /\ y.at = "reading" /\ y.kind = "status" /\ y.proc = req[r].proc
          /\ y.temp = req[r].temp
      BY <1>1, <1>2 DEF Request, Places
    <2> HIDE DEF y
    <2>3. Sound(y) /\ Calm(req[r], y) /\ ~Stray(y)
      BY <1>1, <1>2, <2>2 DEF Sound, Calm, Stray, Detects, Waits, LogsIn
    <2> QED
      BY <2>1, <2>2, <2>3, MoveKeeps DEF y
  <1> QED
    BY <1>3, <1>4 DEF ManagedStatus

LEMMA ManagedAnswersKeep ==
  ASSUME IInv, NEW r \in Requests, ManagedReport(r) \/ ManagedLate(r)
  PROVE  IInv'
  <1>1. /\ req[r].at \in {"reading", "stopping"}
        /\ \E a \in {"with code", "without code", "still running"} : Moves(r, Answered(r, a))
    BY DEF ManagedReport, ManagedLate, At
  <1>2. {"with code", "without code", "still running"} \subseteq Answers
    BY DEF Answers
  <1> QED
    BY <1>1, <1>2, AnswerKeeps

LEMMA ManagedKillKeeps ==
  ASSUME IInv, NEW r \in Requests, ManagedKill(r)
  PROVE  IInv'
  <1>1. req[r].kind \in {"stop", "restart"} /\ req[r].at = "begin"
    BY DEF ManagedKill
  <1>2. req[r] \in Request /\ Sound(req[r]) /\ TypeOK /\ "stopping" \in Places
    BY DEF IInv, TypeOK, AllSound, Places
  <1>3. \/ \E a \in {"unknown", "already exited"} : Moves(r, Answered(r, a))
        \/ \E p : /\ req' = [Kill(p, req) EXCEPT ![r].at = "stopping"]
                  /\ UNCHANGED <<asked, previewVars, sessions, managedVars, gitHubVars>>
    BY DEF ManagedKill
  <1>4. CASE \E a \in {"unknown", "already exited"} : Moves(r, Answered(r, a))
    <2>1. {"unknown", "already exited"} \subseteq Answers
      BY DEF Answers
    <2> QED
      BY <1>1, <1>4, <2>1, AnswerKeeps
  <1>5. CASE \E p : /\ req' = [Kill(p, req) EXCEPT ![r].at = "stopping"]
                    /\ UNCHANGED <<asked, previewVars, sessions, managedVars, gitHubVars>>
    <2>1. PICK p : /\ req' = [Kill(p, req) EXCEPT ![r].at = "stopping"]
                   /\ UNCHANGED <<asked, previewVars, sessions, managedVars, gitHubVars>>
      BY <1>5
    <2> DEFINE y == [req[r] EXCEPT !.at = "stopping"]
    <2>2. req[r].proc = "none"
      BY <1>1, <1>2 DEF Sound
    <2>3. req' = [Kill(p, req) EXCEPT ![r] = y]
      BY <2>1, <2>2, KillOther
    <2>4. /\ y \in Request /\ y.at = "stopping" /\ y.kind = req[r].kind
          /\ y.proc = req[r].proc /\ y.temp = req[r].temp
      BY <1>2, Placed
    <2> HIDE DEF y
    <2>5. req' \in [Requests -> Request] /\ req'[r] = y /\ Spares(r)
      BY <1>2, <2>3, <2>4, KillUpdated
    <2>6. Sound(y) /\ Calm(req[r], y) /\ ~Stray(y)
      BY <1>1, <1>2, <2>4 DEF Sound, Calm, Stray, Detects, Waits, LogsIn
    <2>7. TypeOK'
      BY <1>2, <2>1, <2>5 DEF TypeOK, previewVars, managedVars, gitHubVars
    <2> QED
      BY <2>1, <2>5, <2>6, <2>7, CalmStep DEF previewVars, managedVars, gitHubVars
  <1> QED
    BY <1>3, <1>4, <1>5

LEMMA ManagedStoppedKeeps ==
  ASSUME IInv, NEW r \in Requests, ManagedStopped(r)
  PROVE  IInv'
  <1>1. req[r].kind \in {"stop", "restart"} /\ req[r].at = "stopping"
    BY DEF ManagedStopped
  <1>2. CASE Moves(r, Answered(r, "stopped"))
    <2>1. "stopped" \in Answers
      BY DEF Answers
    <2> QED
      BY <1>1, <1>2, <2>1, AnswerKeeps
  <1>3. CASE /\ req[r].kind = "restart"
             /\ ManagedLaunch(r, [decoded |-> FALSE, values |-> <<"run", "dev">>])
    BY <1>1, <1>3, ManagedLaunchKeeps
  <1> QED
    BY <1>1, <1>2, <1>3 DEF ManagedStopped

-----------------------------------------------------------------------------
(* The GitHub sign-in.                                                     *)

LEMMA GitHubReadKeeps ==
  ASSUME IInv, NEW r \in Requests, GitHubRead(r)
  PROVE  IInv'
  <1> DEFINE y == [req[r] EXCEPT !.seen = token, !.at = "client"]
  <1>1. /\ req[r].kind \in {"github", "sign-in"} /\ req[r].at = "begin"
        /\ Moves(r, y)
    BY DEF GitHubRead
  <1>2. /\ req[r] \in Request /\ Sound(req[r])
        /\ token \in {"none", "personal", "disconnected"}
    BY DEF IInv, TypeOK, AllSound
  <1>3. /\ y \in Request /\ y.at = "client" /\ y.kind = req[r].kind /\ y.proc = req[r].proc
        /\ y.temp = req[r].temp
    BY <1>2 DEF Request, Places
  <1> HIDE DEF y
  <1>4. Sound(y) /\ Calm(req[r], y) /\ ~Stray(y)
    BY <1>1, <1>2, <1>3 DEF Sound, Calm, Stray, Detects, Waits, LogsIn
  <1> QED
    BY <1>1, <1>3, <1>4, MoveKeeps

\* Steps that touch Studio's token and the request that takes them.
LEMMA TokenStep ==
  ASSUME IInv, NEW r \in Requests, NEW y \in Request, req' = [req EXCEPT ![r] = y],
         UNCHANGED <<asked, previewVars, sessions, managedVars, signing, gh>>,
         token' \in {"none", token, "disconnected"},
         Sound(y), Calm(req[r], y), ~Stray(y)
  PROVE  IInv'
  <1>1. TypeOK
    BY DEF IInv
  <1>2. req' \in [Requests -> Request] /\ req'[r] = y /\ Spares(r)
    BY <1>1, Updated
  <1>3. TypeOK'
    BY <1>1, <1>2 DEF TypeOK, previewVars, managedVars
  <1> QED
    BY <1>2, <1>3, CalmStep DEF previewVars, managedVars

LEMMA GitHubClientKeeps ==
  ASSUME IInv, NEW r \in Requests, GitHubClient(r)
  PROVE  IInv'
  <1>1. /\ req[r].kind \in {"github", "sign-in"} /\ req[r].at = "client"
        /\ token' \in {"none", token}
        /\ UNCHANGED <<asked, previewVars, sessions, managedVars, signing, gh>>
        /\ \/ req' = [req EXCEPT ![r] = [req[r] EXCEPT !.at = "ask"]]
           \/ \E a \in {"authenticated", "anonymous", "error"} : req' = [req EXCEPT ![r] = Answered(r, a)]
    BY DEF GitHubClient
  <1>2. req[r] \in Request /\ Sound(req[r]) /\ "ask" \in Places
    BY DEF IInv, TypeOK, AllSound, Places
  <1>3. CASE req' = [req EXCEPT ![r] = [req[r] EXCEPT !.at = "ask"]]
    <2> DEFINE y == [req[r] EXCEPT !.at = "ask"]
    <2>1. /\ y \in Request /\ y.at = "ask" /\ y.kind = req[r].kind /\ y.proc = req[r].proc
          /\ y.temp = req[r].temp
      BY <1>2, Placed
    <2>2. req' = [req EXCEPT ![r] = y]
      BY <1>3
    <2> HIDE DEF y
    <2>3. Sound(y) /\ Calm(req[r], y) /\ ~Stray(y)
      BY <1>1, <1>2, <2>1 DEF Sound, Calm, Stray, Detects, Waits, LogsIn
    <2> QED
      BY <1>1, <2>1, <2>2, <2>3, TokenStep
  <1>4. CASE \E a \in {"authenticated", "anonymous", "error"} : req' = [req EXCEPT ![r] = Answered(r, a)]
    <2>1. {"authenticated", "anonymous", "error"} \subseteq Answers
      BY DEF Answers
    <2> QED
      BY <1>1, <1>4, <2>1, AnsweredRecord, TokenStep
  <1> QED
    BY <1>1, <1>3, <1>4

LEMMA DisconnectKeeps ==
  ASSUME IInv, NEW r \in Requests, Disconnect(r)
  PROVE  IInv'
  <1>1. /\ req[r].at = "begin" /\ token' \in {token, "disconnected"}
        /\ UNCHANGED <<asked, previewVars, sessions, managedVars, signing, gh>>
        /\ \E a \in {"busy", "ok"} : req' = [req EXCEPT ![r] = Answered(r, a)]
    BY DEF Disconnect, At
  <1>2. {"busy", "ok"} \subseteq Answers
    BY DEF Answers
  <1> QED
    BY <1>1, <1>2, AnsweredRecord, TokenStep

LEMMA SignInBeginKeeps ==
  ASSUME IInv, NEW r \in Requests, SignInBegin(r)
  PROVE  IInv'
  <1>1. req[r].kind = "sign-in" /\ req[r].at = "ask"
    BY DEF SignInBegin, At
  <1>2. req[r] \in Request /\ Sound(req[r]) /\ TypeOK
    BY DEF IInv, TypeOK, AllSound
  <1>3. CASE \E a \in {"already running", "gh missing"} : Moves(r, Answered(r, a))
    <2>1. {"already running", "gh missing"} \subseteq Answers
      BY DEF Answers
    <2> QED
      BY <1>1, <1>3, <2>1, AnswerKeeps
  <1>4. CASE /\ ~signing /\ signing' = TRUE
             /\ req' = [req EXCEPT ![r] = Started(req[r], "login", FALSE)]
             /\ UNCHANGED <<asked, previewVars, sessions, managedVars, token, gh>>
    <2> DEFINE y == Started(req[r], "login", FALSE)
    <2>1. /\ y \in Request /\ y.at = "login" /\ y.kind = "sign-in" /\ y.temp = req[r].temp
      <3>1. "login" \in Places
        BY DEF Places
      <3> QED
        BY <1>1, <1>2, <3>1, StartedRecord
    <2>2. req' \in [Requests -> Request] /\ req'[r] = y /\ Spares(r)
      BY <1>2, <1>4, <2>1, Updated
    <2> HIDE DEF y
    <2>3. Sound(y) /\ ~Stray(y) /\ ~Detects(y) /\ ~Waits(y) /\ LogsIn(y)
      BY <1>1, <1>2, <2>1 DEF Sound, Stray, Detects, Waits, LogsIn
    <2>4. TypeOK'
      BY <1>2, <1>4, <2>2 DEF TypeOK, previewVars, managedVars
    <2>5. AllSound' /\ Fresh'
      BY <1>1, <1>4, <2>1, <2>2, <2>3, RecordsKept
    <2>6. Owned' /\ Locked'
      BY <1>4, <2>2, <2>3, OwnersKept DEF previewVars, managedVars
    <2>7. \A q \in Requests : LogsIn(req'[q]) <=> q = r
      <3>1. \A q \in Requests : ~LogsIn(req[q])
        BY <1>4 DEF IInv, Signing
      <3>2. \A q \in Requests \ {r} : req'[q].kind = req[q].kind /\ req'[q].at = req[q].at
        BY <1>2, <2>2, KilledRecord DEF Spares, TypeOK
      <3> QED
        BY <2>2, <2>3, <3>1, <3>2 DEF LogsIn
    <2>8. Signing'
      BY <1>4, <2>7 DEF Signing
    <2> QED
      BY <2>4, <2>5, <2>6, <2>8 DEF IInv
  <1> QED
    BY <1>3, <1>4 DEF SignInBegin, SignInFree

LEMMA SignInReturnsKeeps ==
  ASSUME IInv, NEW r \in Requests, SignInReturns(r)
  PROVE  IInv'
  <1>1. /\ req[r].kind = "sign-in" /\ req[r].at = "login"
        /\ \E session \in {gh, TRUE}, stored \in {"none", token} : SignInEnd(r, session, stored)
    BY DEF SignInReturns, At
  <1>2. req[r] \in Request /\ Sound(req[r]) /\ TypeOK
    BY DEF IInv, TypeOK, AllSound
  <1> DEFINE x == [req[r] EXCEPT !.answer = "finished"]
             y == Reaped(x, "end")
  <1>3. /\ req' = [req EXCEPT ![r] = y] /\ signing' = FALSE
        /\ gh' \in {gh, TRUE} /\ token' \in {"none", token}
        /\ UNCHANGED <<asked, previewVars, sessions, managedVars>>
    BY <1>1 DEF SignInEnd
  <1>4. x \in Request /\ x.kind = req[r].kind /\ x.temp = req[r].temp /\ "end" \in Places
    BY <1>2 DEF Request, Answers, Places
  <1> HIDE DEF x
  <1>5. /\ y \in Request /\ y.at = "end" /\ y.kind = "sign-in" /\ y.proc = "reaped"
        /\ y.temp = req[r].temp
    BY <1>1, <1>4, ReapedRecord
  <1> HIDE DEF y
  <1>6. req' \in [Requests -> Request] /\ req'[r] = y /\ Spares(r)
    BY <1>2, <1>3, <1>5, Updated
  <1>7. Sound(y) /\ ~Stray(y) /\ ~Detects(y) /\ ~Waits(y) /\ ~LogsIn(y)
    BY <1>1, <1>2, <1>5 DEF Sound, Stray, Detects, Waits, LogsIn
  <1>8. TypeOK'
    <2>1. gh' \in BOOLEAN /\ signing' \in BOOLEAN
      BY <1>2, <1>3 DEF TypeOK
    <2> QED
      BY <1>2, <1>3, <1>6, <2>1 DEF TypeOK, previewVars, managedVars
  <1>9. AllSound' /\ Fresh'
    BY <1>1, <1>3, <1>5, <1>6, <1>7, RecordsKept
  <1>10. Owned' /\ Locked'
    BY <1>3, <1>6, <1>7, OwnersKept DEF previewVars, managedVars
  <1>11. \A q \in Requests : ~LogsIn(req'[q])
    <2>1. \A q \in Requests : LogsIn(req[q]) => q = r
      BY <1>1 DEF IInv, Signing, LogsIn
    <2>2. \A q \in Requests \ {r} : req'[q].kind = req[q].kind /\ req'[q].at = req[q].at
      BY <1>2, <1>6, KilledRecord DEF Spares, TypeOK
    <2> QED
      BY <1>6, <1>7, <2>1, <2>2 DEF LogsIn
  <1>12. Signing'
    BY <1>3, <1>11 DEF Signing
  <1> QED
    BY <1>8, <1>9, <1>10, <1>12 DEF IInv

-----------------------------------------------------------------------------
(* The theorems.                                                           *)

LEMMA Inductive == IInv /\ [Next]_vars => IInv'
  <1> SUFFICES ASSUME IInv, [Next]_vars  PROVE IInv'
    OBVIOUS
  <1>1. CASE NewRequest
    BY <1>1, NewRequestKeeps
  <1>2. ASSUME NEW r \in Requests, Exit(r) \/ ChildExit(r) \/ SocketClose(r)  PROVE IInv'
    BY <1>2, ExitKeeps, SocketClosesKeep
  <1>3. ASSUME NEW r \in Requests, Handle(r)  PROVE IInv'
    BY <1>3, PreviewBeginKeeps, PreviewLaunchKeeps, PreviewReadyKeeps, PreviewTimeoutKeeps,
       PreviewGoneKeeps, PreviewStopKeeps, RunPrepareKeeps, RunLaunchKeeps,
       RunReturnsKeeps, DeadlineKeeps, SocketOpenKeeps, DebugConnectKeeps,
       SocketClosesKeep, SocketLeaveKeeps, SocketReapKeeps, ManagedStartKeeps,
       ManagedRecordKeeps, ManagedCloseKeeps, ManagedStatusKeeps, ManagedAnswersKeep,
       ManagedKillKeeps, ManagedStoppedKeeps, GitHubReadKeeps, GitHubClientKeeps,
       SignInBeginKeeps, SignInReturnsKeeps, DisconnectKeeps
    DEF Handle
  <1>4. CASE UNCHANGED vars
    BY <1>4 DEF IInv, TypeOK, AllSound, Fresh, Owned, Locked, Signing, vars, previewVars,
                managedVars, gitHubVars
  <1> QED
    BY <1>1, <1>2, <1>3, <1>4 DEF Next

LEMMA Invariant == Spec => []IInv
  BY Initially, Inductive, PTL DEF Spec

\* The records of the handlers, the tables of sessions and managed processes
\* and the preview manager's fields keep their types; a done channel and an
\* exit code are those of a process in the table (tier1_runtime.go).
THEOREM TypeCorrect == Spec => []TypeOK
  <1>1. IInv => TypeOK
    BY DEF IInv
  <1> QED
    BY <1>1, Invariant, PTL

\* However starts, stops, timeouts and the goroutines that forget a dead
\* preview interleave, a process that runs and was not killed is known to a
\* handler at work, to the preview manager or to the table of managed
\* processes; and no run of a source with a name leaves its build directory
\* behind when it is over.
THEOREM NothingStaysBehind == Spec => []NothingLeft
  <1>1. IInv => NothingLeft
    BY DEF IInv, Owned, AllSound, Sound, Stray, NothingLeft, NoStrayProcess, NoDirectoryLeft
  <1> QED
    BY <1>1, Invariant, PTL

\* Whatever number of clients ask for it, there is one GitHub CLI sign-in at a
\* time, and githubAuthRunning is set exactly while there is one.
THEOREM SignInsAreExclusive == Spec => []OneSignIn
  <1>1. IInv => OneSignIn
    <2> SUFFICES ASSUME IInv  PROVE OneSignIn
      OBVIOUS
    <2> DEFINE logins == {r \in Requests : At(r, "sign-in", "login")}
    <2> SUFFICES Cardinality(logins) <= 1 /\ (signing <=> logins # {})
      BY DEF OneSignIn
    <2>1. \A q \in Requests : q \in logins <=> LogsIn(req[q])
      <3> SUFFICES ASSUME NEW q \in Requests, LogsIn(req[q])  PROVE q <= asked
        BY DEF At, LogsIn
      <3>1. ~(q > asked)
        BY DEF IInv, Fresh, LogsIn
      <3> QED
        BY <3>1, ProcessesAssumption DEF IInv, TypeOK, Requests
    <2>2. logins \subseteq Requests
      OBVIOUS
    <2> HIDE DEF logins
    <2>3. signing <=> logins # {}
      BY <2>1, <2>2 DEF IInv, Signing
    <2>4. Cardinality(logins) <= 1
      <3>1. CASE logins = {}
        BY <3>1, FS_EmptySet
      <3>2. CASE logins # {}
        <4>1. PICK q \in logins : TRUE
          BY <3>2
        <4>2. q \in Requests /\ LogsIn(req[q])
          BY <2>1, <2>2, <4>1
        <4>3. ASSUME NEW s \in logins  PROVE s = q
          <5>1. s \in Requests /\ LogsIn(req[s])
            BY <2>1, <2>2, <4>3
          <5> QED
            BY <4>2, <5>1 DEF IInv, Signing
        <4>4. logins = {q}
          BY <4>1, <4>3
        <4>5. Cardinality({q}) = 1
          BY FS_Singleton
        <4> QED
          BY <4>4, <4>5
      <3> QED
        BY <3>1, <3>2
    <2> QED
      BY <2>3, <2>4
  <1> QED
    BY <1>1, Invariant, PTL
=============================================================================
