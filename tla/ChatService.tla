---------------------------- MODULE ChatService ----------------------------
(***************************************************************************)
(* Who may run a chat in the API server, and what becomes of the chats     *)
(* that run in the background.                                             *)
(*                                                                         *)
(*   - POST /v1/chat and /v1/agent/run take one of the tokens of           *)
(*     Server.chatSlots or are answered 503 (withChatSlot);                *)
(*   - POST /v1/jobs starts a job of platform.JobRunner: its goroutine     *)
(*     calls Service.Chat under a context that outlives the request and    *)
(*     expires after five minutes (StartBackgroundJob);                    *)
(*   - GET /v1/jobs returns copies of the jobs.                            *)
(*                                                                         *)
(* JobRunner.Start is also called directly (platform_test.go), with work   *)
(* that leaves the context to its caller: such a job has owner "caller",   *)
(* one of StartBackgroundJob has owner "service".  Every critical section  *)
(* of JobRunner.mu is one action; what Chat does is its result only.       *)
(***************************************************************************)
EXTENDS Naturals, Sequences, FiniteSets

CONSTANTS
  Requests,  \* HTTP requests for /v1/chat and /v1/agent/run
  Jobs,      \* the ids Start draws
  Slots,     \* capacity of Server.chatSlots (4)
  NoJob      \* no job of that id

ASSUME ChatServiceAssumption == Slots \in Nat \ {0}

Owners == {"service", "caller"}
Terminal == {"succeeded", "failed", "cancelled"}
Statuses == {"queued", "running"} \cup Terminal

\* a BackgroundJob: finished stands for FinishedAt, result and error for
\* whether those strings are set
Job == [status : Statuses, progress : Seq({"agent started", "response generated"}),
        finished : BOOLEAN, result : BOOLEAN, error : BOOLEAN]

ASSUME NoJobAssumption == NoJob \notin Job

VARIABLES
  slots,    \* tokens in Server.chatSlots
  request,  \* request -> where it is
  job,      \* JobRunner.jobs
  owner,    \* job -> who called Start
  worker,   \* job -> where its goroutine is
  chat,     \* job -> what Service.Chat returned to it
  context,  \* job -> state of the context it was started with
  client,   \* job -> whether the client that posted it is still connected
  seen      \* job -> the last copy a GET returned

serviceVars == <<slots, request, job, owner, worker, chat, context, client, seen>>
jobVars == <<job, owner, worker, chat, context, client, seen>>

ServiceTypeOK ==
  /\ slots \in 0 .. Slots
  /\ request \in [Requests -> {"new", "chatting", "answered", "refused"}]
  /\ job \in [Jobs -> Job \cup {NoJob}]
  /\ owner \in [Jobs -> Owners]
  /\ worker \in [Jobs -> {"none", "started", "running", "chatting", "replied", "back", "done"}]
  /\ chat \in [Jobs -> {"none", "ok", "error", "canceled"}]
  /\ context \in [Jobs -> {"live", "expired", "canceled"}]
  /\ client \in [Jobs -> {"connected", "left"}]
  /\ seen \in [Jobs -> Job \cup {NoJob}]

ServiceInit ==
  /\ slots = 0
  /\ request = [r \in Requests |-> "new"]
  /\ job = [j \in Jobs |-> NoJob]
  /\ owner \in [Jobs -> Owners]
  /\ worker = [j \in Jobs |-> "none"]
  /\ chat = [j \in Jobs |-> "none"]
  /\ context = [j \in Jobs |-> "live"]
  /\ client = [j \in Jobs |-> "connected"]
  /\ seen = [j \in Jobs |-> NoJob]

-----------------------------------------------------------------------------
(* withChatSlot *)

\* the buffered send succeeds at once, or the request is refused
SlotFree == slots < Slots

Admit(r) ==
  /\ request[r] = "new"
  /\ SlotFree
  /\ slots' = slots + 1
  /\ request' = [request EXCEPT ![r] = "chatting"]
  /\ UNCHANGED jobVars

Reject(r) ==
  /\ request[r] = "new"
  /\ ~SlotFree
  /\ request' = [request EXCEPT ![r] = "refused"]
  /\ UNCHANGED <<slots, jobVars>>

KeepsSlotOnError(outcome) == IF outcome = "ok" THEN slots - 1 ELSE slots

\* the deferred receive gives the token back however the handler ends
GiveBack(outcome) == slots - 1

Answer(r) ==
  /\ request[r] = "chatting"
  /\ \E outcome \in {"ok", "error", "panic"} : slots' = GiveBack(outcome)
  /\ request' = [request EXCEPT ![r] = "answered"]
  /\ UNCHANGED jobVars

-----------------------------------------------------------------------------
(* StartBackgroundJob and JobRunner *)

Queued == [status |-> "queued", progress |-> <<>>, finished |-> FALSE,
           result |-> FALSE, error |-> FALSE]

\* context.WithoutCancel: the request's end does not reach the job
OnClientGone(j) == context[j]

IgnoresContext(j) == IF chat[j] = "ok" THEN "succeeded" ELSE "failed"

\* the verdict of the goroutine once work has returned
Verdict(j) ==
  CASE chat[j] = "ok" /\ context[j] = "live"          -> "succeeded"
    [] chat[j] = "error" /\ context[j] # "canceled"   -> "failed"
    [] OTHER                                          -> "cancelled"

Post(j) ==
  /\ worker[j] = "none"
  /\ job' = [job EXCEPT ![j] = Queued]
  /\ worker' = [worker EXCEPT ![j] = "started"]
  /\ UNCHANGED <<slots, request, owner, chat, context, client, seen>>

\* the goroutine's first critical section
Begin(j) ==
  /\ worker[j] = "started"
  /\ job' = [job EXCEPT ![j].status = "running"]
  /\ worker' = [worker EXCEPT ![j] = "running"]
  /\ UNCHANGED <<slots, request, owner, chat, context, client, seen>>

StartChat(j) ==
  /\ worker[j] = "running"
  /\ job' = [job EXCEPT ![j].progress = Append(@, "agent started")]
  /\ worker' = [worker EXCEPT ![j] = "chatting"]
  /\ UNCHANGED <<slots, request, owner, chat, context, client, seen>>

\* Chat returns: with the answer, or with an error (its own or the context's);
\* a caller's work may also say by its error that it was cancelled
ChatReturns(j) ==
  /\ worker[j] = "chatting"
  /\ \E outcome \in {"ok", "error", "canceled"} :
       /\ outcome = "canceled" => owner[j] = "caller"
       /\ chat' = [chat EXCEPT ![j] = outcome]
       /\ worker' = [worker EXCEPT ![j] = "replied"]
       /\ job' = IF outcome = "ok"
                 THEN [job EXCEPT ![j].progress = Append(@, "response generated")]
                 ELSE job
  /\ UNCHANGED <<slots, request, owner, context, client, seen>>

\* work returns; the service's work runs its deferred cancel first
WorkReturns(j) ==
  /\ worker[j] = "replied"
  /\ worker' = [worker EXCEPT ![j] = "back"]
  /\ context' = IF owner[j] = "service" /\ context[j] = "live"
                THEN [context EXCEPT ![j] = "canceled"]
                ELSE context
  /\ UNCHANGED <<slots, request, job, owner, chat, client, seen>>

Concluded(j) ==
  [job[j] EXCEPT !.status = Verdict(j), !.finished = TRUE,
                 !.result = Verdict(j) = "succeeded", !.error = Verdict(j) = "failed"]

SkipsStatus(j) ==
  IF context[j] = "expired" THEN job[j] ELSE Concluded(j)

\* one critical section: FinishedAt, status, and result or error
Record(j) == Concluded(j)

Conclude(j) ==
  /\ worker[j] = "back"
  /\ job' = [job EXCEPT ![j] = Record(j)]
  /\ worker' = [worker EXCEPT ![j] = "done"]
  /\ UNCHANGED <<slots, request, owner, chat, context, client, seen>>

\* the five minutes of a service job pass, or a caller's own deadline
Expire(j) ==
  /\ worker[j] \notin {"none", "done"}
  /\ context[j] = "live"
  /\ context' = [context EXCEPT ![j] = "expired"]
  /\ UNCHANGED <<slots, request, job, owner, worker, chat, client, seen>>

\* a direct caller cancels the context it passed
CallerCancels(j) ==
  /\ owner[j] = "caller"
  /\ worker[j] \notin {"none", "done"}
  /\ context[j] = "live"
  /\ context' = [context EXCEPT ![j] = "canceled"]
  /\ UNCHANGED <<slots, request, job, owner, worker, chat, client, seen>>

\* the request that posted the job ends: answered 202, or its client gone
RequestEnds(j) ==
  /\ owner[j] = "service"
  /\ worker[j] # "none"
  /\ client[j] = "connected"
  /\ client' = [client EXCEPT ![j] = "left"]
  /\ context' = [context EXCEPT ![j] = OnClientGone(j)]
  /\ UNCHANGED <<slots, request, job, owner, worker, chat, seen>>

\* Get and List return copies
Look(j) ==
  /\ job[j] # NoJob
  /\ seen' = [seen EXCEPT ![j] = job[j]]
  /\ UNCHANGED <<slots, request, job, owner, worker, chat, context, client>>

JobStep(j) == Begin(j) \/ StartChat(j) \/ WorkReturns(j) \/ Conclude(j)

SlotNext == \E r \in Requests : Admit(r) \/ Reject(r) \/ Answer(r)

JobNext ==
  \E j \in Jobs : \/ Post(j) \/ JobStep(j) \/ ChatReturns(j) \/ Expire(j)
                  \/ CallerCancels(j) \/ RequestEnds(j) \/ Look(j)

ServiceNext == SlotNext \/ JobNext

ServiceSpec == ServiceInit /\ [][ServiceNext]_serviceVars

\* A goroutine that can run runs, and Chat returns: its provider calls end with
\* the context, which expires (a caller's work minds its own).  It is assumed
\* that no request without a deadline keeps the provider's lock (registry.go
\* 148) from it for ever.
ServiceFairness == \A j \in Jobs : WF_serviceVars(JobStep(j)) /\ WF_serviceVars(ChatReturns(j))

-----------------------------------------------------------------------------
(* properties *)

\* A token is taken for each request inside its handler and for no other,
\* whether the handler returned an answer, an error, or panicked: neither does
\* the server run out of slots over time, nor does it ever exceed them.
SlotsExact == slots = Cardinality({r \in Requests : request[r] = "chatting"})

\* A job the server started is at work until its time is up: the end of the
\* request that posted it does not cancel it.
OutlivesRequest ==
  \A j \in Jobs : owner[j] = "service" /\ worker[j] \in {"started", "running", "chatting"}
                 => context[j] # "canceled"

\* What a job's record says has happened: one recorded succeeded was answered
\* while its context was live, one recorded failed has failed, one recorded
\* cancelled had its context ended or its work say so, and only the first
\* carries a result and only the second an error.  The converse does not hold:
\* StartBackgroundJob's deferred cancel ends the context of every job of the
\* service first, so no job of the service is ever recorded succeeded.
NoFalseVerdict ==
  \A j \in Jobs : job[j] # NoJob =>
    /\ job[j].status = "succeeded" => chat[j] = "ok" /\ context[j] = "live"
    /\ job[j].status = "failed" => chat[j] = "error"
    /\ job[j].status = "cancelled" => chat[j] = "canceled" \/ context[j] # "live"
    /\ job[j].result <=> job[j].status = "succeeded"
    /\ job[j].error <=> job[j].status = "failed"

\* The copies GET /v1/jobs hands out never run ahead of the job and never
\* contradict it later: their progress is a prefix of the job's, and a copy
\* that shows the job finished shows what it stays.
CopiesHold ==
  \A j \in Jobs : seen[j] # NoJob =>
    LET n == Len(seen[j].progress) IN
    /\ n <= Len(job[j].progress)
    /\ seen[j].progress = SubSeq(job[j].progress, 1, n)
    /\ seen[j].finished => seen[j] = job[j]
    /\ seen[j].finished <=> seen[j].status \in Terminal

\* A job outlives its request, its record claims no outcome it did not have, and
\* the copies handed out stay true of it.
JobsHonest == OutlivesRequest /\ NoFalseVerdict /\ CopiesHold

\* A job that was accepted reaches a final status, whatever Chat answers and
\* whenever its time runs out.
EveryJobFinishes ==
  \A j \in Jobs : (worker[j] = "started") ~> (job[j] # NoJob /\ job[j].status \in Terminal)
=============================================================================
