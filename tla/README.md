# TLA+ verification of FuzeCLI

FuzeCLI is a coding assistant: it turns a request into provider calls, the
answers into edits of a workspace, and serves all of it to a command line, a
terminal UI and a local web app.  This directory holds TLA+ models of the parts
of it that concurrency, failure and order make hard to test, the TLC
configurations that check them on small instances, and proofs, checked by the
TLA+ proof system, of what matters most.  Paths below are relative to the root
of the repository (`src/` in `PROJECT.json`).

Check a model with `tlc -config X.cfg M` and the proofs with `tlapm M.tla`.

## The system

| Component | State | Operations | Interacts with |
|---|---|---|---|
| Edit transaction (`internal/transaction`, `agent/executor.go`) | first images of the files, list of changed files, closed flag; the files and their temporary names | Capture, Write, Delete, Rollback, Commit; `Executor.Execute` | called by chats, the agent loop and the `workspace.apply_edits` tool, several at once |
| Agent run (`agent/runner.go`, `tool_registry.go`, `tool_protocol.go`) | messages, seen call ids, results, limits | ask the model, normalise and validate its answer, authorise and run a batch, report it | provider registry, tool handlers; `api/agent.go` and `app/agent_approval.go` authorise |
| Provider registry (`provider/registry.go`) | one mutex and one backoff per provider, telemetry | Send, Stream, retries, fallback, continuation | every sender; provider clients; router |
| Provider clients (`provider/compatible.go`, `catalogruntime`, …) | none beyond a connection | Send, Stream, Models | HTTP services |
| HTTP API (`api/server.go`, `service.go`) | service lock, event subscribers, chat slots, limiter buckets | chat, agent run, jobs, events, files, settings | all others |
| Rate limiter and slots (`api/rate_limit.go`) | bucket per client and endpoint, slot channel | allow, withChatSlot | HTTP API |
| Background jobs (`platform/jobs.go`) | map of jobs | Start, Get, List | `Service.StartBackgroundJob` |
| Studio events (`service.go` 74-102, `server.go` 246-270) | a channel per subscriber | emit, subscribe, forward, unsubscribe | chats and agent runs emit, the web app listens |
| Workspace store (`workspace/`) | SQLite session, `state.json`, snapshots | messages, touched files, hashes, snapshots | chats, agent runs |
| Generation and planner (`generation/`) | the saved project plan, automatic snapshots | parse, resolve and apply a plan, batches | app, API |
| Application (`app/`) | configuration, profile, store, registry | ask, planned ask, chat, terminal UI | all others |
| Workbench, previews, installers (`api/workbench.go`, `runtime_*.go`) | sessions and processes | start, relay, stop | web app |
| GitHub (`api/github.go`, `github/`) | sign-in state, token | sign in, queries | configuration |
| Tool handlers (`agent/tool_runtime.go`, `tier1..4_runtime.go`) | managed processes, agent state file | 80-odd tools | agent run |
| Configuration, profile, project memory (`config/`, `profile/`, `platform/memory.go`) | one file each | load, change, save | app, API, tools |
| Indexes, verification, diagnostics, git, MCP, security | none, or read-only caches | scan, run a command, format | app, API, tools |

What is hard here, and what the properties are for:

* **Concurrency.** The API runs chats, agent runs and jobs at once over one
  workspace, one registry and a handful of state files, most of which have no
  lock.
* **Failure in the middle.** Edits, rollbacks, provider calls, continuations and
  tool batches all have several steps, each of which can fail.
* **Order.** Deferred cancels before verdicts, a clock read before a lock, events
  behind a full channel, first and last images of a file.
* **Time.** Backoffs, deadlines, windows, and requests that were cancelled while
  they wait for something.
* **Consent.** Which calls an approval covers, and that a denied run stops.

`PROJECT.json` lists each hazard at its line, with the properties that would
catch it or the reason why none does yet.

## The modules

### EditTransaction, AtomicEdit (`transaction.go`, `executor.go`)

`EditTransaction` has one action per system call of `Execute`: capture, stage
and publish a write, remove, verify, and the same backwards for a rollback.
`disk`, `txTemp` and `rbTemp` are the files and the two temporary names
`transaction.go` derives from a path; `snapshots` and `changed` are the fields of
`Transaction`; `pc`, `at`, `why`, `rbErr` are the control of `Execute`.  Every
call can fail (`...Fails`), a failed write can leave a torn temporary file, and
`Crash` stops all calls in flight.  Calls run concurrently without any lock, as
they do in the server.

`AtomicEdit` is the abstract specification: a call takes effect in one step when
it returns, entirely or not at all; only a failed rollback or a crash leaves
part of a plan, each file whole.  `EditTransaction` implements it
(`ImplementsAtomicEdit`) under the mapping that shows the files of a call in
flight as they were.

| Run | Question | Bounds |
|---|---|---|
| `edit_one` | Is a call all or nothing, whole for readers, ready to be rolled back, and what AtomicEdit promises, alone and beside a call on another file? | one call: every plan of up to three entries over two files (paths repeat), two faults or crashes; two calls: up to two entries for one file each, one fault |

Two faults suffice to fail an edit and then its rollback; a third entry for a
path is needed to tell the first image from the one before the last.

**Proved** (`EditTransactionProofs`, every number of calls, files, contents, plan
lengths and faults): `TypeCorrect`, `ExecuteAllOrNothing`, `AlwaysRollbackReady`
(readers see whole files, and what was changed can be undone), `RollbackRestores`, and
the refinement: `AtomicEditImplemented`.  None of the invariants is inductive.
The inductive invariant `IInv` adds what the code relies on without saying: for
each program counter, which entries have been captured, that the files not yet
reached by the current pass hold their originals and the others the effect of
the last entry that was applied, that during a rollback the files above `at` are
restored and those below are not yet, and that the temporary files of disjoint
plans are distinct.  The proof has one step per action and under it one per
conjunct the action can disturb; the frame lemma says that a step of one call
does not touch the files of another.  The refinement proof maps each action to a step
of `AtomicEdit`: the steps in the middle of a call stutter, because the mapping shows
its files as `IInv` says they were; a call that returns takes effect; a failed rollback
or a crash breaks off.  The assumption is that the plans of calls
in flight are disjoint, which the properties state as a hypothesis: without it
they are false (see the disagreements below).

### AgentRun (`runner.go`, `tool_registry.go`, `tool_protocol.go`, `api/agent.go`, `app/agent_approval.go`, `app/agent_chat.go`)

One run of the tool loop.  A model answer is an envelope: the fields
`normalizeChatResponse` and `ValidateAgentResponse` look at, with a batch of
calls; a call is its id, its tool, whether it validates, and the paths it writes
and deletes.  `Normalize` and `ValidResponse` decide as the code does whether an
answer acts, ends the run or fails it; `StartBatch`, `RefuseCall`,
`AcceptCall`, the three `Authorize...` actions, `HandlerSkipped`, `RunHandler`
and `Report` take a batch through the registry.  `results` are the results of the
batch at hand, which become the next message of `conversation`; `log` is the run's
own list, which limits and answers are drawn from: the code keeps both.  The
`Answer...` actions are what the API or the terminal tells its caller and stores,
with the stores that fail on the way.  Approvals are arbitrary sets given with
the request (API) or answers given on the spot (terminal).  The client may leave
at any moment; the provider, a handler and the user may never answer.

| Run | Question | Bounds |
|---|---|---|
| `agent_run` | Does a tool act only with consent, once per id, within the limits; is each request of the model followed by all its results; do ambiguous answers do nothing; is the caller told what its edits did; does every run end, or wait for others? | two steps, batches of up to two calls plus one over the limit, eight kinds of call, every envelope without calls, all approvals, three callers |

Two steps let an id come back, a denial follow a success and the limits be
reached in both places where the code checks them.

**Proved** (`AgentRunProofs`, every set of tools, paths, envelopes and callers, batches
of any length, all limits): every safety property of the run and `TypeOK`.  Hardly
any is inductive.  `ConsentHonoured` has
three parts: `ConsentedOnly` needs that a handler is only reached with consent
(`Cleared`) and that consent is never withdrawn; `OncePerCall` needs that every executed
call is remembered and that the one at hand, already remembered, has not been executed
(`Remembered`); the limit on calls needs that there is room for what is left of a batch
(`Room`), which is why the code counts the batch before its first call; `DenialIsFinal`
needs that an outcome is only recorded by a run that is over (`Over`).  `ModelInformed` is about
the messages, which are built batch by batch: `TalkInv` says that every request but the
last is answered by the message after it (`Paired`), that the results so far and what is
left of the batch are the calls of the last request (`InStep`), and that conversation and
log hold the same results (`SameResults`).  `AnswerHonest` needs `HonestInv`: a denied call
is the last of its run (`DenialsLast`), the results name the files that edits with a result
changed and nothing else is marked as touched (`Accounted`), and what each answer says of
them (`Answered`), which uses that only a handler that ran succeeds (`Truthful`).
The lemmas `Ending`,
`Recording`, `Denying` and `Allowing` treat the kinds of steps, the lemmas after them
each action.  The assumptions are `EnvelopeAssumption`, that answers are envelopes, and
`LimitAssumption`, the ranges of limits the runner accepts.

An edit may change files and still return an error: its rollback failed, or its result was
larger than the registry takes.  These files (`unreported`) are in no answer, and neither
are those changed by the other tools that write (`workspace.apply_patch`,
`workspace.rename`, `docs.generate`), because both callers read the editor's results only
(`agent.go:98`, `agent_chat.go:98`).

### RateLimiter (`rate_limit.go`)

This module and the next two are parts of one process that share no state.  Their proofs
are in one module, `ServerProofs`, which extends all three; hence the names
`LimiterInit`, `ServiceInit`, `BusInit`.

`ReadClock` is separate from `Serve`/`Refuse` because the window is computed
before the mutex is taken.  `count` and `window` are the bucket, `Prune` the
clean-up of the full map; `admitted` is a history.

| Run | Question | Bounds |
|---|---|---|
| `rate_limiter` | Is only a client that has spent its allowance refused, and can only late requests let more through? | two clients, six requests, three windows, limit two |

**Proved** (`ServerProofs`, all requests, keys, limits, thresholds and numbers of
windows): both properties and `LimiterTypeOK`.  `RefusedOnlyWhenSpent` follows from `Counted`:
a bucket never counts more requests than were let through in its window.
`CapUnlessLate` needs `NearlyHeld`: in the present window a bucket misses no more
than the late requests made it forget.  Pruning keeps that because it only drops buckets
of windows before the request's, and `NoFuture` says that no bucket is of a window later
than the present one.  A `Tick` turns `NearlyHeld` into the bound on the window that ends.

### ChatService (`server.go`, `service.go`, `jobs.go`)

Chat requests and background jobs over the chat slots: admission, the job's own
context with its deadline, the chat it starts, the deferred `cancel`, the verdict
`JobRunner` draws from error and context, the three critical sections of a job
and the copies readers take.  A job may also be run with a caller's context, as
`JobRunner`'s tests do (`CallerCancels`).

The properties of this module and the next are checked by `server_state` (see `ServerState`).
What a record claims is true of the job's work.  The converse is false: every answered job of
the service is recorded cancelled (disagreement 5).

**Proved** (also in `ServerProofs`, any sets of requests and jobs, any number of slots):
`SlotsAlwaysExact`, `JobsAlwaysHonest`.  The slots are counted by an induction over the
requests inside a handler (`SlotInv`).  What is said of a job needs `Stage`, which ties
its record to the step its goroutine is at; `Honest`, which says why its verdict will
claim nothing that did not happen; and `Copied`, that the last copy handed out is a prefix of the record and equal to it once
finished.  The one assumption is that the value for "no such job" is none.

### StudioEvents (`service.go` 57-102, `server.go` 246-270)

Emitters and subscribers over bounded channels.  `Emit` is one critical section;
a handler forwards, notices that its client left while events wait, and
unsubscribes, which removes and closes its channel.

**Proved** (also in `ServerProofs`, any emitters, connections, events and capacity):
`BusTypeCorrect`, `NeverSendsOnClosed`, `StreamsAlwaysFaithful`.  The proof is about a
client's *stream*, what it was sent followed by what waits in its channel: forwarding leaves
it as it is (`HeadMoves`) and an event is added at its end (`AppendMoves`) or dropped.
Order is inductive with `Reached`, no event of the stream is ahead of its emitter; that nothing
is missing, with `Phases`, who streams is subscribed.

### ProviderRegistry (`registry.go`, `router.go`)

`Send` for concurrent callers.  A provider call has one of eight outcomes, those
the code distinguishes; time is the per-provider state *ready / interval /
backoff*; routing is any order of the fallback providers that are not backing
off.  `Acquire`, `Wait`, `WaitCut`, `Call` (repeat in a weaker form, retry, or
settle) are `sendWithRetry` under its lock; `Continue`, `NextProvider`, `Fail`,
`Answer` are `Send` around it.  A continuation can be needed after any answer
(whether a text is finished is data).

| Run | Question | Bounds |
|---|---|---|
| `provider_send` | Is a provider called by one caller at a time and never in its backoff, does a refusal stay with its provider and any other fault visit all, is no lock left behind? | two callers, two providers in a fixed fallback order, two attempts, one continuation; the callers are symmetric |

**Proved** (`ProviderRegistryProofs`, all callers, providers, fallbacks that name a
provider once, and all numbers of attempts and continuations): the safety properties
of `provider_send`, that an empty answer is never a success, and `TypeOK`.  `OneAtATime` says nothing of the lock; it follows from
`Holding` (who waits or calls holds the lock of its provider) and `Cooled`, which is
kept because only the holder heats a provider up.  `LocksReleased` is the converse.
`Placed` keeps a caller within its route, so that the provider it locks exists.
The parts of `FallbackFits` need `Replied`: a named request notes only
passing errors on its way (`busy`, `model`, `expired`), because `TriesNext` lets no
other past its named provider.  One lemma each treats steps outside `sendWithRetry`,
inside it, leaving it and ending the request; the lemmas after them each action.

### ProviderStream, ProviderCalls (`registry.go` 898-966, `compatible.go`, `catalogruntime/runtime.go`)

`ProviderStream` is `continueStream` between a source of chunks and its consumer, over
several rounds.  Some pieces are blank, for the code trims the text before it decides whether to
continue it or to ask again.  The two kinds of source differ in how they end when their context does:
`compatible.go` says so, `catalogruntime` closes its channel.  `ProviderCalls` puts Send
and the stream under one next-state relation (a behaviour is about one of them) and states
the fairness of both.

| Run | Question | Bounds |
|---|---|---|
| `provider_calls` | Does every Send return unless a provider never answers, does the consumer of a stream get what the rounds said, piece by piece, once and in order, with one ending, and does the stream end? | Send: two callers of one provider, from the strict form on; streams: two pieces a round, blank or not, three continuations |

One provider makes its callers contend most; three continuations let a text be carried
over, added to and carried over again.

**Proved** (also in `ProviderRegistryProofs`, any number of pieces and continuations):
`StreamLosesNothing`, that `NothingLost` holds of the stream beside `Send`: the consumer got
the pieces of every round in their order, and a continuation carries all of the text before
it.  It needs `Rounds`: an answer is continued only when its text is not blank, asked for
again only when it is, and then never continued.

### ToolHandlers, AgentTools (`tool_registry.go`, `fuzecli_tools.go`, `tool_runtime.go`, `tier1..4_runtime.go`)

`ToolHandlers` describes each tool by what its handler may do: which kinds of state it
changes (files, a commit, a remote, an account, ...), which kinds of path it shows the
content of, which arguments it refuses, and, separately, what `toolRequiresApproval`
says of its name, action and `dry_run`.  A path below a linked directory (`linked`) passes
the resolver and may lead to any kind; the searches do not resolve the paths they walk.  `AgentTools` is `ToolRegistry.Execute` around it:
normalise, validate, authorise, handle.  The tools that look at a file and act on it later
take those steps one by one, with a user who saves and stages files in between.

| Run | Question | Bounds |
|---|---|---|
| `agent_tools` | Does what a tool changes agree with what the approval table says of it, does a preview change nothing, is no hidden file shown but by the tools that may, no new file written over the user's, does what the user staged stay staged? | every tool with each of its actions, previewed or not, in each spelling, each kind of path; one move of the user |
| `agent_tools_links` (violated) | `README.md`: symlink escapes are rejected | one search of the whole workspace |

One move of the user between two steps of a handler is what a check before a change
can miss.

The properties name their exceptions.  What goes unasked by the code's own table
is FuzeCLI's records, the stored profile (`profile.update`), the project's checks and the
visit of a page.  What may be shown beyond visible files is listed in `MayShow`:
`Searches` and paths below links show what they meet, `Diffs` what git tracks, and
`RecordReads` FuzeCLI's own records under `.aicli`.  `StagedStays` is about the index: what
the handler saw staged when it looked, and any other path whenever the user staged it,
is still staged at the end.

**Proved** (`AgentToolsProofs`, every set of calls, of any tool and any arguments, and any
number of moves): `TypeCorrect` and the four properties of the run.  The first half of the
proof is about data.  An outcome of a handler is `Honest` if what it changes needs no
approval or the call requires one, if a preview changes nothing, and if it shows visible
paths only.  There is a lemma for each handler that says so of every valid call, by cases
over its actions; the case distinctions of `Dispatch` are over ranges of names, so
`Dispatched` first says which handler a tool of each family reaches.  It is the code's own
argument, which it makes nowhere in one place: `toolRequiresApproval` knows names, actions
and `dry_run`, the handlers read them again, and `DispatchHonest` is that the two readings
agree.  Validation is needed: an action no handler knows has to be refused before.  The
second half is the invariant of `Execute` (`Stages`): up to its handler a call has changed
and shown nothing, only valid and admitted calls reach one, and the handlers of several
steps (`Acts`) are of tools that require approval and are no preview.  No assumption
beyond the module's own is made.

### Processes (`runtime_preview.go`, `run.go`, `runtime_install.go`, `workbench.go`, `github.go`, `tier1_runtime.go`)

A request is a handler at a step of its code (`at`) with its process (`proc`), whether it
was killed, whether it left a child that holds its pipes, and its build directory.  The
preview manager's lock and current command, the tables of terminals and of managed
processes, the sign-in flag and the token are variables of their own.  `RunArgs` forms
the compilers' arguments and `TemporaryBuildDirectory` reads the directory back out of
them, as `run.go` does.  A source whose name is only an extension (`Nameless`: `.f90`,
`.cob`) has an empty stem, its output is the directory itself, and the directory above it
is the one that is looked at; such a run leaves its directory, which `NothingLeft` excepts.

| Run | Question | Bounds |
|---|---|---|
| `processes` | Is no process left that nobody will end or wait for, no build directory but a nameless source's, is there one sign-in at a time, does every handler end unless a child holds its pipes? | two requests of any of fourteen kinds, five projects, thirteen languages |

The managers hold one process or a table of independent ones; two requests let a start
or stop meet the goroutine that forgets the other's process.

**Proved** (`ProcessesProofs`, any number of requests, any of the kinds and languages, any
projects): `TypeCorrect`, `NothingStaysBehind`, `SignInsAreExclusive`.  `NothingLeft` is not
inductive.  A preview's process is known because `current` names it, and that a starting
preview does not take the place of a living one depends on the manager's lock: `Locked` says
that who detects a runtime holds the lock and finds `current` empty, and who waits for
its process holds the lock and is `current`.  `Owned` says that a process whose handler
returned is `current` or in the process table, unless it ended or was killed; the goroutine
that forgets a preview forgets only one that was reaped (`IsCurrent`).  `Sound` ties the
place of a handler to its process and its directory: a run's directory is the one
its deferred removal will find, for each of `runSpec`'s languages but the nameless ones
(`TemporaryBuildDirectory` reads it out of the arguments).  `Fresh` says that the records of requests not yet made are
blank, and `Signing` that who signs in is alone and the flag says so.  A step changes the
record of one request and kills at most one other's process, so each handler has one lemma
about its own record and `RecordsKept`, `OwnersKept` and `SigningKept` do the rest.  The assumption is that kinds and
languages are among those the code has; the type invariant gives every field of a request
its range, which the proof needs and the runs check.

### Verification, ProjectPlan, TerminalTurn, EditTurns (`verify.go`, `command.go`, `app.go`, `planner.go`, `service.go`, `terminal.go`, `generation.go`, `generation/transaction.go`, `snapshot.go`)

How a prompt becomes committed files.  `Verification` chooses the commands for a workspace
and an edit and asks `Authorize` whether each may run.  `ProjectPlan` is `aicli ask`, with
its saved project plan and repair loop, and the Studio's chat; it takes
`Executor.Execute` from what `AtomicEdit` promises.  `TerminalTurn` is the terminal's own
way, which does not use `Execute`: snapshot, apply, verify, record, restore, one file
operation a step, beside the snapshot and restore commands.  `EditTurns` composes them: a
behaviour is about one surface, runs may crash at any step, and the next run finds the
saved plan.

| Run | Question | Bounds |
|---|---|---|
| `edit_turns` | Does a failed terminal turn leave the workspace as it was, with a recovery point first; is what is reported applied verified; is what the plan calls completed written; does the Studio stop at a damaged workspace; does saved work survive crashes; do files come after their dependencies; does every run return, or wait for others? | three files, five project plans (reversed order, cycles, declared done, malformed), ten edits, one repair, two runs, one fault; two terminal turns of four plans with three faults; six toolchains |
| `edit_turns_negative` (violated) | `app.go:338`: what is reported applied was applied, whatever the number of repairs | same, with -1 repairs |
| `edit_turns_python` (violated) | `README.md`: Python projects are verified automatically | same |

A cycle of two files and a third that needs one of them is the least plan where a batch
must be forced and an order still holds; three faults let an operation, its restoration
and a command fail in one behaviour.

**Proved** (`EditTurnsProofs`, every finite set of files, workspace, plan, edit and project plan,
any number of runs, turns and faults, and any integer as the number of repairs): `TypeCorrect`
and all seven safety properties of `edit_turns`.  A negative number of repairs is one the
program may have (`config.go:386`): then no pass over an edit runs at all, what `ask` and the
Studio call applied or completed was not written (`edit_turns_negative`), and all that
`AppliedIsVerified` says of them is that they change no file; `CompletedWereWritten` is then
about complete plans only.  The two halves share only the workspace's toolchain,
so each has an invariant of its own.

`TurnInv`, for a terminal turn: its archive lists and holds every file of its plan
(`SetListed` says that a listing of a finite set misses none), only files of its plan were
changed since, and whatever differs is among what a rollback has yet to undo (`ToUndo`, unless an
undo failed) or to restore (`ToRestore`).
`PlanInv`, for `aicli ask` and the Studio's chat: a batch in progress belongs to the plan at
hand, which is the one saved (`Following`), and its marks are made after its edit was
written and verified (`Recording`).  `DependenciesGoFirst` needs `FirstTwo` to choose among ready files
when there are any; that an unsound edit is never reported applied needs `DetectIsHonest`,
by cases over the toolchains.

The proofs changed two things.  The guards of `Detect`'s cases overlapped, and
TLC had taken the first; they are disjoint now, in the order of `verify.go`.
And `RecoveryPointFirst` had spoken only of turns that were failing; it now holds of every
step of a turn, and excuses the user's own restore command, which writes in place and
keeps nothing.

Assumed: the workspace has finitely many files (`PathsAssumption`), a manifest parses, does not, or
cannot be read (`ProjectsAssumption`), a prompt that is planned is not one that is not
(`PlannerAssumption`: `Simple` prompts skip the planner; the number of repairs is an integer), and a terminal plan is not empty
(`TermPlanAssumption`; an empty one returns before the first step).

### LocalState (`config.go`, `store.go`, `memory.go`, `tier4_runtime.go`, `tool_runtime.go`)

The stores FuzeCLI keeps for itself: six, each saved by its own variant of "write a
temporary file and rename it", and the database's retried writes.  A temporary name is
bound to an inode and a writer holds the inode it opened, so two writers of one name meet
in one file, whatever it is called by then.  A content is the set of operations whose
effect it holds, or torn, or empty.  A behaviour is about one store.

The properties are checked by `server_state` (see `ServerState`).

**Proved** (`LocalStateProofs`, any requests and processes, any number of operations,
attempts and faults): `TypeCorrect`, `UpdatesAlwaysKept`, `MemoryAlwaysWhole`, `RowsAlwaysKept`.
Of a file, `Apart` says that temporary names lead to inodes of their own and never to the
published one; `Held`, that a writer alone with its name (`Alone`: always in project memory,
elsewhere until two operations overlap) finds under it what it wrote; `Covered`, that what it is about to save
holds everything acknowledged.  `Apart` is why a crash or a failed rename can leave a
temporary file behind without harm.  `FreshIsFree` counts: there are more inodes than
names and writers, so a new file has one of its own.  Of the database, `RowInv` says which
rows an operation in progress has stored, which makes its repetition harmless.

### ServerState (`ChatService`, `StudioEvents`, `LocalState`)

What the server keeps between requests, under one next-state relation.  The slots, the jobs,
the bus and the stores share no variable and none waits for another, so a behaviour is about
one of them; the theorems about each are in `ServerProofs` and `LocalStateProofs`.

| Run | Question | Bounds |
|---|---|---|
| `server_state` | Slots: is every one given back?  Jobs: do they outlive their request, does a record claim only what happened, do copies stay true, does every job finish?  Bus: is no event sent to a closed channel, is each request's order kept, does only a full channel lose events, is what it holds delivered?  Stores: without overlap, does every one keep what was acknowledged through crashes, failures, first runs and migrations, is project memory readable whatever overlaps, are rows stored once and kept, does every operation return? | three requests, two slots; two jobs; two emitters of two events, two connections, capacity two; two requests on a store, three operations beside the state as found, one fault, eight attempts |

Three requests contend for two slots.  Jobs interact only through the runner's map, so two
are enough.  Four events meet channels of two, so one emitter's events overflow before,
between and after the other's.  Three operations let two overlap and a third read what they
left.

## Fairness

* `EditTransaction`, `RateLimiter`, `AgentTools`, `ProviderRegistry`: none; their
  properties are about safety.
* `AgentRun`: weak fairness of the run's own steps (`Step`).  Nothing is assumed of the
  provider, the handlers, the user or the client: `EveryRunEnds` says that a run ends
  or comes to wait for one of the first three for ever.
* `ChatService`: weak fairness of each job's own steps and of its chat's return, which
  the deadline of the job's context brings about.  It is assumed that no request without a
  deadline holds the lock of the chat's provider for ever (disagreement 14).
* `StudioEvents`: a connected handler forwards, one whose client left unsubscribes.
* `ProviderCalls`: a caller's own steps, strong fairness of taking the mutex
  (Go's mutex hands over to a waiter that has starved), time, and that a call ends once its
  context has (`CutShort`, `CutOff`).  A provider need not answer: the clients are
  `http.DefaultClient`, which has no timeout (`compatible.go:26`), and `aicli ask` passes
  `context.Background()` (`main.go:309`).  `CallsReturn` says that a `Send` returns and a
  stream ends unless a provider never answers, its own or the one whose lock is waited for.
* `Processes`: handlers and goroutines go on, deadlines pass, a killed process dies.
  Programs end, children close their pipes and clients leave only if they please.
* `EditTurns`: the run in progress takes its own steps.  Where it waits for a provider, for
  the user's answer to `ui.Confirm`, or for a verification (whose commands are killed after
  their time, but not the children that keep their pipes) nothing is assumed (`AskWaits`,
  `TermWaits`), and `TurnsEnd` excepts runs that wait there for ever.  Crashes and new
  runs are not fair.
* `LocalState`: an operation in progress takes its steps.  The mutex has no other
  waiter for ever, since operations are finite.

## Disagreements found

Three have a run that expects a violation, and are entries of `findings`:

1. `lintPython` forms a command that `Authorize` refuses, so no edit of a `.py` file
   passes verification in a Python workspace (`edit_turns_python`; `verify.go:180`
   against `README.md:45`).
2. Searches read through symbolic links, and a path deeper below a linked directory passes
   `Resolve`, so a tool may return a file outside of the workspace (`agent_tools_links`;
   `tool_runtime.go:215`, `generation.go:346` against `README.md:42`).
3. A negative `self_correction_attempts` in the configuration file makes `ask` and the
   Studio report an edit applied that was never tried (`edit_turns_negative`;
   `config.go:386`, `app.go:339` against `config.go:173`).

The models contain, and TLC finds when asked, the following; no run is spent on them,
and the properties state what does hold:

4. A rollback overwrites what another call committed to the same file in between
   (`executor.go:83`; `QUALITY_GATES.md:39`).  Properties of `EditTransaction` are about
   calls on different files.
5. An answered background job is recorded as cancelled, because its work cancels
   its own context before `JobRunner` looks at it (`service.go:595`;
   `platform_test.go:60`).  `NoFalseVerdict` says what a record claims, not what it omits.
6. A catalog stream cut by its context is reported as finished, empty or not
   (`registry.go:945`; `QUALITY_GATES.md:35`).
7. `workspace.rename` replaces a destination that appeared after it looked
   (`tier1_runtime.go:212`; `fuzecli_tools.go:42`).
8. A disconnect of GitHub is undone by a request that read the token before it
   (`github.go:76`; `github.go:66`).
9. `aicli chat --safe` does not stop deletions of providers other than FuzeAI
   (`terminal.go:573`; `main.go:896`).
10. `App.ask` goes on repairing after a failed rollback (`app.go:344`), which the
    Studio's chat does not (`DamageStops`); a repaired plan is applied without a new
    confirmation (`app.go:385`).
11. Overlapping saves of `state.json`, `agent_state.json` and `config.yaml` lose
    updates and may leave a torn file; a session saved after a failed read drops the
    hashes (`app.go:396`).
12. A request that read the clock before a window's end restarts the next window's
    count, so a client may exceed the cap of `docs/SECURITY.md` by a window's limit
    for each such request; `CapUnlessLate` states exactly this bound.
13. Background jobs chat outside the chat slots (`StartChat` takes none).
14. A cancelled request waits for its provider's mutex as long as another caller
    holds it (`Acquire` does not look at `context`), and a request without a deadline holds
    it as long as the provider pleases: a provider that never answers blocks every caller.
15. `profile.update` rewrites the stored profile without the user's approval
    (`tier4_runtime.go:271`), which `profile.reset` needs; `ChangesApproved` excepts it.
16. `database.migrate` runs the given SQL in a transaction, but a `COMMIT` within it ends
    that transaction, and what came before stays when a later statement fails
    (`tier2_runtime.go:260`); `Migrate` has both ends.
17. The build directory of a source named `.f90` or `.cob` stays (`run.go:169`, `194`, `287`);
    `NothingLeft` excepts it.
18. `git.commit` refuses a selected path that is staged when it looks, but commits one that
    the user stages right after, and a commit that fails leaves the selected path staged;
    `StagedStays` is about everything else.
19. Files that an edit changed before it returned an error, and those of the other
    tools that write, are in no answer of an agent run (see `AgentRun`).

## What is only model-checked

All liveness properties, `EveryRunEnds`, `EveryJobFinishes`, `Delivered`, `CallsReturn`,
`RequestsEnd`, `TurnsEnd` and `WritesEnd`: their fairness speaks of ENABLED, which the
prover does not have.  Every invariant and action property of the passing runs is a
theorem too.  Runs are bounded as the tables say.  `EditTurns` and `LocalState` are about one
surface or store at a time: what two surfaces do to one workspace at once is
`EditTransaction`'s subject.

## Plan

In order of weight:

1. `RequestBudget`: `adaptRequest`, `trimProviderMessages`, `trimHistory`,
   `continuationRequest` as operators, against a reference definition.
2. `Registry.Stream`'s retry and fallback before the first chunk, composed with
   `ProviderStream`.
3. `Telemetry` and the router's scoring; `SafePath`: path validation over trees with links.
4. The file endpoints and uploads of the API beside edits.

## Not modelled, and why

Pure I/O and formatting (screens, reports, HTTP encodings, YAML and JSON texts),
scans of the file system (indexes, runtime detection, ignore rules), wrappers of
one command (git), the two probes of the workbench that run without a deadline
(`workbench.go:207`, `258`), `UpdateMemory` (`memory.go:97`: an unlocked read and write that
nothing calls; the model saves memory as a whole), `ClearMemory`, static data (catalog, web assets), the
per-vendor packages, which are parameters of one client, and `agent/loop.go`, which
the program does not call.  `PROJECT.json` lists every component with its status.
