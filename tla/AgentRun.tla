------------------------------ MODULE AgentRun ------------------------------
(***************************************************************************)
(* Runner.Run (internal/agent/runner.go): the loop in which a model is     *)
(* asked, asks for tools, and is told their results, with the tool         *)
(* registry (tool_registry.go), the approvals of the two callers, the HTTP *)
(* handler agentRun (internal/api/agent.go) and the terminal's RunAgent    *)
(* (internal/app), and what each caller records and answers at the end.    *)
(*                                                                         *)
(* One behaviour is one run.  The model, the user at the terminal, the     *)
(* handlers' results and the client that goes away are nondeterministic;   *)
(* a provider, a handler or the user may never answer.                     *)
(***************************************************************************)
EXTENDS Integers, Sequences, FiniteSets

CONSTANTS CallIds,            \* tool call ids the model makes up
          Paths,              \* canonical workspace paths
          Reading,            \* registered tools that need no approval
          Mutating,           \* registered tools that do, without the editor
          Editor,             \* workspace.apply_edits
          Envelopes,          \* the JSON objects the model may answer with
          Modes,              \* callers: a subset of {"api", "terminal", "none"}
          MaxSteps, MaxToolCalls, MaxToolsPerResponse

Tools == Reading \cup Mutating \cup {Editor}

\* A requested call.  "tool" may be unregistered, "valid" says the arguments
\* pass the tool's schema, "dryRun" that it only previews, or is an action of
\* a mutating tool that only reads; only the editor has files.
Call == [id : CallIds, tool : Tools \cup {"unregistered"}, valid : BOOLEAN,
         deletes : SUBSET Paths, writes : SUBSET Paths, dryRun : BOOLEAN]

\* The fields of a JSON answer: "text" is the response field, "otherText" a
\* field an older checkpoint uses for it, "otherTool" a field such as
\* function_call that may ask for an action.
Envelope == [protocol : {"v1", "other"},
             type : {"final", "tool_call", "error", "chat", "tool_result"},
             text : BOOLEAN, otherText : BOOLEAN, otherTool : BOOLEAN,
             error : BOOLEAN, calls : Seq(Call)]

\* Before the first answer.
NoEnvelope == [protocol |-> "v1", type |-> "none", text |-> FALSE,
               otherText |-> FALSE, otherTool |-> FALSE, error |-> FALSE,
               calls |-> << >>]

ASSUME EnvelopeAssumption == Envelopes \subseteq Envelope
ASSUME LimitAssumption == /\ MaxSteps \in 1 .. 100
                          /\ MaxToolCalls \in 1 .. 256
                          /\ MaxToolsPerResponse \in Nat \ {0}
ASSUME ToolAssumption == /\ Reading \cap Mutating = {}
                         /\ Editor \notin Reading \cup Mutating
                         /\ "unregistered" \notin Tools

VARIABLES mode,       \* which caller runs the agent
          approved,   \* approved_tools of the request
          confirmed,  \* approved_deletions of the request
          yes,        \* terminal answers: the calls whose action the user
          yesDelete,  \*   allowed, and those whose deletions
          cancelled,  \* the request context is done
          pc, step,
          raw,        \* history: the last accepted answer, as it came
          batch,      \* the calls of the accepted answer
          seen,       \* seenCallIDs
          results,    \* toolResults: those of the batch at hand
          log,        \* result.ToolResults: those of the whole run
          conversation, \* what the run added to the messages it sends
          askTools, askDeletes, \* pendingApprovals, pendingDeletions
          outcome,    \* what Run returned
          answer,     \* what the caller answered
          written,    \* written_files: the files it reports as changed
          history,    \* messages it added to the conversation store
          touched,    \* files marked as touched in the workspace store
          edited,     \* history: files changed by editor calls that returned
          unreported  \*   a result, and by those that returned an error

request == <<mode, approved, confirmed>>
consent == <<yes, yesDelete>>
pending == <<askTools, askDeletes>>
ending == <<outcome, answer, written, history>>
files == <<touched, edited, unreported>>
talk == <<results, log, conversation>>
vars == <<request, consent, cancelled, pc, step, raw, batch, seen, talk,
          pending, ending, files>>

PC == {"ask", "send", "call", "authorize", "handle", "report", "returned", "done"}
Outcome == {"none", "final", "failed", "cancelled", "denied"}
Answer == {"none", "ok", "pending", "error", "timeout"}

Init ==
  /\ mode \in Modes
  /\ approved \in SUBSET (IF mode = "api" THEN Mutating \cup {Editor} ELSE {})
  /\ confirmed \in SUBSET (IF mode = "api" THEN Paths ELSE {})
  /\ yes = {} /\ yesDelete = {} /\ cancelled = FALSE
  /\ pc = "ask" /\ step = 0
  /\ raw = NoEnvelope /\ batch = << >> /\ seen = {}
  /\ results = << >> /\ log = << >> /\ conversation = << >>
  /\ askTools = {} /\ askDeletes = {}
  /\ outcome = "none" /\ answer = "none" /\ written = {} /\ history = << >>
  /\ touched = {} /\ edited = {} /\ unreported = {}

-----------------------------------------------------------------------------
(* The protocol (tool_protocol.go, runner.go).                             *)

AsFinal(e) == [e EXCEPT !.protocol = "v1", !.type = "final", !.text = TRUE,
                        !.error = FALSE, !.calls = << >>]

\* Mutated forms of operators below, as a bug in their line would make them.
AnyDelete(c) == c.deletes # {}
SpentOnly(n) == Len(log) >= MaxToolCalls
SuccessesOnly(answers) == SelectSeq(answers, LAMBDA r : r.status = "ok")
CarriesOn == pc' = IF Len(batch) > 1 THEN "call" ELSE "report"

\* An answer in an older envelope counts as final text only when nothing in
\* it can ask for an action.
MayAct(e) == e.type \in {"tool_result", "error"} \/ e.calls # << >> \/ e.otherTool
Normalize(e) ==
  IF e.protocol = "v1" /\ e.type # "chat" THEN e
  ELSE IF e.type = "tool_call"
       THEN IF e.calls # << >> THEN [e EXCEPT !.protocol = "v1"] ELSE e
  ELSE IF ~MayAct(e) /\ (e.text \/ e.otherText) THEN AsFinal(e)
  ELSE e

Distinct(calls) ==
  \A i, j \in 1 .. Len(calls) : i # j => calls[i].id # calls[j].id

ValidResponse(r) ==
  /\ r.protocol = "v1"
  /\ \/ r.type = "final" /\ r.text /\ r.calls = << >> /\ ~r.error
     \/ r.type = "tool_call" /\ r.calls # << >> /\ ~r.text /\ ~r.error
          /\ Distinct(r.calls)
     \/ r.type = "error" /\ r.error /\ r.calls = << >>

\* toolRequiresApproval: a preview needs none.
RequiresApproval(c) == c.tool \notin Reading /\ ~c.dryRun

\* toolRequestContainsOnlyDeletes
OnlyDeletes(c) == c.deletes # {} /\ c.writes = {}

\* What is left of the caller's question about the tool once deletions are
\* confirmed: deleting confirmed paths only needs no second approval.
NeedsToolApproval(c) ==
  RequiresApproval(c) /\ ~(c.tool = Editor /\ OnlyDeletes(c))

-----------------------------------------------------------------------------
OverBudget(n) == Len(log) + n > MaxToolCalls
AtStepLimit == step = MaxSteps
Remember(c) == seen' = seen \cup {c.id}
NextStep == step' = step + 1
AfterDenial == pc' = "returned"
Reported(answers) == answers

Return(what) == pc' = "returned" /\ outcome' = what
KeepCaller == UNCHANGED <<answer, written, history>>

\* The messages a step of the loop adds: the model's answer as it came, with
\* its calls, and the results of its calls as a message of the user.
AssistantMessage(calls) == [role |-> "assistant", calls |-> calls, results |-> << >>]
ResultMessage(answers) == [role |-> "user", calls |-> << >>, results |-> answers]

\* The client disconnects, or the terminal session's deadline passes; once Run
\* has returned nothing looks at the context any more.
Cancel ==
  /\ pc \notin {"returned", "done"} /\ ~cancelled
  /\ cancelled' = TRUE
  /\ UNCHANGED <<request, consent, pc, step, raw, batch, seen, talk, pending,
                 ending, files>>

\* Everything but pc and what Return sets.
KeepRun == UNCHANGED <<request, consent, cancelled, raw, batch, seen, talk,
                       pending, files>>

StepLimit ==
  /\ pc = "ask" /\ AtStepLimit
  /\ Return("failed")
  /\ KeepCaller /\ KeepRun /\ UNCHANGED step

StopsCancelled ==
  /\ pc = "ask" /\ ~AtStepLimit /\ cancelled
  /\ Return("cancelled")
  /\ KeepCaller /\ KeepRun /\ UNCHANGED step

\* Send is called with the conversation so far.
AskModel ==
  /\ pc = "ask" /\ ~AtStepLimit /\ ~cancelled
  /\ pc' = "send"
  /\ KeepRun /\ UNCHANGED <<step, ending>>

\* The provider failed, was cancelled, or answered nothing or no JSON.
SendFails ==
  /\ pc = "send"
  /\ Return(IF cancelled THEN "cancelled" ELSE "failed")
  /\ KeepCaller /\ KeepRun /\ UNCHANGED step

RejectResponse(e) ==
  /\ pc = "send"
  /\ ~ValidResponse(Normalize(e))
  /\ Return("failed")
  /\ KeepCaller /\ KeepRun /\ UNCHANGED step

Finish(e) ==
  /\ pc = "send"
  /\ ValidResponse(Normalize(e)) /\ Normalize(e).type \in {"final", "error"}
  /\ NextStep
  /\ raw' = e
  /\ Return(IF Normalize(e).type = "final" THEN "final" ELSE "failed")
  /\ KeepCaller
  /\ UNCHANGED <<request, consent, cancelled, batch, seen, talk, pending, files>>

TooMany(calls) == Len(calls) > MaxToolsPerResponse \/ OverBudget(Len(calls))

RefuseBatch(e) ==
  /\ pc = "send"
  /\ ValidResponse(Normalize(e)) /\ Normalize(e).type = "tool_call"
  /\ TooMany(Normalize(e).calls)
  /\ NextStep
  /\ Return("failed")
  /\ KeepCaller /\ KeepRun

StartBatch(e) ==
  /\ pc = "send"
  /\ ValidResponse(Normalize(e)) /\ Normalize(e).type = "tool_call"
  /\ ~TooMany(Normalize(e).calls)
  /\ NextStep
  /\ raw' = e
  /\ batch' = Normalize(e).calls
  /\ conversation' = Append(conversation, AssistantMessage(Normalize(e).calls))
  /\ results' = << >>
  /\ pc' = "call"
  /\ UNCHANGED <<request, consent, cancelled, seen, log, pending, ending, files>>

-----------------------------------------------------------------------------
(* One call of the batch (ToolRegistry.Execute).                           *)

This == Head(batch)

\* "changed" is the list of that name in the editor's result; "denied" an error
\* that starts with "tool authorization denied:".
Result(c, ran, status, changed) ==
  [call |-> c, ran |-> ran, status |-> status, changed |-> changed]

\* The result of the call at hand is appended to both lists.
Note(ran, status, changed) ==
  /\ log' = Append(log, Result(This, ran, status, changed))
  /\ results' = Append(results, Result(This, ran, status, changed))
  /\ batch' = Tail(batch)
  /\ UNCHANGED conversation

\* The loop goes to the next call of the batch.
Record(ran, status, changed) ==
  /\ Note(ran, status, changed)
  /\ pc' = IF Len(batch) > 1 THEN "call" ELSE "report"

ReusedId ==
  /\ pc = "call" /\ This.id \in seen
  /\ Return("failed")
  /\ KeepCaller /\ KeepRun /\ UNCHANGED step

\* Unknown tool, bad arguments, or a context already done.
RefuseCall ==
  /\ pc = "call" /\ This.id \notin seen
  /\ This.tool \notin Tools \/ ~This.valid \/ cancelled
  /\ Remember(This)
  /\ Record(FALSE, "error", {})
  /\ UNCHANGED <<request, consent, cancelled, step, raw, pending, ending, files>>

AcceptCall ==
  /\ pc = "call" /\ This.id \notin seen
  /\ This.tool \in Tools /\ This.valid /\ ~cancelled
  /\ Remember(This)
  /\ pc' = "authorize"
  /\ UNCHANGED <<request, consent, cancelled, step, raw, batch, talk, pending,
                 ending, files>>

Deletions(c) == IF c.tool = Editor THEN c.deletes ELSE {}

\* The denied result is recorded and Run returns "tool approval required".
Deny ==
  /\ Note(FALSE, "denied", {})
  /\ AfterDenial
  /\ outcome' = "denied"
  /\ KeepCaller
  /\ UNCHANGED <<request, cancelled, step, raw, seen, files>>

Allow ==
  /\ pc' = "handle"
  /\ UNCHANGED <<request, cancelled, step, raw, batch, seen, talk, pending,
                 ending, files>>

\* Mutated form of AuthorizeAPI: it waits for the approval it asks for.
AwaitsApproval ==
  /\ pc = "authorize" /\ mode = "api"
  /\ Deletions(This) \subseteq confirmed
  /\ NeedsToolApproval(This) => This.tool \in approved
  /\ Allow
  /\ UNCHANGED consent

\* No authorizer: whatever needs approval is refused.
AuthorizeNone ==
  /\ pc = "authorize" /\ mode = "none"
  /\ IF RequiresApproval(This) THEN Deny /\ UNCHANGED pending ELSE Allow
  /\ UNCHANGED consent

\* agentRun's callback: deletions path by path, then the tool by name.
AuthorizeAPI ==
  LET missing == Deletions(This) \ confirmed
  IN  /\ pc = "authorize" /\ mode = "api"
      /\ \/ /\ missing # {}
            /\ askDeletes' = askDeletes \cup missing
            /\ Deny
            /\ UNCHANGED askTools
         \/ /\ missing = {}
            /\ NeedsToolApproval(This) /\ This.tool \notin approved
            /\ askTools' = askTools \cup {This.tool}
            /\ Deny
            /\ UNCHANGED askDeletes
         \/ /\ missing = {}
            /\ NeedsToolApproval(This) => This.tool \in approved
            /\ Allow
      /\ UNCHANGED consent

\* TerminalAgentAuthorizer asks about the deletions, then about the action.
AuthorizeTerminal ==
  /\ pc = "authorize" /\ mode = "terminal"
  /\ \E deleteAnswer, actionAnswer \in BOOLEAN :
       LET asksDelete == Deletions(This) # {}
           asksAction == NeedsToolApproval(This)
           refused == \/ asksDelete /\ ~deleteAnswer
                      \/ asksAction /\ ~actionAnswer
       IN  /\ yesDelete' = IF asksDelete /\ deleteAnswer
                           THEN yesDelete \cup {This} ELSE yesDelete
           /\ yes' = IF asksAction /\ actionAnswer /\ ~(asksDelete /\ ~deleteAnswer)
                     THEN yes \cup {This} ELSE yes
           /\ IF refused THEN Deny /\ UNCHANGED pending ELSE Allow

\* The context is checked again before the handler.
HandlerSkipped ==
  /\ pc = "handle" /\ cancelled
  /\ Record(FALSE, "error", {})
  /\ UNCHANGED <<request, consent, cancelled, step, raw, seen, pending, ending,
                 files>>

\* A handler returns a result or an error.  The editor applied the whole plan,
\* and its result may still be refused; or failed and rolled it back, as far as
\* it could.  It marks what it applied in the store, unless that fails.
RunHandler ==
  LET plan == This.writes \cup This.deletes
      applies == This.tool = Editor /\ ~This.dryRun
  IN  /\ pc = "handle" /\ ~cancelled
      /\ \/ /\ Record(TRUE, "ok", IF applies THEN plan ELSE {})
            /\ edited' = IF applies THEN edited \cup plan ELSE edited
            /\ touched' \in {touched, touched \cup (IF applies THEN plan ELSE {})}
            /\ UNCHANGED unreported
         \/ /\ Record(TRUE, "error", {})
            /\ \E left \in SUBSET (IF applies THEN plan ELSE {}) :
                 /\ unreported' = unreported \cup left
                 /\ touched' \in {touched} \cup
                                 (IF left = plan THEN {touched \cup left} ELSE {})
            /\ UNCHANGED edited
      /\ UNCHANGED <<request, consent, cancelled, step, raw, seen, pending, ending>>

\* The results of the batch become the next message to the model.
Report ==
  /\ pc = "report"
  /\ conversation' = Append(conversation, ResultMessage(Reported(results)))
  /\ pc' = "ask"
  /\ UNCHANGED <<request, consent, cancelled, step, raw, batch, seen, results,
                 log, pending, ending, files>>

-----------------------------------------------------------------------------
(* The end of agentRun and of RunAgent.                                    *)

Applied(r) == r.call.tool = Editor /\ r.status = "ok"

\* The files the results say were changed.
Changed == UNION {log[i].changed : i \in {j \in 1 .. Len(log) : Applied(log[j])}}

KeepRunEnded == UNCHANGED <<request, consent, cancelled, step, raw, batch, seen,
                            talk, pending, outcome, edited, unreported>>

\* The HTTP handler looks at what was asked for before it looks at Run's error.
AnswerPending ==
  /\ pc = "returned" /\ mode = "api"
  /\ askTools # {} \/ askDeletes # {}
  /\ answer' = "pending" /\ pc' = "done"
  /\ KeepRunEnded /\ UNCHANGED <<written, history, touched>>

AnswerError ==
  /\ pc = "returned" /\ outcome # "final"
  /\ askTools = {} /\ askDeletes = {}
  /\ answer' = IF outcome = "cancelled" THEN "timeout" ELSE "error"
  /\ pc' = "done"
  /\ KeepRunEnded /\ UNCHANGED <<written, history, touched>>

\* The HTTP handler reports the changed files and ignores every failing store.
AnswerOkAPI ==
  /\ pc = "returned" /\ outcome = "final" /\ mode = "api"
  /\ askTools = {} /\ askDeletes = {}
  /\ written' = Changed
  /\ touched' \in {touched, touched \cup Changed}
  /\ history' \in {<< >>, <<"user">>, <<"assistant">>, <<"user", "assistant">>}
  /\ answer' = "ok" /\ pc' = "done"
  /\ KeepRunEnded

\* RunAgent stores both messages, then the changed files, then their hashes,
\* and returns the first error.
AnswerOkTerminal ==
  /\ pc = "returned" /\ outcome = "final" /\ mode # "api"
  /\ \E saved \in {<< >>, <<"user">>, <<"user", "assistant">>} :
       \E marked, hashed \in BOOLEAN :
         /\ marked => saved = <<"user", "assistant">>
         /\ hashed => marked
         /\ history' = saved
         /\ touched' = IF marked THEN touched \cup Changed ELSE touched
         /\ answer' = IF saved = <<"user", "assistant">> /\ (hashed \/ Changed = {})
                      THEN "ok" ELSE "error"
  /\ pc' = "done"
  /\ KeepRunEnded /\ UNCHANGED written

Step ==
  \/ StepLimit \/ StopsCancelled \/ AskModel
  \/ ReusedId \/ RefuseCall \/ AcceptCall
  \/ AuthorizeNone \/ AuthorizeAPI
  \/ HandlerSkipped \/ Report
  \/ AnswerPending \/ AnswerError \/ AnswerOkAPI \/ AnswerOkTerminal

\* What the run waits for: the provider, a handler, the user at the terminal.
Others ==
  \/ SendFails
  \/ pc = "send" /\ \E e \in Envelopes : RejectResponse(e) \/ Finish(e)
                                         \/ RefuseBatch(e) \/ StartBatch(e)
  \/ RunHandler \/ AuthorizeTerminal

Next == Step \/ Others \/ Cancel

Spec == Init /\ [][Next]_vars

\* The run's goroutine takes its own steps.  Providers and handlers need not
\* return (http.DefaultClient has no timeout, and `aicli ask` passes
\* context.Background()), and the user need not answer.
FairSpec == Spec /\ WF_vars(Step)

-----------------------------------------------------------------------------
(* Correctness.                                                            *)

Entry == [call : Call, ran : BOOLEAN, status : {"ok", "error", "denied"},
          changed : SUBSET Paths]
Message == [role : {"assistant", "user"}, calls : Seq(Call), results : Seq(Entry)]

TypeOK ==
  /\ mode \in Modes
  /\ approved \subseteq Tools /\ confirmed \subseteq Paths
  /\ yes \subseteq Call /\ yesDelete \subseteq Call
  /\ cancelled \in BOOLEAN
  /\ pc \in PC /\ step \in 0 .. MaxSteps
  /\ raw \in Envelopes \cup {NoEnvelope}
  /\ batch \in Seq(Call) /\ seen \subseteq CallIds
  /\ results \in Seq(Entry) /\ log \in Seq(Entry)
  /\ conversation \in Seq(Message)
  /\ askTools \subseteq Tools /\ askDeletes \subseteq Paths
  /\ outcome \in Outcome /\ answer \in Answer
  /\ written \subseteq Paths /\ history \in Seq({"user", "assistant"})
  /\ touched \subseteq Paths /\ edited \subseteq Paths /\ unreported \subseteq Paths

Changes(c) == RequiresApproval(c)

\* The user's consent to a call: each deleted path confirmed by itself, and
\* the tool approved unless the call only deletes.
Consented(c) ==
  CASE mode = "api" ->
         /\ c.tool = Editor => c.deletes \subseteq confirmed
         /\ ~Changes(c) \/ c.tool \in approved
              \/ (c.tool = Editor /\ c.deletes # {} /\ c.writes = {})
    [] mode = "terminal" ->
         /\ c.tool = Editor /\ c.deletes # {} => c \in yesDelete
         /\ ~Changes(c) \/ c \in yes
              \/ (c.tool = Editor /\ c.deletes # {} /\ c.writes = {})
    [] OTHER -> ~Changes(c)

\* No handler runs for a change the user did not consent to, for any batch,
\* any earlier approval and any moment of cancellation.
ConsentedOnly == \A i \in 1 .. Len(log) : log[i].ran => Consented(log[i].call)

\* A call id is executed at most once in a run, even when the model repeats
\* itself in a later answer.
OncePerCall ==
  \A i, j \in 1 .. Len(log) : i # j => log[i].call.id # log[j].call.id

\* No more calls are executed than the limit, counting the whole batch before
\* its first call runs, and no more answers are asked for than steps.
WithinLimits == Len(log) <= MaxToolCalls /\ step <= MaxSteps

\* A refusal ends the run: no handler runs after it.
DenialIsFinal ==
  [][ (askTools # {} \/ askDeletes # {} \/ outcome = "denied") => log' = log ]_vars

\* The results a message carries answer the calls of the message before it,
\* one by one and in their order.
ReportsOn(report, asked) ==
  /\ report.role = "user" /\ Len(report.results) = Len(asked.calls)
  /\ \A k \in 1 .. Len(asked.calls) : report.results[k].call = asked.calls[k]

\* Whenever the model is asked again, each of its requests is directly followed
\* by the results of all its calls, failed ones included, in order; nothing
\* is told that did not happen, and nothing that happened is left out.  The code
\* reports batch by batch (runner.go 311-344) and logs the run as a whole (301).
ModelInformed ==
  pc \in {"ask", "send"} =>
    /\ \A i \in 1 .. Len(conversation) :
         conversation[i].role = "assistant" =>
           i < Len(conversation) /\ ReportsOn(conversation[i + 1], conversation[i])
    /\ \A i \in 1 .. Len(conversation) :
         \A k \in 1 .. Len(conversation[i].results) :
           \E j \in 1 .. Len(log) : log[j] = conversation[i].results[k]
    /\ \A j \in 1 .. Len(log) :
         \E i \in 1 .. Len(conversation) :
           \E k \in 1 .. Len(conversation[i].results) :
             conversation[i].results[k] = log[j]

\* Only an answer that plainly asks for tool calls makes a handler run, and
\* text that may hide a request for an action is never taken for the final
\* answer: runner.go normalizes "only when it contains text and no tool calls".
AmbiguousNeverActs ==
  /\ pc \in {"call", "authorize", "handle"} =>
       raw.type = "tool_call" /\ ~raw.text /\ ~raw.error
  /\ outcome = "final" =>
       raw.calls = << >> /\ (raw.protocol = "other" => ~raw.otherTool)

\* What runs was asked for plainly, allowed by the user, and runs once.
ConsentHonoured == ConsentedOnly /\ OncePerCall /\ AmbiguousNeverActs

Denied(r) == r.status = "denied"

\* Nobody is told that a run completed in which a call was refused, and such a
\* run is not remembered in the conversation: it ends with the refused call.
\* A completed run accounts for the files its edits changed (those of edits that
\* returned a result): the HTTP handler reports just these, RunAgent has marked
\* them as touched.  Nothing is marked as touched that no edit changed.
AnswerHonest ==
  /\ answer = "ok" \/ history # << >> => \A i \in 1 .. Len(log) : ~Denied(log[i])
  /\ answer = "pending" => /\ log # << >> /\ Denied(log[Len(log)])
                           /\ \A i \in 1 .. Len(log) - 1 : ~Denied(log[i])
  /\ answer = "ok" => IF mode = "api" THEN written = edited
                                      ELSE edited \subseteq touched
  /\ touched \subseteq edited \cup unreported

\* The run waits for a provider, a handler, or the user's answer.
Waits == pc \in {"send", "handle"} \/ (pc = "authorize" /\ mode = "terminal")

\* Every run ends and is answered, unless the provider, a handler or the user
\* never answers: in particular no request waits for an approval.
EveryRunEnds == <>(pc = "done") \/ <>[]Waits
=============================================================================
