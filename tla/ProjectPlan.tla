---------------------------- MODULE ProjectPlan ----------------------------
(***************************************************************************)
(* From a prompt to committed files through Executor.Execute: `aicli ask`  *)
(* (internal/app/app.go, Ask, askOnce, AskPlanned), with the project plan  *)
(* it keeps in .aicli/project-plan.json (internal/generation/planner.go),  *)
(* and a Studio chat turn (internal/api/service.go, Chat).                 *)
(*                                                                         *)
(* A run may die at any step, and the next one with the same prompt        *)
(* resumes the saved plan.  Execute is taken from AtomicEdit: a call takes *)
(* effect in one step, or leaves the workspace alone, or (its rollback     *)
(* failed) leaves some of its files in between.                            *)
(***************************************************************************)
EXTENDS Integers, FiniteSets, Verification

CONSTANTS Manifests, \* the project plans the planner model may return
          Edits,     \* the edit plans a reply may carry
          Prompts,   \* prompts long enough, or named so, to be planned
          Simple,    \* the other prompts
          Budget,    \* verification.self_correction_attempts, which may be negative
          MaxRuns,   \* bound on runs
          MaxFaults  \* bound on failing operations

NoPlan == [prompt |-> "none"]
Unreadable == [prompt |-> "unreadable"]

FilesOf(pl) == {pl.files[i] : i \in DOMAIN pl.files}
\* files: the planned paths in order; deps: what each needs first; done: the
\* files whose status is completed.
ASSUME PlannerAssumption ==
  /\ Manifests \subseteq [files : Seq(Paths), deps : [Paths -> SUBSET Paths],
                          done : SUBSET Paths]
  /\ Edits \subseteq [files : SUBSET Paths, form : {"plain", "twice", "delete", "unsafe"},
                      sound : BOOLEAN]
  /\ Prompts \cap (Simple \cup {"none", "unreadable"}) = {}
  /\ Budget \in Int /\ MaxRuns \in Nat /\ MaxFaults \in Nat

VARIABLES planFile,  \* .aicli/project-plan.json
          pc,        \* the next step of the run
          mode,      \* which entry point runs, --yes (Studio: apply) and --safe
          prompt,    \* the request
          memory,    \* the project plan in memory
          batch,     \* the files of the current batch
          edit,      \* the edit plan being applied
          attempt,   \* the verification pass
          result,    \* what the last run returned
          faults,    \* operations that failed so far
          runs,      \* runs begun
          damaged,   \* history: a rollback of this run failed
          declared,  \* history: files the planner itself declared completed
          written    \* history: files a verified edit wrote under this plan

askVars == <<planFile, pc, mode, prompt, memory, batch, edit,
             attempt, result, faults, runs, damaged, declared, written>>
doc == <<planFile, declared, written, damaged>>
run == <<mode, prompt, runs>>

NoEdit == [files |-> {}, form |-> "plain", sound |-> TRUE]
Idle == [via |-> "ask", yes |-> TRUE, safe |-> FALSE]

AskInit ==
  /\ planFile \in {NoPlan, Unreadable}
  /\ pc = "idle" /\ mode = Idle /\ prompt = "none"
  /\ memory = NoPlan /\ batch = {} /\ edit = NoEdit /\ attempt = 0
  /\ result = "none" /\ faults = 0 /\ runs = 0 /\ damaged = FALSE
  /\ declared = {} /\ written = {}

-----------------------------------------------------------------------------
(* internal/generation/planner.go                                          *)
ShouldUsePlanner(pr) == pr \in Prompts

\* A file twice, or a dependency on a file the plan does not list.
ParseProjectPlan(m) ==
  /\ m.files # << >>
  /\ \A i, j \in DOMAIN m.files : i # j => m.files[i] # m.files[j]
  /\ \A p \in FilesOf(m) : m.deps[p] \subseteq FilesOf(m)

NewProjectPlan(pr, m) ==
  [prompt |-> pr, files |-> m.files, deps |-> m.deps, done |-> m.done \cap FilesOf(m)]

Ready(pl, p) == pl.deps[p] \subseteq pl.done

\* As positions in the plan.
PendingFiles(pl) == {i \in DOMAIN pl.files : pl.files[i] \notin pl.done}
ReadyFiles(pl) == {i \in PendingFiles(pl) : Ready(pl, pl.files[i])}

\* PlannerBatchSize: those with at most one before them.
FirstTwo(I) == {k \in I : \A i, j \in I : i < k /\ j < k => i = j}
FilesAt(pl, I) == {pl.files[i] : i \in I}

NeverUnblocks(pl) ==  \* as a bug would: no batch while nothing is ready
  FilesAt(pl, FirstTwo(ReadyFiles(pl)))

InPlanOrder(pl) == FilesAt(pl, FirstTwo(PendingFiles(pl)))  \* as a bug would

NextBatch(pl) ==
  FilesAt(pl, FirstTwo(IF ReadyFiles(pl) = {} THEN PendingFiles(pl) ELSE ReadyFiles(pl)))

ForgetsCompleted(pl, paths) == pl  \* as a bug would: a copy is marked
MarkBatchCompleted(pl, paths) ==
  [pl EXCEPT !.done = @ \cup (paths \cap FilesOf(pl))]

\* generation.ParsePlan: an empty plan, an unknown action, a deletion with
\* content or a path outside the workspace.
ParsePlan(e) == e.files # {} /\ e.form # "unsafe"

ValidateBatch(e, b) == e.form # "twice" /\ e.files = b

\* LoadProjectPlan resumes the plan of the same prompt only.
AlwaysReplans(f, pr) == FALSE  \* as a bug would
Resumes(f, pr) == f.prompt = pr

-----------------------------------------------------------------------------
Fault == faults < MaxFaults /\ faults' = faults + 1
NoFault == UNCHANGED faults
Step(label) == pc' = label /\ UNCHANGED result
Return(r) == pc' = "idle" /\ result' = r

(* A run starts: `aicli ask` with its options, or a Studio chat request,   *)
(* which may ask for its edits to be applied (yes).                        *)
Begin ==
  /\ pc = "idle" /\ runs < MaxRuns
  /\ runs' = runs + 1 /\ result' = "none"
  /\ \/ /\ mode' \in [via : {"ask"}, yes : BOOLEAN, safe : BOOLEAN]
        /\ prompt' \in Prompts \cup Simple
     \/ /\ mode' \in [via : {"studio"}, yes : BOOLEAN, safe : {FALSE}]
        /\ prompt' \in Simple
  /\ pc' = IF ShouldUsePlanner(prompt') THEN "load" ELSE "gather"
  /\ memory' = NoPlan /\ batch' = {} /\ edit' = NoEdit /\ attempt' = 0
  /\ damaged' = FALSE
  /\ UNCHANGED <<planFile, declared, written, faults>>

LoadProjectPlan ==
  /\ pc = "load"
  /\ IF planFile = Unreadable THEN Return("error") /\ UNCHANGED memory
     ELSE IF Resumes(planFile, prompt) THEN Step("batch") /\ memory' = planFile
     ELSE Step("planning") /\ UNCHANGED memory
  /\ UNCHANGED <<doc, run, batch, edit, attempt, faults>>

\* The planner answers, is corrected once, or the request fails.
Planning ==
  /\ pc \in {"planning", "replanning"}
  /\ \/ \E m \in Manifests :
          ParseProjectPlan(m) /\ memory' = NewProjectPlan(prompt, m) /\ Step("save")
     \/ pc = "planning" /\ Step("replanning") /\ UNCHANGED memory
     \/ Return("error") /\ UNCHANGED memory
  /\ UNCHANGED <<doc, run, batch, edit, attempt, faults>>

\* Written beside and renamed: the old plan or the new one is on disk.
SaveProjectPlan ==
  /\ pc = "save"
  /\ \/ Fault /\ Return("error") /\ UNCHANGED <<planFile, declared, written>>
     \/ /\ NoFault /\ Step("batch")
        /\ planFile' = memory
        /\ IF batch = {} THEN declared' = memory.done /\ written' = {}
                         ELSE UNCHANGED <<declared, written>>
  /\ UNCHANGED <<run, memory, batch, edit, attempt, damaged>>

ChooseBatch ==
  /\ pc = "batch"
  /\ batch' = NextBatch(memory)
  /\ IF batch' = {} THEN Return("complete") ELSE Step("gather")
  /\ attempt' = 0
  /\ UNCHANGED <<doc, run, memory, edit, faults>>

\* History and workspace context; `ask` summarises a long history first.
AskGather ==
  /\ pc = "gather" /\ mode.via = "ask"
  /\ Step("send") \/ Step("compact") \/ Return("error")
  /\ UNCHANGED <<doc, run, memory, batch, edit, attempt, faults>>

\* History, context, attachments, rules, skills; the prompt is saved.
StudioGather ==
  /\ pc = "gather" /\ mode.via = "studio"
  /\ Step("send") \/ Return("error")
  /\ UNCHANGED <<doc, run, memory, batch, edit, attempt, faults>>

CompactHistory ==
  /\ pc = "compact"
  /\ Step("send") \/ Return("error")
  /\ UNCHANGED <<doc, run, memory, batch, edit, attempt, faults>>

Parsed == {e \in Edits : ParsePlan(e)}

\* A reply that is not an edit plan is corrected once.
AskReply ==
  /\ pc \in {"send", "fix"} /\ mode.via = "ask"
  /\ \/ edit' \in Parsed /\ Step("review")
     \/ pc = "send" /\ Step("fix") /\ UNCHANGED edit
     \/ Return("error") /\ UNCHANGED edit
  /\ attempt' = 0
  /\ UNCHANGED <<doc, run, memory, batch, faults>>

\* The loop over the verification passes starts at 0: with a negative budget
\* there is none, and the run goes on as if the edit were made.
FirstPass == IF 0 <= Budget THEN "execute" ELSE "record"

\* A stream, or a plain request when it cannot start.  A reply is an edit
\* plan, applied when the request asks for it, a conversation, or an error.
StudioReply ==
  /\ pc = "send" /\ mode.via = "studio"
  /\ \/ edit' \in Parsed /\ Step(IF mode.yes THEN FirstPass ELSE "answer")
     \/ Step("answer") /\ UNCHANGED edit
     \/ Return("error") /\ UNCHANGED edit
  /\ UNCHANGED <<doc, run, memory, batch, attempt, faults>>

\* --safe refuses deletions, then the user confirms unless --yes.
Review ==
  /\ pc = "review"
  /\ \/ ~(mode.safe /\ edit.form = "delete") /\ Step(FirstPass)
     \/ ((mode.safe /\ edit.form = "delete") \/ ~mode.yes) /\ Return("error")
  /\ UNCHANGED <<doc, run, memory, batch, edit, attempt, faults>>

-----------------------------------------------------------------------------
(* Execute with SafeCapabilities, which hold no deletion, then Detect.     *)
Outcomes(e) ==
  IF e.form = "delete" THEN {"error"}
  ELSE {IF v = "passed" THEN v ELSE "failed" : v \in Detect(e.files, {}, e.sound)}

\* A verified failure is repaired; Studio gives up on any other error,
\* `ask` does not look at which it is.
RepairsAll(outcome) == TRUE  \* as a bug would
MayRepair(outcome) == mode.via = "ask" \/ outcome = "failed"

Failed(outcome) ==
  IF attempt < Budget /\ MayRepair(outcome) THEN Step("repair") ELSE Return("error")

Committed ==
  /\ "passed" \in Outcomes(edit)
  /\ written' = written \cup edit.files
  /\ Step("record") /\ NoFault /\ UNCHANGED damaged

\* Rolled back after a verdict, or after a failing operation.
RolledBack ==
  /\ \/ NoFault /\ \E o \in Outcomes(edit) \ {"passed"} : Failed(o)
     \/ Fault /\ Failed("error")
  /\ UNCHANGED <<written, damaged>>

\* The rollback failed too.
LeftBetween ==
  /\ Fault /\ edit.form # "delete"
  /\ Failed("damaged") /\ damaged' = TRUE /\ UNCHANGED written

Execute ==
  /\ pc = "execute"
  /\ Committed \/ RolledBack \/ LeftBetween
  /\ UNCHANGED <<planFile, declared, run, memory, batch, edit, attempt>>

\* The repaired plan goes straight back to Execute.
Repair ==
  /\ pc = "repair"
  /\ \/ edit' \in Parsed /\ attempt' = attempt + 1 /\ Step("execute")
     \/ Return("error") /\ UNCHANGED <<edit, attempt>>
  /\ UNCHANGED <<doc, run, memory, batch, faults>>

\* MarkTouched's error is returned though the edit is committed; those of
\* the state file are ignored.
AskRecord ==
  /\ pc = "record" /\ mode.via = "ask"
  /\ \/ Fault /\ Return("error")
     \/ NoFault /\ IF batch = {} THEN Return("applied") ELSE Step("validate")
  /\ UNCHANGED <<doc, run, memory, batch, edit, attempt>>

\* So are the errors of MarkTouched and RefreshHashes here.
StudioRecord ==
  /\ pc = "record" /\ mode.via = "studio"
  /\ \/ Fault /\ Return("error")
     \/ NoFault /\ Step("answer")
  /\ UNCHANGED <<doc, run, memory, batch, edit, attempt>>

\* The batch is checked after its files are committed.
Validate ==
  /\ pc = "validate"
  /\ IF ValidateBatch(edit, batch)
     THEN Step("save") /\ memory' = MarkBatchCompleted(memory, edit.files)
     ELSE Return("error") /\ UNCHANGED memory
  /\ UNCHANGED <<doc, run, batch, edit, attempt, faults>>

\* Studio saves the assistant message; its error is returned.
Answer ==
  /\ pc = "answer"
  /\ \/ NoFault /\ Return(IF edit # NoEdit /\ mode.yes THEN "applied" ELSE "chat")
     \/ Fault /\ Return("error")
  /\ UNCHANGED <<doc, run, memory, batch, edit, attempt>>

(* Ctrl-C or a crash: only the files are left.                             *)
Crash ==
  /\ pc # "idle" /\ Return("crashed")
  /\ UNCHANGED <<doc, run, memory, batch, edit, attempt, faults>>

AskStep == \/ LoadProjectPlan \/ Planning \/ SaveProjectPlan \/ ChooseBatch
           \/ AskGather \/ StudioGather \/ CompactHistory
           \/ AskReply \/ StudioReply \/ Review \/ Execute \/ Repair
           \/ AskRecord \/ StudioRecord \/ Validate \/ Answer
AskNext == AskStep \/ Begin \/ Crash
=============================================================================
