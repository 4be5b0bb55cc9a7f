------------------------------ MODULE EditTurns ------------------------------
(***************************************************************************)
(* The three ways a model's edit plan reaches the workspace: `aicli ask`   *)
(* and a Studio chat (ProjectPlan), and the terminal chat (TerminalTurn).  *)
(* One of them is in use at a time.                                        *)
(***************************************************************************)
EXTENDS ProjectPlan, TerminalTurn

VARIABLE surface  \* which of them

vars == <<surface, project, askVars, termVars>>

Init ==
  /\ surface \in {"ask", "terminal"}
  /\ project \in Projects
  /\ AskInit /\ TermInit
  /\ surface = "ask" => /\ disk = [p \in Paths |-> "old"]
  /\ surface = "terminal" => planFile = NoPlan

Next ==
  /\ UNCHANGED <<surface, project>>
  /\ \/ surface = "ask" /\ AskNext /\ UNCHANGED termVars
     \/ surface = "terminal" /\ TermNext /\ UNCHANGED askVars

Spec == Init /\ [][Next]_vars

\* Where a run waits for others: for a provider, whose HTTP client has no
\* timeout, for the user's answer to ui.Confirm, or for the verification, whose
\* commands are killed after 120 seconds but not what they started.
AskWaits ==
  \/ pc \in {"planning", "replanning", "compact", "send", "fix", "repair", "execute"}
  \/ pc = "review" /\ ~mode.yes
TermWaits == tpc \in {"stream", "resend", "again", "repair", "fallback", "verify"}

\* A run that is not killed takes its own next step; nothing is assumed of
\* those it waits for.
FairSpec ==
  /\ Spec
  /\ WF_vars(~AskWaits /\ AskStep /\ UNCHANGED <<surface, project, termVars>>)
  /\ WF_vars(~TermWaits /\ TermStep /\ UNCHANGED <<surface, project, askVars>>)

-----------------------------------------------------------------------------
TypeOK ==
  /\ pc \in {"idle", "load", "planning", "replanning", "save", "batch", "gather", "compact",
             "send", "fix", "review", "execute", "repair", "record", "validate", "answer"}
  /\ attempt \in 0 .. Budget \cup {0} /\ faults \in 0 .. MaxFaults
  /\ written \subseteq Paths
  /\ disk \in [Paths -> Present \cup {"absent"}]
  /\ tfaults \in 0 .. MaxTermFaults /\ turns \in 0 .. MaxTurns

(* A turn of the terminal chat that returns an error, and no error of the  *)
(* rollback, leaves the workspace as it found it: the snapshot undoes      *)
(* whatever Apply left.  Only three failures in one turn (the apply, its   *)
(* own rollback and the snapshot's) go unreported.                         *)
ErrorLeavesWorkspace ==
  (tresult = "error" /\ cause \notin {"none", "command"} /\ tfaults <= 2) => disk = before

(* Whenever a turn changed or removed a file the user had, while it runs   *)
(* and after it returned or died, a complete archive holds what the file   *)
(* was: the snapshot comes before the first change, deletions included.    *)
(* (The restore command writes in place and keeps nothing.)                *)
RecoveryPointFirst ==
  \A p \in Paths :
    (before[p] # "absent" /\ disk[p] # before[p] /\ cause # "command")
      => \E i \in 1 .. Len(saves) : saves[i][p] = before[p]

(* What any of the three reports as applied has passed the checks of the   *)
(* workspace: it is sound, or nothing in the workspace checks its files.   *)
(* With a negative number of repairs (AppliedIsWritten) `ask` and Studio   *)
(* change no file at all.                                                  *)
AppliedIsVerified ==
  /\ tresult = "applied" => tsound \/ Unchecked(PlanPaths(tplan))
  /\ (result = "applied" \/ (pc = "save" /\ batch # {})) =>
        Budget < 0 \/ edit.sound \/ Unchecked(edit.files)
  /\ Budget < 0 => written = {}

(* A file the saved project plan calls completed was written by a verified *)
(* edit under that plan, unless the planner itself declared it so, or the  *)
(* number of repairs is negative (AppliedIsWritten); and a run that        *)
(* reports the project complete has completed every file, cyclic           *)
(* dependencies, crashes and resumed runs included.                        *)
CompletedWereWritten ==
  /\ (planFile.prompt \in Prompts /\ 0 <= Budget) =>
        planFile.done \ declared \subseteq written
  /\ result = "complete" => planFile.done = FilesOf(planFile)

(* Work saved for a prompt is not lost or redone by a later run with the   *)
(* same prompt.                                                            *)
SavedWorkSurvives ==
  [][(planFile.prompt \in Prompts /\ planFile'.prompt = planFile.prompt)
       => /\ planFile.done \subseteq planFile'.done
          /\ planFile'.deps = planFile.deps]_vars

(* A file is completed after what it depends on, unless no file of the     *)
(* plan was ready.                                                         *)
DependenciesFirst ==
  [][(planFile.prompt \in Prompts /\ planFile'.prompt = planFile.prompt)
       => \A p \in planFile'.done \ planFile.done :
            \/ Ready(planFile, p)
            \/ \A q \in FilesOf(planFile) \ planFile.done : ~Ready(planFile, q)]_vars

(* After an Execute whose rollback failed, the Studio chat ends: "stop     *)
(* further edits and inspect the workspace" (service.go:221).              *)
DamageStops == (mode.via = "studio" /\ damaged) => pc = "idle"

(* Every run and every turn returns, unless it comes to wait for a         *)
(* provider, the user or a verification for ever: no run goes on asking,   *)
(* repairing or choosing batches without end.                              *)
TurnsEnd == /\ []<>(pc = "idle") \/ <>[]AskWaits
            /\ []<>(tpc = "idle") \/ <>[]TermWaits

(* What `ask` or Studio reports as applied was written: the loop tells the *)
(* user of its repairs "after the initial apply" (app.go:338), and `config *)
(* set` calls a negative number of them invalid (config.go:173).           *)
AppliedIsWritten == result = "applied" => edit.files \subseteq written

=============================================================================
