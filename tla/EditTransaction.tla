--------------------------- MODULE EditTransaction ---------------------------
(***************************************************************************)
(* Executor.Execute (internal/agent/executor.go) applying an edit plan to  *)
(* the workspace through a Transaction (internal/transaction): capture the *)
(* original of a file, stage the new content beside it, rename it into     *)
(* place, verify, and either commit or roll back in reverse order.         *)
(*                                                                         *)
(* Txns are the Execute calls in flight: the HTTP server runs several chat *)
(* and agent requests at once over one workspace root and nothing          *)
(* serialises them.  Every system call is a step of its own, may fail      *)
(* (at most MaxFaults times in a behaviour), and the process may die       *)
(* between two of them.  A file is one value of Contents; Torn is a        *)
(* partly written file.                                                    *)
(***************************************************************************)
EXTENDS Integers, Sequences

CONSTANTS Txns,       \* concurrent Execute calls
          Paths,      \* resolved workspace paths
          Contents,   \* complete file contents
          Plans,      \* the edit plans a model response may carry
          Absent,     \* no such file
          Torn,       \* a partly written file
          NoSnap,     \* the path was not captured
          MaxFaults   \* bound on failing system calls

File == Contents \cup {Absent, Torn}

\* An entry of generation.Plan.Files.  "reject" stands for the entries that
\* stop the loop before the transaction is called: a path outside the
\* workspace, a deletion without the capability, an unsupported action.
Entry == [op : {"write", "delete", "reject"}, path : Paths, content : Contents]

ASSUME PlanAssumption == Plans \subseteq Seq(Entry)
ASSUME ValueAssumption == /\ Absent \notin Contents
                          /\ Torn \notin Contents
                          /\ NoSnap \notin Contents
                          /\ Absent # Torn /\ Absent # NoSnap /\ Torn # NoSnap
ASSUME FaultAssumption == MaxFaults \in Nat

VARIABLES disk,      \* the file a reader sees at each path
          txTemp,    \* <path>.fuzetx
          rbTemp,    \* <path>.fuzerollback
          snapshots, \* Transaction.snapshots, per transaction
          changed,   \* Transaction.changed, per transaction
          closed,    \* Transaction.closed, per transaction
          plan,      \* the plan each call executes
          verifier,  \* whether the caller passed a verify function
          pc,        \* the system call each Execute does next
          at,        \* index in the plan, or in changed while rolling back
          why,       \* what started the rollback: an apply error or verify
          rbErr,     \* Rollback has recorded a first error
          outcome,   \* what Execute returned
          faults,    \* system calls that failed so far
          orig       \* history: the workspace before any call started

fsVars == <<disk, txTemp, rbTemp>>
callVars == <<plan, verifier, orig>>
vars == <<disk, txTemp, rbTemp, snapshots, changed, closed, plan, verifier,
          pc, at, why, rbErr, outcome, faults, orig>>

PC == {"next", "stage", "rename", "remove", "verify",
       "undo", "restore", "done", "crashed"}
Outcome == {"none", "ok", "error", "verification_failed", "rollback_failed"}

Init ==
  /\ disk \in [Paths -> Contents \cup {Absent}]
  /\ orig = disk
  /\ txTemp = [p \in Paths |-> Absent]
  /\ rbTemp = [p \in Paths |-> Absent]
  /\ snapshots = [t \in Txns |-> [p \in Paths |-> NoSnap]]
  /\ changed = [t \in Txns |-> << >>]
  /\ closed = [t \in Txns |-> FALSE]
  /\ plan \in [Txns -> Plans]
  /\ verifier \in [Txns -> BOOLEAN]
  /\ pc = [t \in Txns |-> "next"]
  /\ at = [t \in Txns |-> 1]
  /\ why = [t \in Txns |-> "apply"]
  /\ rbErr = [t \in Txns |-> FALSE]
  /\ outcome = [t \in Txns |-> "none"]
  /\ faults = 0

-----------------------------------------------------------------------------
Current(t) == plan[t][at[t]]
InPlan(t) == at[t] \in 1 .. Len(plan[t])
Effect(e) == IF e.op = "write" THEN e.content ELSE Absent
OwnPaths(t) == {plan[t][i].path : i \in 1 .. Len(plan[t])}

Goto(t, label) == pc' = [pc EXCEPT ![t] = label]

(* What a bug in one line of the code would do, each beside the operator of *)
(* the line it would break; no run uses them in place of it.                *)
RecordWritesOnly(t) ==
  IF Current(t).op = "write" THEN Append(changed[t], Current(t).path)
                             ELSE changed[t]
NeverExisted(t) == FALSE

\* Capture keeps the first image of a path: a second entry for it is a no-op.
FirstImage(old, now) == IF old = NoSnap THEN now ELSE old

\* The path whose .fuzetx file the transaction writes and renames.
StagedFor(t) == Current(t).path

\* A rename takes the temporary file away.
MovedFrom(temp, p) == [temp EXCEPT ![p] = Absent]

\* changed after the current entry took effect.
Recorded(t) == Append(changed[t], Current(t).path)

\* A system call of transaction t fails.
Fault == faults < MaxFaults /\ faults' = faults + 1

\* Enter Rollback: it walks changed from its last element.
StartRollback(t, cause) ==
  /\ Goto(t, "undo")
  /\ at' = [at EXCEPT ![t] = Len(changed[t])]
  /\ why' = [why EXCEPT ![t] = cause]

AbortApply(t) ==
  /\ StartRollback(t, "apply")
  /\ UNCHANGED <<snapshots, changed, closed, rbErr, outcome>>

-----------------------------------------------------------------------------
(* The apply loop.                                                         *)

RejectEntry(t) ==
  /\ pc[t] = "next" /\ InPlan(t) /\ Current(t).op = "reject"
  /\ AbortApply(t)
  /\ UNCHANGED <<fsVars, callVars, faults>>

Capture(t) ==
  /\ pc[t] = "next" /\ InPlan(t) /\ ~closed[t]
  /\ Current(t).op # "reject"
  /\ LET p == Current(t).path
     IN  snapshots' = [snapshots EXCEPT ![t][p] =
                         FirstImage(@, disk[p])]
  /\ Goto(t, IF Current(t).op = "write" THEN "stage" ELSE "remove")
  /\ UNCHANGED <<fsVars, callVars, changed, closed, at, why, rbErr, outcome,
                 faults>>

\* The path is a directory, or stat or read failed.
CaptureFails(t) ==
  /\ pc[t] = "next" /\ InPlan(t)
  /\ Current(t).op # "reject"
  /\ snapshots[t][Current(t).path] = NoSnap
  /\ Fault
  /\ AbortApply(t)
  /\ UNCHANGED <<fsVars, callVars>>

\* Write returns the staging error before the rename.
StageError(t) == AbortApply(t)

Stage(t) ==
  /\ pc[t] = "stage"
  /\ txTemp' = [txTemp EXCEPT ![StagedFor(t)] = Current(t).content]
  /\ Goto(t, "rename")
  /\ UNCHANGED <<disk, rbTemp, callVars, snapshots, changed, closed, at, why,
                 rbErr, outcome, faults>>

\* MkdirAll or WriteFile failed; a partial temporary file is left behind.
StageFails(t) ==
  /\ pc[t] = "stage"
  /\ Fault
  /\ \E left \in {txTemp[StagedFor(t)], Torn} :
       txTemp' = [txTemp EXCEPT ![StagedFor(t)] = left]
  /\ StageError(t)
  /\ UNCHANGED <<disk, rbTemp, callVars>>

Advance(t) ==
  /\ changed' = [changed EXCEPT ![t] = Recorded(t)]
  /\ at' = [at EXCEPT ![t] = @ + 1]
  /\ Goto(t, "next")
  /\ UNCHANGED <<snapshots, closed, why, rbErr, outcome>>

Publish(t) ==
  /\ pc[t] = "rename"
  /\ txTemp[StagedFor(t)] # Absent
  /\ disk' = [disk EXCEPT ![Current(t).path] = txTemp[StagedFor(t)]]
  /\ txTemp' = MovedFrom(txTemp, StagedFor(t))
  /\ Advance(t)
  /\ UNCHANGED <<rbTemp, callVars, faults>>

\* Rename failed, by a fault or because another transaction, which uses the
\* same temporary name, has already moved the file; the temporary is removed.
PublishFails(t) ==
  /\ pc[t] = "rename"
  /\ IF txTemp[StagedFor(t)] = Absent THEN UNCHANGED faults ELSE Fault
  /\ txTemp' = [txTemp EXCEPT ![StagedFor(t)] = Absent]
  /\ AbortApply(t)
  /\ UNCHANGED <<disk, rbTemp, callVars>>

\* Removing a file that is already gone is not an error.
Remove(t) ==
  /\ pc[t] = "remove"
  /\ disk' = [disk EXCEPT ![Current(t).path] = Absent]
  /\ Advance(t)
  /\ UNCHANGED <<txTemp, rbTemp, callVars, faults>>

RemoveFails(t) ==
  /\ pc[t] = "remove"
  /\ Fault
  /\ AbortApply(t)
  /\ UNCHANGED <<fsVars, callVars>>

-----------------------------------------------------------------------------
(* Verification and the end of the call.                                   *)

Applied(t) == pc[t] = "next" /\ ~InPlan(t)

StartVerify(t) ==
  /\ Applied(t) /\ verifier[t]
  /\ Goto(t, "verify")
  /\ UNCHANGED <<fsVars, callVars, snapshots, changed, closed, at, why, rbErr,
                 outcome, faults>>

\* verify returned Passed, or there is no verifier: the transaction forgets
\* its snapshots.
Commit(t) ==
  /\ pc[t] = "verify" \/ (Applied(t) /\ ~verifier[t])
  /\ closed' = [closed EXCEPT ![t] = TRUE]
  /\ snapshots' = [snapshots EXCEPT ![t] = [p \in Paths |-> NoSnap]]
  /\ changed' = [changed EXCEPT ![t] = << >>]
  /\ outcome' = [outcome EXCEPT ![t] = "ok"]
  /\ Goto(t, "done")
  /\ UNCHANGED <<fsVars, callVars, at, why, rbErr, faults>>

\* verify returned not Passed, or panicked.
VerifyFails(t) ==
  /\ pc[t] = "verify"
  /\ StartRollback(t, "verify")
  /\ UNCHANGED <<fsVars, callVars, snapshots, changed, closed, rbErr, outcome,
                 faults>>

-----------------------------------------------------------------------------
(* Rollback: the changed paths in reverse order, going on after an error.  *)

Undoing(t) == changed[t][at[t]]
Existed(t) == snapshots[t][Undoing(t)] \notin {Absent, NoSnap}
StepBack(t) == at' = [at EXCEPT ![t] = @ - 1]
NoteError(t) == rbErr' = [rbErr EXCEPT ![t] = TRUE]

StageOriginal(t) ==
  /\ pc[t] = "undo" /\ at[t] > 0
  /\ Existed(t)
  /\ rbTemp' = [rbTemp EXCEPT ![Undoing(t)] = snapshots[t][Undoing(t)]]
  /\ Goto(t, "restore")
  /\ UNCHANGED <<disk, txTemp, callVars, snapshots, changed, closed, at, why,
                 rbErr, outcome, faults>>

StageOriginalFails(t) ==
  /\ pc[t] = "undo" /\ at[t] > 0
  /\ Existed(t)
  /\ Fault
  /\ \E left \in {rbTemp[Undoing(t)], Torn} :
       rbTemp' = [rbTemp EXCEPT ![Undoing(t)] = left]
  /\ NoteError(t) /\ StepBack(t)
  /\ UNCHANGED <<disk, txTemp, callVars, snapshots, changed, closed, pc, why,
                 outcome>>

Restore(t) ==
  /\ pc[t] = "restore"
  /\ rbTemp[Undoing(t)] # Absent
  /\ disk' = [disk EXCEPT ![Undoing(t)] = rbTemp[Undoing(t)]]
  /\ rbTemp' = MovedFrom(rbTemp, Undoing(t))
  /\ StepBack(t) /\ Goto(t, "undo")
  /\ UNCHANGED <<txTemp, callVars, snapshots, changed, closed, why, rbErr,
                 outcome, faults>>

RestoreFails(t) ==
  /\ pc[t] = "restore"
  /\ IF rbTemp[Undoing(t)] = Absent THEN UNCHANGED faults ELSE Fault
  /\ rbTemp' = [rbTemp EXCEPT ![Undoing(t)] = Absent]
  /\ NoteError(t) /\ StepBack(t) /\ Goto(t, "undo")
  /\ UNCHANGED <<disk, txTemp, callVars, snapshots, changed, closed, why,
                 outcome>>

\* The file did not exist before the transaction.
RemoveCreated(t) ==
  /\ pc[t] = "undo" /\ at[t] > 0
  /\ ~Existed(t)
  /\ disk' = [disk EXCEPT ![Undoing(t)] = Absent]
  /\ StepBack(t)
  /\ UNCHANGED <<txTemp, rbTemp, callVars, snapshots, changed, closed, pc, why,
                 rbErr, outcome, faults>>

RemoveCreatedFails(t) ==
  /\ pc[t] = "undo" /\ at[t] > 0
  /\ ~Existed(t)
  /\ Fault
  /\ NoteError(t) /\ StepBack(t)
  /\ UNCHANGED <<fsVars, callVars, snapshots, changed, closed, pc, why, outcome>>

FinishQuietly(t) ==
  /\ pc[t] = "undo" /\ at[t] = 0
  /\ closed' = [closed EXCEPT ![t] = TRUE]
  /\ outcome' = [outcome EXCEPT ![t] =
                   IF why[t] = "apply" THEN "error" ELSE "verification_failed"]
  /\ Goto(t, "done")
  /\ UNCHANGED <<fsVars, callVars, snapshots, changed, at, why, rbErr, faults>>

\* Execute drops the rollback error of a failed apply loop and reports that
\* of a failed verification.
FinishRollback(t) ==
  /\ pc[t] = "undo" /\ at[t] = 0
  /\ closed' = [closed EXCEPT ![t] = TRUE]
  /\ outcome' = [outcome EXCEPT ![t] =
                   IF why[t] = "apply" THEN "error"
                   ELSE IF rbErr[t] THEN "rollback_failed"
                   ELSE "verification_failed"]
  /\ Goto(t, "done")
  /\ UNCHANGED <<fsVars, callVars, snapshots, changed, at, why, rbErr, faults>>

-----------------------------------------------------------------------------
\* The process dies: every call in flight stops where it is and no code
\* resumes or undoes it after a restart.  It spends a unit of the fault bound.
Crash ==
  /\ \E t \in Txns : pc[t] \notin {"done", "crashed"}
  /\ Fault
  /\ pc' = [t \in Txns |-> IF pc[t] = "done" THEN "done" ELSE "crashed"]
  /\ UNCHANGED <<fsVars, callVars, snapshots, changed, closed, at, why, rbErr,
                 outcome>>

\* What Execute does when nothing stops it.
Step(t) ==
  \/ RejectEntry(t) \/ Capture(t) \/ Stage(t) \/ Publish(t) \/ Remove(t)
  \/ StartVerify(t) \/ Commit(t) \/ VerifyFails(t)
  \/ StageOriginal(t) \/ Restore(t) \/ RemoveCreated(t) \/ FinishRollback(t)

StepFails(t) ==
  \/ CaptureFails(t) \/ StageFails(t) \/ PublishFails(t) \/ RemoveFails(t)
  \/ StageOriginalFails(t) \/ RestoreFails(t) \/ RemoveCreatedFails(t)

Execute(t) == Step(t) \/ StepFails(t)

Next == (\E t \in Txns : Execute(t)) \/ Crash

Spec == Init /\ [][Next]_vars

-----------------------------------------------------------------------------
(* Correctness.                                                            *)

TypeOK ==
  /\ disk \in [Paths -> File]
  /\ txTemp \in [Paths -> File]
  /\ rbTemp \in [Paths -> File]
  /\ snapshots \in [Txns -> [Paths -> File \cup {NoSnap}]]
  /\ changed \in [Txns -> Seq(Paths)]
  /\ closed \in [Txns -> BOOLEAN]
  /\ plan \in [Txns -> Plans]
  /\ verifier \in [Txns -> BOOLEAN]
  /\ pc \in [Txns -> PC]
  /\ at \in [Txns -> Nat]
  /\ why \in [Txns -> {"apply", "verify"}]
  /\ rbErr \in [Txns -> BOOLEAN]
  /\ outcome \in [Txns -> Outcome]
  /\ faults \in Nat
  /\ orig \in [Paths -> Contents \cup {Absent}]

\* No two calls in flight edit the same file.
Disjoint == \A t, u \in Txns : t # u => OwnPaths(t) \cap OwnPaths(u) = {}

\* The files of t's plan hold what the plan's first k entries produce: the
\* last entry for a path decides.
HoldsFirst(t, k) ==
  \A i \in 1 .. k :
    (\A j \in i + 1 .. k : plan[t][j].path # plan[t][i].path)
       => disk[plan[t][i].path] = Effect(plan[t][i])

HoldsOriginals(t) == \A p \in OwnPaths(t) : disk[p] = orig[p]

\* Execute is all or nothing for the files of its plan, whatever system call
\* fails before the rollback: success leaves the whole plan applied, a
\* reported failure whose rollback met no error leaves every original.
AllOrNothing ==
  Disjoint =>
    \A t \in Txns :
      /\ outcome[t] = "ok" => HoldsFirst(t, Len(plan[t]))
      /\ outcome[t] \notin {"none", "ok"} /\ ~rbErr[t] => HoldsOriginals(t)

\* Readers never see a partly written file, even when a call fails half way,
\* a rollback fails or the process dies: files only change by rename.
NeverTorn == Disjoint => \A p \in Paths : disk[p] # Torn

\* While a call is in flight or has died, each of its files that differs from
\* its original has been captured and recorded as changed: what Rollback
\* needs to undo the call is never behind what the call did.
Undoable ==
  Disjoint =>
    \A t \in Txns : pc[t] # "done" =>
      \A p \in OwnPaths(t) : disk[p] # orig[p] =>
        /\ snapshots[t][p] = orig[p]
        /\ \E i \in 1 .. Len(changed[t]) : changed[t][i] = p

\* Whenever a call stops, readers see whole files and Rollback has what it
\* needs to undo what was done so far.
RollbackReady == NeverTorn /\ Undoable

\* The workspace changes under a rolling back call only towards the original:
\* a restored file is never replaced by anything else.
RollbackOnlyRestores ==
  [][ Disjoint =>
        \A t \in Txns : pc[t] \in {"undo", "restore"} =>
          \A p \in OwnPaths(t) : disk'[p] # disk[p] => disk'[p] = orig[p] ]_vars

\* The workspace as the calls that returned left it: a call in flight has not
\* taken effect on the files of its plan.
InFlight(t) == pc[t] \notin {"done", "crashed"}
Settled == [p \in Paths |->
              IF \E t \in Txns : InFlight(t) /\ p \in OwnPaths(t)
              THEN orig[p] ELSE disk[p]]
Verdict == [t \in Txns |-> IF pc[t] = "crashed" THEN "crashed" ELSE outcome[t]]

Atomic == INSTANCE AtomicEdit WITH edits <- plan, store <- Settled,
                                   verdict <- Verdict

\* Execute implements the atomic edit: the steps of one call are invisible to
\* whoever looks at the workspace between calls.
ImplementsAtomicEdit == Atomic!ASpec
=============================================================================
