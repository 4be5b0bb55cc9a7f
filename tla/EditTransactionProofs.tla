----------------------- MODULE EditTransactionProofs -----------------------
(***************************************************************************)
(* AllOrNothing, NeverTorn and Undoable hold of EditTransaction for every  *)
(* set of calls, paths, contents and plans and every number of failing     *)
(* system calls, and calls on different files implement AtomicEdit.        *)
(***************************************************************************)
EXTENDS EditTransaction, TLAPS

Applying == {"next", "stage", "rename", "remove", "verify"}
Undo == {"undo", "restore"}

\* Where each call stands in its plan and in changed, whatever the others do.
Bookkeeping(t) ==
  /\ Len(changed[t]) <= Len(plan[t])
  /\ \A i \in 1 .. Len(changed[t]) :
       /\ changed[t][i] = plan[t][i].path
       /\ snapshots[t][changed[t][i]] # NoSnap
  /\ pc[t] \in Applying =>
       /\ at[t] = Len(changed[t]) + 1
       /\ ~rbErr[t] /\ ~closed[t]
  /\ pc[t] \in {"stage", "rename", "remove"} =>
       /\ InPlan(t)
       /\ snapshots[t][Current(t).path] # NoSnap
       /\ Current(t).op = IF pc[t] = "remove" THEN "delete" ELSE "write"
  /\ pc[t] = "verify" => ~InPlan(t)
  /\ pc[t] \in Undo => at[t] <= Len(changed[t])
  /\ pc[t] = "restore" => at[t] > 0 /\ Existed(t)
  /\ pc[t] # "done" => outcome[t] = "none"
  /\ pc[t] = "done" => outcome[t] # "none"

\* The part of the rollback still to come can restore every changed file, and
\* the part already done has, unless it met an error.
Recoverable(t) ==
  /\ \A p \in OwnPaths(t) : snapshots[t][p] \in {NoSnap, orig[p]}
  /\ pc[t] # "done" =>
       \A p \in OwnPaths(t) :
         (\A i \in 1 .. Len(changed[t]) : changed[t][i] # p) => disk[p] = orig[p]
  /\ pc[t] \in Applying => HoldsFirst(t, Len(changed[t]))
  /\ pc[t] \in Undo /\ ~rbErr[t] =>
       \A p \in OwnPaths(t) :
         (\A i \in 1 .. at[t] : changed[t][i] # p) => disk[p] = orig[p]
  /\ pc[t] = "rename" => txTemp[Current(t).path] = Current(t).content
  /\ pc[t] = "restore" => rbTemp[Undoing(t)] = orig[Undoing(t)]
  /\ outcome[t] = "ok" => HoldsFirst(t, Len(plan[t]))
  /\ outcome[t] \notin {"none", "ok"} /\ ~rbErr[t] => HoldsOriginals(t)

IInv ==
  /\ TypeOK
  /\ \A t \in Txns : Bookkeeping(t)
  /\ Disjoint => /\ \A t \in Txns : Recoverable(t)
                 /\ \A p \in Paths : disk[p] # Torn

-----------------------------------------------------------------------------
(* Type correctness.                                                       *)

\* What a plan entry is, and that the index of a call in its plan names one.
LEMMA PlanEntries ==
  ASSUME TypeOK, NEW t \in Txns
  PROVE  /\ plan[t] \in Seq(Entry)
         /\ Len(plan[t]) \in Nat
         /\ \A i \in 1 .. Len(plan[t]) :
              /\ plan[t][i] \in Entry
              /\ plan[t][i].path \in Paths
              /\ plan[t][i].content \in Contents
              /\ plan[t][i].op \in {"write", "delete", "reject"}
              /\ Effect(plan[t][i]) \in Contents \cup {Absent}
  <1>1. plan[t] \in Seq(Entry)
    BY PlanAssumption DEF TypeOK
  <1>2. ASSUME NEW i \in 1 .. Len(plan[t])
        PROVE  plan[t][i] \in Entry
    BY <1>1
  <1>3. QED
    BY <1>1, <1>2 DEF Entry, Effect

LEMMA TypeInit == Init => TypeOK
  BY DEF Init, TypeOK, File, PC, Outcome

\* The entry or the changed path a step works on is well formed.
LEMMA WorkingOn ==
  ASSUME TypeOK, NEW t \in Txns, Bookkeeping(t)
  PROVE  /\ Len(changed[t]) \in Nat
         /\ InPlan(t) => /\ Current(t).path \in Paths
                        /\ Current(t).content \in Contents
         /\ pc[t] \in {"stage", "rename", "remove"} => InPlan(t)
         /\ pc[t] \in Undo /\ at[t] > 0 => Undoing(t) \in Paths
         /\ pc[t] = "restore" => at[t] > 0
  <1>1. changed[t] \in Seq(Paths) /\ Len(changed[t]) \in Nat /\ at[t] \in Nat
    BY DEF TypeOK
  <1>2. InPlan(t) => Current(t).path \in Paths /\ Current(t).content \in Contents
    BY PlanEntries DEF InPlan, Current
  <1>3. pc[t] \in Undo /\ at[t] > 0 => Undoing(t) \in Paths
    BY <1>1 DEF Undoing, Bookkeeping
  <1>4. QED
    BY <1>1, <1>2, <1>3 DEF Bookkeeping

LEMMA TypeStep == TypeOK /\ (\A t \in Txns : Bookkeeping(t)) /\ [Next]_vars => TypeOK'
  <1>0. SUFFICES ASSUME TypeOK, \A t \in Txns : Bookkeeping(t), [Next]_vars
                 PROVE  TypeOK'
    OBVIOUS
  <1>1. ASSUME NEW t \in Txns, Execute(t)
        PROVE  TypeOK'
    <2>0. /\ Len(changed[t]) \in Nat
          /\ InPlan(t) => /\ Current(t).path \in Paths
                         /\ Current(t).content \in Contents
          /\ pc[t] \in {"stage", "rename", "remove"} => InPlan(t)
          /\ pc[t] \in Undo /\ at[t] > 0 => Undoing(t) \in Paths
          /\ pc[t] = "restore" => at[t] > 0
      BY <1>0, WorkingOn
    <2>1. CASE RejectEntry(t)
      BY <1>0, <2>0, <2>1 DEF RejectEntry, AbortApply, StartRollback, Goto, fsVars, callVars,
                         TypeOK, File, PC, Outcome, Undo
    <2>2. CASE Capture(t)
      BY <1>0, <2>0, <2>2 DEF Capture, FirstImage, Goto, fsVars, callVars,
                         TypeOK, File, PC, Outcome, Undo
    <2>3. CASE Stage(t)
      BY <1>0, <2>0, <2>3 DEF Stage, StagedFor, Goto, callVars,
                         TypeOK, File, PC, Outcome, Undo
    <2>4. CASE Publish(t)
      BY <1>0, <2>0, <2>4 DEF Publish, StagedFor, MovedFrom, Advance, Recorded, Goto, callVars,
                         TypeOK, File, PC, Outcome, Undo
    <2>5. CASE Remove(t)
      BY <1>0, <2>0, <2>5 DEF Remove, Advance, Recorded, Goto, callVars,
                         TypeOK, File, PC, Outcome, Undo
    <2>6. CASE StartVerify(t)
      BY <1>0, <2>0, <2>6 DEF StartVerify, Goto, fsVars, callVars,
                         TypeOK, File, PC, Outcome, Undo
    <2>7. CASE Commit(t)
      BY <1>0, <2>0, <2>7 DEF Commit, Goto, fsVars, callVars,
                         TypeOK, File, PC, Outcome, Undo
    <2>8. CASE VerifyFails(t)
      BY <1>0, <2>0, <2>8 DEF VerifyFails, StartRollback, Goto, fsVars, callVars,
                         TypeOK, File, PC, Outcome, Undo
    <2>9. CASE StageOriginal(t)
      BY <1>0, <2>0, <2>9 DEF StageOriginal, Existed, Goto, callVars,
                         TypeOK, File, PC, Outcome, Undo
    <2>10. CASE Restore(t)
      BY <1>0, <2>0, <2>10 DEF Restore, MovedFrom, StepBack, Goto, callVars,
                         TypeOK, File, PC, Outcome, Undo
    <2>11. CASE RemoveCreated(t)
      BY <1>0, <2>0, <2>11 DEF RemoveCreated, StepBack, callVars,
                         TypeOK, File, PC, Outcome, Undo
    <2>12. CASE FinishRollback(t)
      BY <1>0, <2>0, <2>12 DEF FinishRollback, Goto, fsVars, callVars,
                         TypeOK, File, PC, Outcome, Undo
    <2>13. CASE CaptureFails(t)
      BY <1>0, <2>0, <2>13 DEF CaptureFails, Fault, AbortApply, StartRollback, Goto, fsVars, callVars,
                         TypeOK, File, PC, Outcome, Undo
    <2>14. CASE StageFails(t)
      BY <1>0, <2>0, <2>14 DEF StageFails, Fault, StagedFor, StageError, AbortApply, StartRollback, Goto, callVars,
                         TypeOK, File, PC, Outcome, Undo
    <2>15. CASE PublishFails(t)
      BY <1>0, <2>0, <2>15 DEF PublishFails, Fault, StagedFor, AbortApply, StartRollback, Goto, callVars,
                         TypeOK, File, PC, Outcome, Undo
    <2>16. CASE RemoveFails(t)
      BY <1>0, <2>0, <2>16 DEF RemoveFails, Fault, AbortApply, StartRollback, Goto, fsVars, callVars,
                         TypeOK, File, PC, Outcome, Undo
    <2>17. CASE StageOriginalFails(t)
      BY <1>0, <2>0, <2>17 DEF StageOriginalFails, Fault, NoteError, StepBack, callVars,
                         TypeOK, File, PC, Outcome, Undo
    <2>18. CASE RestoreFails(t)
      BY <1>0, <2>0, <2>18 DEF RestoreFails, Fault, NoteError, StepBack, Goto, callVars,
                         TypeOK, File, PC, Outcome, Undo
    <2>19. CASE RemoveCreatedFails(t)
      BY <1>0, <2>0, <2>19 DEF RemoveCreatedFails, Fault, NoteError, StepBack, fsVars, callVars,
                         TypeOK, File, PC, Outcome, Undo
    <2>20. QED
      BY <1>1, <2>1, <2>2, <2>3, <2>4, <2>5, <2>6, <2>7, <2>8, <2>9, <2>10, <2>11, <2>12, <2>13, <2>14, <2>15, <2>16, <2>17, <2>18, <2>19 DEF Execute, Step, StepFails
  <1>2. CASE Crash
    BY <1>0, <1>2 DEF Crash, Fault, TypeOK, PC, fsVars, callVars
  <1>3. CASE UNCHANGED vars
    BY <1>0, <1>3 DEF vars, TypeOK
  <1>4. QED
    BY <1>0, <1>1, <1>2, <1>3 DEF Next

-----------------------------------------------------------------------------
(* Bookkeeping.                                                            *)

\* A step of one call leaves the local state of the others alone.
LEMMA OthersKept ==
  ASSUME TypeOK, NEW u \in Txns, NEW t \in Txns, t # u, Execute(u)
  PROVE  /\ snapshots'[t] = snapshots[t] /\ changed'[t] = changed[t]
         /\ closed'[t] = closed[t] /\ pc'[t] = pc[t] /\ at'[t] = at[t]
         /\ rbErr'[t] = rbErr[t] /\ outcome'[t] = outcome[t]
         /\ plan' = plan /\ orig' = orig
  <1>1. CASE RejectEntry(u)
    BY <1>1 DEF RejectEntry, AbortApply, StartRollback, Goto, fsVars, callVars, TypeOK
  <1>2. CASE Capture(u)
    BY <1>2 DEF Capture, FirstImage, Goto, fsVars, callVars, TypeOK
  <1>3. CASE Stage(u)
    BY <1>3 DEF Stage, StagedFor, Goto, callVars, TypeOK
  <1>4. CASE Publish(u)
    BY <1>4 DEF Publish, StagedFor, MovedFrom, Advance, Recorded, Goto, callVars, TypeOK
  <1>5. CASE Remove(u)
    BY <1>5 DEF Remove, Advance, Recorded, Goto, callVars, TypeOK
  <1>6. CASE StartVerify(u)
    BY <1>6 DEF StartVerify, Applied, Goto, fsVars, callVars, TypeOK
  <1>7. CASE Commit(u)
    BY <1>7 DEF Commit, Goto, fsVars, callVars, TypeOK
  <1>8. CASE VerifyFails(u)
    BY <1>8 DEF VerifyFails, StartRollback, Goto, fsVars, callVars, TypeOK
  <1>9. CASE StageOriginal(u)
    BY <1>9 DEF StageOriginal, Goto, callVars, TypeOK
  <1>10. CASE Restore(u)
    BY <1>10 DEF Restore, MovedFrom, StepBack, Goto, callVars, TypeOK
  <1>11. CASE RemoveCreated(u)
    BY <1>11 DEF RemoveCreated, StepBack, callVars, TypeOK
  <1>12. CASE FinishRollback(u)
    BY <1>12 DEF FinishRollback, Goto, fsVars, callVars, TypeOK
  <1>13. CASE CaptureFails(u)
    BY <1>13 DEF CaptureFails, AbortApply, StartRollback, Goto, fsVars, callVars, TypeOK
  <1>14. CASE StageFails(u)
    BY <1>14 DEF StageFails, StagedFor, StageError, AbortApply, StartRollback, Goto, callVars, TypeOK
  <1>15. CASE PublishFails(u)
    BY <1>15 DEF PublishFails, StagedFor, AbortApply, StartRollback, Goto, callVars, TypeOK
  <1>16. CASE RemoveFails(u)
    BY <1>16 DEF RemoveFails, AbortApply, StartRollback, Goto, fsVars, callVars, TypeOK
  <1>17. CASE StageOriginalFails(u)
    BY <1>17 DEF StageOriginalFails, NoteError, StepBack, callVars, TypeOK
  <1>18. CASE RestoreFails(u)
    BY <1>18 DEF RestoreFails, NoteError, StepBack, Goto, callVars, TypeOK
  <1>19. CASE RemoveCreatedFails(u)
    BY <1>19 DEF RemoveCreatedFails, NoteError, StepBack, fsVars, callVars, TypeOK
  <1>20. QED
    BY <1>1, <1>2, <1>3, <1>4, <1>5, <1>6, <1>7, <1>8, <1>9, <1>10, <1>11, <1>12, <1>13, <1>14, <1>15, <1>16, <1>17, <1>18, <1>19 DEF Execute, Step, StepFails

LEMMA BookkeepingInit == ASSUME Init, NEW t \in Txns PROVE Bookkeeping(t)
  BY PlanAssumption DEF Init, Bookkeeping, Applying, Undo

\* The call that takes the step.
LEMMA BookkeepingSelf ==
  ASSUME TypeOK, NEW u \in Txns, Bookkeeping(u), Execute(u)
  PROVE  Bookkeeping(u)'
  <1> USE DEF Bookkeeping, Applying, Undo, InPlan, Current, Undoing, Existed
  <1>0. /\ Len(plan[u]) \in Nat /\ Len(changed[u]) \in Nat
        /\ changed[u] \in Seq(Paths) /\ at[u] \in Nat
        /\ \A i \in 1 .. Len(plan[u]) : /\ plan[u][i].path \in Paths
                                        /\ plan[u][i].op \in {"write", "delete", "reject"}
    BY PlanEntries DEF TypeOK
  <1>1. CASE RejectEntry(u)
    BY <1>0, ValueAssumption, <1>1 DEF RejectEntry, AbortApply, StartRollback, Goto, fsVars, callVars, TypeOK
  <1>2. CASE Capture(u)
    <2>1. /\ changed'[u] = changed[u] /\ at'[u] = at[u] /\ plan'[u] = plan[u]
          /\ rbErr'[u] = rbErr[u] /\ closed'[u] = closed[u]
          /\ outcome'[u] = outcome[u]
      BY <1>2 DEF Capture, callVars
    <2>2. pc'[u] = IF Current(u).op = "write" THEN "stage" ELSE "remove"
      BY <1>2 DEF Capture, Goto, TypeOK
    <2>3. \A p \in Paths : snapshots[u][p] # NoSnap => snapshots'[u][p] # NoSnap
      BY <1>2, <1>0 DEF Capture, FirstImage, TypeOK
    <2>4. Current(u).path \in Paths
      BY <1>0, <1>2 DEF Capture
    <2>5. snapshots'[u][Current(u).path] # NoSnap
      BY <1>2, <2>4, ValueAssumption DEF Capture, FirstImage, TypeOK, File
    <2>6. /\ pc[u] = "next" /\ InPlan(u) /\ Current(u).op # "reject"
      BY <1>2 DEF Capture
    <2>7. QED
      BY <1>0, <2>1, <2>2, <2>3, <2>4, <2>5, <2>6
  <1>3. CASE Stage(u)
    BY <1>0, ValueAssumption, <1>3 DEF Stage, StagedFor, Goto, callVars, TypeOK
  <1>4. CASE Publish(u)
    BY <1>0, ValueAssumption, <1>4 DEF Publish, StagedFor, MovedFrom, Advance, Recorded, Goto, callVars, TypeOK
  <1>5. CASE Remove(u)
    BY <1>0, ValueAssumption, <1>5 DEF Remove, Advance, Recorded, Goto, callVars, TypeOK
  <1>6. CASE StartVerify(u)
    BY <1>0, ValueAssumption, <1>6 DEF StartVerify, Applied, Goto, fsVars, callVars, TypeOK
  <1>7. CASE Commit(u)
    BY <1>0, ValueAssumption, <1>7 DEF Commit, Goto, fsVars, callVars, TypeOK
  <1>8. CASE VerifyFails(u)
    BY <1>0, ValueAssumption, <1>8 DEF VerifyFails, StartRollback, Goto, fsVars, callVars, TypeOK
  <1>9. CASE StageOriginal(u)
    BY <1>0, ValueAssumption, <1>9 DEF StageOriginal, Goto, callVars, TypeOK
  <1>10. CASE Restore(u)
    BY <1>0, ValueAssumption, <1>10 DEF Restore, MovedFrom, StepBack, Goto, callVars, TypeOK
  <1>11. CASE RemoveCreated(u)
    BY <1>0, ValueAssumption, <1>11 DEF RemoveCreated, StepBack, callVars, TypeOK
  <1>12. CASE FinishRollback(u)
    BY <1>0, ValueAssumption, <1>12 DEF FinishRollback, Goto, fsVars, callVars, TypeOK
  <1>13. CASE CaptureFails(u)
    BY <1>0, ValueAssumption, <1>13 DEF CaptureFails, AbortApply, StartRollback, Goto, fsVars, callVars, TypeOK
  <1>14. CASE StageFails(u)
    BY <1>0, ValueAssumption, <1>14 DEF StageFails, StagedFor, StageError, AbortApply, StartRollback, Goto, callVars, TypeOK
  <1>15. CASE PublishFails(u)
    BY <1>0, ValueAssumption, <1>15 DEF PublishFails, StagedFor, AbortApply, StartRollback, Goto, callVars, TypeOK
  <1>16. CASE RemoveFails(u)
    BY <1>0, ValueAssumption, <1>16 DEF RemoveFails, AbortApply, StartRollback, Goto, fsVars, callVars, TypeOK
  <1>17. CASE StageOriginalFails(u)
    BY <1>0, ValueAssumption, <1>17 DEF StageOriginalFails, NoteError, StepBack, callVars, TypeOK
  <1>18. CASE RestoreFails(u)
    BY <1>0, ValueAssumption, <1>18 DEF RestoreFails, NoteError, StepBack, Goto, callVars, TypeOK
  <1>19. CASE RemoveCreatedFails(u)
    BY <1>0, ValueAssumption, <1>19 DEF RemoveCreatedFails, NoteError, StepBack, fsVars, callVars, TypeOK
  <1>20. QED
    BY <1>1, <1>2, <1>3, <1>4, <1>5, <1>6, <1>7, <1>8, <1>9, <1>10, <1>11, <1>12, <1>13, <1>14, <1>15, <1>16, <1>17, <1>18, <1>19 DEF Execute, Step, StepFails

LEMMA BookkeepingStep ==
  ASSUME TypeOK, \A t \in Txns : Bookkeeping(t), [Next]_vars
  PROVE  \A t \in Txns : Bookkeeping(t)'
  <1>0. TypeOK /\ (\A t \in Txns : Bookkeeping(t)) /\ [Next]_vars
    OBVIOUS
  <1>1. ASSUME NEW u \in Txns, Execute(u), NEW t \in Txns, t # u
        PROVE  Bookkeeping(t)'
    <2>1. /\ snapshots'[t] = snapshots[t] /\ changed'[t] = changed[t]
          /\ closed'[t] = closed[t] /\ pc'[t] = pc[t] /\ at'[t] = at[t]
          /\ rbErr'[t] = rbErr[t] /\ outcome'[t] = outcome[t]
          /\ plan' = plan
      BY <1>0, <1>1, OthersKept
    <2>2. Bookkeeping(t)
      BY <1>0
    <2>3. QED
      BY <2>1, <2>2 DEF Bookkeeping, Applying, Undo, InPlan, Current, Undoing, Existed
  <1>2. ASSUME NEW u \in Txns, Execute(u)
        PROVE  Bookkeeping(u)'
    BY <1>0, <1>2, BookkeepingSelf
  <1>3. ASSUME Crash, NEW t \in Txns
        PROVE  Bookkeeping(t)'
    BY <1>0, <1>3 DEF Crash, TypeOK, fsVars, callVars, Bookkeeping, Applying, Undo,
                InPlan, Current, Undoing, Existed
  <1>4. ASSUME UNCHANGED vars, NEW t \in Txns
        PROVE  Bookkeeping(t)'
    BY <1>0, <1>4 DEF vars, Bookkeeping, Applying, Undo, InPlan, Current, Undoing, Existed
  <1>5. QED
    BY <1>0, <1>1, <1>2, <1>3, <1>4 DEF Next

-----------------------------------------------------------------------------
(* Recoverability.                                                         *)

\* The entries done and the changed paths are files of the plan.
LEMMA OwnsItsPaths ==
  ASSUME TypeOK, NEW u \in Txns, Bookkeeping(u)
  PROVE  /\ OwnPaths(u) \subseteq Paths
         /\ InPlan(u) => Current(u).path \in OwnPaths(u)
         /\ \A i \in 1 .. Len(changed[u]) : changed[u][i] \in OwnPaths(u)
         /\ pc[u] \in Undo /\ at[u] > 0 => Undoing(u) \in OwnPaths(u)
  <1>1. /\ Len(plan[u]) \in Nat /\ Len(changed[u]) \in Nat /\ at[u] \in Nat
        /\ \A i \in 1 .. Len(plan[u]) : plan[u][i].path \in Paths
    BY PlanEntries DEF TypeOK
  <1>2. QED
    BY <1>1 DEF OwnPaths, InPlan, Current, Undoing, Bookkeeping

\* A step of a call reaches the files of its plan only, and gives a file a
\* complete content, its original or no content at all.
LEMMA OwnFilesOnly ==
  ASSUME TypeOK, NEW u \in Txns, Bookkeeping(u), Recoverable(u), Execute(u)
  PROVE  /\ \A p \in Paths : p \notin OwnPaths(u) =>
              /\ disk'[p] = disk[p]
              /\ txTemp'[p] = txTemp[p]
              /\ rbTemp'[p] = rbTemp[p]
         /\ \A p \in Paths : disk'[p] # disk[p] =>
              disk'[p] \in Contents \cup {Absent, orig[p]}
  <1>0. /\ OwnPaths(u) \subseteq Paths
        /\ InPlan(u) => Current(u).path \in OwnPaths(u)
        /\ InPlan(u) => Current(u).content \in Contents
        /\ pc[u] \in {"stage", "rename", "remove"} => InPlan(u)
        /\ pc[u] \in Undo /\ at[u] > 0 => Undoing(u) \in OwnPaths(u)
        /\ pc[u] = "restore" => at[u] > 0
        /\ pc[u] = "rename" => txTemp[Current(u).path] = Current(u).content
        /\ pc[u] = "restore" => rbTemp[Undoing(u)] = orig[Undoing(u)]
    BY OwnsItsPaths, WorkingOn DEF Recoverable
  <1>1. CASE RejectEntry(u)
    BY <1>0, <1>1 DEF RejectEntry, AbortApply, StartRollback, Goto, fsVars, callVars, TypeOK, Undo
  <1>2. CASE Capture(u)
    BY <1>0, <1>2 DEF Capture, FirstImage, Goto, fsVars, callVars, TypeOK, Undo
  <1>3. CASE Stage(u)
    BY <1>0, <1>3 DEF Stage, StagedFor, Goto, callVars, TypeOK, Undo
  <1>4. CASE Publish(u)
    BY <1>0, <1>4 DEF Publish, StagedFor, MovedFrom, Advance, Recorded, Goto, callVars, TypeOK, Undo
  <1>5. CASE Remove(u)
    BY <1>0, <1>5 DEF Remove, Advance, Recorded, Goto, callVars, TypeOK, Undo
  <1>6. CASE StartVerify(u)
    BY <1>0, <1>6 DEF StartVerify, Applied, Goto, fsVars, callVars, TypeOK, Undo
  <1>7. CASE Commit(u)
    BY <1>0, <1>7 DEF Commit, Applied, Goto, fsVars, callVars, TypeOK, Undo
  <1>8. CASE VerifyFails(u)
    BY <1>0, <1>8 DEF VerifyFails, StartRollback, Goto, fsVars, callVars, TypeOK, Undo
  <1>9. CASE StageOriginal(u)
    BY <1>0, <1>9 DEF StageOriginal, Goto, callVars, TypeOK, Undo
  <1>10. CASE Restore(u)
    BY <1>0, <1>10 DEF Restore, MovedFrom, StepBack, Goto, callVars, TypeOK, Undo
  <1>11. CASE RemoveCreated(u)
    BY <1>0, <1>11 DEF RemoveCreated, StepBack, callVars, TypeOK, Undo
  <1>12. CASE FinishRollback(u)
    BY <1>0, <1>12 DEF FinishRollback, Goto, fsVars, callVars, TypeOK, Undo
  <1>13. CASE CaptureFails(u)
    BY <1>0, <1>13 DEF CaptureFails, AbortApply, StartRollback, Goto, fsVars, callVars, TypeOK, Undo
  <1>14. CASE StageFails(u)
    BY <1>0, <1>14 DEF StageFails, StagedFor, StageError, AbortApply, StartRollback, Goto, callVars, TypeOK, Undo
  <1>15. CASE PublishFails(u)
    BY <1>0, <1>15 DEF PublishFails, StagedFor, AbortApply, StartRollback, Goto, callVars, TypeOK, Undo
  <1>16. CASE RemoveFails(u)
    BY <1>0, <1>16 DEF RemoveFails, AbortApply, StartRollback, Goto, fsVars, callVars, TypeOK, Undo
  <1>17. CASE StageOriginalFails(u)
    BY <1>0, <1>17 DEF StageOriginalFails, NoteError, StepBack, callVars, TypeOK, Undo
  <1>18. CASE RestoreFails(u)
    BY <1>0, <1>18 DEF RestoreFails, NoteError, StepBack, Goto, callVars, TypeOK, Undo
  <1>19. CASE RemoveCreatedFails(u)
    BY <1>0, <1>19 DEF RemoveCreatedFails, NoteError, StepBack, fsVars, callVars, TypeOK, Undo
  <1>20. QED
    BY <1>1, <1>2, <1>3, <1>4, <1>5, <1>6, <1>7, <1>8, <1>9, <1>10, <1>11, <1>12, <1>13, <1>14, <1>15, <1>16, <1>17, <1>18, <1>19
       DEF Execute, Step, StepFails

LEMMA RecoverableInit == ASSUME Init, NEW t \in Txns PROVE Recoverable(t)
  <1>1. changed[t] = << >> /\ Len(changed[t]) = 0 /\ pc[t] = "next"
    BY DEF Init
  <1>2. HoldsFirst(t, Len(changed[t]))
    BY <1>1 DEF HoldsFirst
  <1>3. TypeOK
    BY TypeInit
  <1>4. \A p \in OwnPaths(t) : p \in Paths
    BY <1>3, PlanEntries DEF OwnPaths
  <1>5. /\ outcome[t] = "none" /\ disk = orig
        /\ \A p \in OwnPaths(t) : snapshots[t][p] = NoSnap
    BY <1>4 DEF Init
  <1>6. QED
    BY <1>1, <1>2, <1>5 DEF Recoverable, Undo

LEMMA CallsKept == ASSUME NEW u \in Txns, Execute(u) PROVE plan' = plan /\ orig' = orig
  BY DEF Execute, Step, StepFails, callVars, RejectEntry, Capture, Stage, Publish, Remove, StartVerify, Commit, VerifyFails, StageOriginal, Restore, RemoveCreated, FinishRollback, CaptureFails, StageFails, PublishFails, RemoveFails, StageOriginalFails, RestoreFails, RemoveCreatedFails

\* The call that takes the step.
LEMMA RecoverableSelf ==
  ASSUME TypeOK, NEW u \in Txns, Bookkeeping(u), Recoverable(u), Execute(u)
  PROVE  Recoverable(u)'
  <1> USE DEF Recoverable, Bookkeeping, Applying, Undo, HoldsOriginals
  <1>0. /\ Len(plan[u]) \in Nat /\ Len(changed[u]) \in Nat /\ at[u] \in Nat
        /\ changed[u] \in Seq(Paths)
        /\ OwnPaths(u) \subseteq Paths
        /\ InPlan(u) => Current(u).path \in OwnPaths(u)
        /\ pc[u] \in Undo /\ at[u] > 0 => Undoing(u) \in OwnPaths(u)
        /\ plan' = plan /\ orig' = orig
        /\ OwnPaths(u)' = OwnPaths(u)
    <2>1. plan' = plan /\ orig' = orig
      BY CallsKept
    <2>2. OwnPaths(u)' = OwnPaths(u)
      BY <2>1 DEF OwnPaths
    <2>3. Len(plan[u]) \in Nat /\ OwnPaths(u) \subseteq Paths
      BY OwnsItsPaths, PlanEntries
    <2>4. /\ InPlan(u) => Current(u).path \in OwnPaths(u)
          /\ pc[u] \in {"undo", "restore"} /\ at[u] > 0 => Undoing(u) \in OwnPaths(u)
      BY OwnsItsPaths
    <2>5. changed[u] \in Seq(Paths) /\ Len(changed[u]) \in Nat /\ at[u] \in Nat
      BY DEF TypeOK
    <2>6. QED
      BY <2>1, <2>2, <2>3, <2>4, <2>5
  <1>1. CASE RejectEntry(u)
    BY <1>0, <1>1 DEF RejectEntry, AbortApply, StartRollback, Goto, fsVars, callVars, TypeOK, HoldsFirst
  <1>2. CASE Capture(u)
    <2> DEFINE q == Current(u).path
    <2>1. /\ disk' = disk /\ rbErr' = rbErr /\ changed' = changed
          /\ outcome'[u] = "none" /\ q \in Paths /\ q \in OwnPaths(u)
          /\ pc[u] = "next" /\ pc'[u] \in {"stage", "remove"}
      BY <1>0, <1>2 DEF Capture, Goto, fsVars, TypeOK
    <2>2. snapshots[u][q] = NoSnap => disk[q] = orig[q]
      BY <1>0, <2>1
    <2>3. \A p \in Paths : p # q => snapshots'[u][p] = snapshots[u][p]
      BY <1>2 DEF Capture, TypeOK
    <2>4. snapshots'[u][q] \in {NoSnap, orig[q]}
      BY <1>0, <1>2, <2>1, <2>2 DEF Capture, FirstImage, TypeOK
    <2>5. HoldsFirst(u, Len(changed[u]))'
      BY <1>0, <2>1 DEF HoldsFirst
    <2>6. QED
      BY <1>0, <2>1, <2>3, <2>4, <2>5
  <1>3. CASE Stage(u)
    <2>1. /\ disk' = disk /\ rbErr' = rbErr /\ changed' = changed
          /\ snapshots' = snapshots /\ outcome'[u] = "none" /\ at' = at
          /\ pc[u] = "stage" /\ pc'[u] = "rename"
          /\ Current(u).path \in OwnPaths(u)
      BY <1>0, <1>3 DEF Stage, Goto, TypeOK
    <2>2. txTemp'[Current(u).path] = Current(u).content
      BY <1>0, <1>3, <2>1 DEF Stage, StagedFor, TypeOK
    <2>3. HoldsFirst(u, Len(changed[u]))'
      BY <1>0, <2>1 DEF HoldsFirst
    <2>4. Current(u)' = Current(u)
      BY <1>0, <2>1 DEF Current
    <2>5. QED
      BY <1>0, <2>1, <2>2, <2>3, <2>4
  <1>4. CASE Publish(u)
    <2> DEFINE q == Current(u).path
               k == Len(changed[u])
    <2>1. /\ q \in OwnPaths(u) /\ InPlan(u) /\ at[u] = k + 1
          /\ snapshots' = snapshots /\ rbErr' = rbErr /\ outcome'[u] = "none"
          /\ changed'[u] = Append(changed[u], q) /\ pc'[u] = "next"
      BY <1>0, <1>4 DEF Publish, Advance, Recorded, Goto, TypeOK
    <2>2. /\ disk'[q] = Effect(plan[u][k + 1])
          /\ \A p \in Paths : p # q => disk'[p] = disk[p]
      BY <1>0, <1>4, <2>1 DEF Publish, StagedFor, Current, Effect, TypeOK
    <2>3. /\ Len(changed'[u]) = k + 1
          /\ changed'[u][k + 1] = q
          /\ \A i \in 1 .. k : changed'[u][i] = changed[u][i]
      BY <1>0, <2>1
    <2>4. ASSUME NEW p \in OwnPaths(u), \A i \in 1 .. k + 1 : changed'[u][i] # p
          PROVE  disk'[p] = orig[p]
      <3>1. p # q /\ \A i \in 1 .. k : changed[u][i] # p
        BY <1>0, <2>3, <2>4
      <3>2. QED
        BY <1>0, <1>4, <2>2, <3>1 DEF Publish
    <2>5. ASSUME NEW i \in 1 .. k + 1,
                 \A j \in i + 1 .. k + 1 : plan[u][j].path # plan[u][i].path
          PROVE  disk'[plan[u][i].path] = Effect(plan[u][i])
      <3>1. q = plan[u][k + 1].path
        BY <2>1 DEF Current
      <3>2. CASE i = k + 1
        BY <2>2, <3>1, <3>2
      <3>3. CASE i \in 1 .. k
        <4>0. k + 1 \in i + 1 .. k + 1 /\ i \in 1 .. Len(plan[u])
          BY <1>0, <2>1, <3>3 DEF InPlan
        <4>1. plan[u][i].path # q /\ plan[u][i].path \in Paths
          BY <2>5, <3>1, <4>0, PlanEntries
        <4>2. HoldsFirst(u, k)
          BY <1>4 DEF Publish
        <4>3. \A j \in i + 1 .. k : plan[u][j].path # plan[u][i].path
          BY <1>0, <2>5, <3>3
        <4>4. disk[plan[u][i].path] = Effect(plan[u][i])
          BY <3>3, <4>2, <4>3 DEF HoldsFirst
        <4>5. QED
          BY <2>2, <4>1, <4>4
      <3>4. QED
        BY <1>0, <3>2, <3>3
    <2>6. HoldsFirst(u, Len(changed[u]))'
      BY <1>0, <2>3, <2>5 DEF HoldsFirst, Effect
    <2>7. QED
      BY <1>0, <2>1, <2>3, <2>4, <2>6
  <1>5. CASE Remove(u)
    <2> DEFINE q == Current(u).path
               k == Len(changed[u])
    <2>1. /\ q \in OwnPaths(u) /\ InPlan(u) /\ at[u] = k + 1
          /\ snapshots' = snapshots /\ rbErr' = rbErr /\ outcome'[u] = "none"
          /\ changed'[u] = Append(changed[u], q) /\ pc'[u] = "next"
      BY <1>0, <1>5 DEF Remove, Advance, Recorded, Goto, TypeOK
    <2>2. /\ disk'[q] = Effect(plan[u][k + 1])
          /\ \A p \in Paths : p # q => disk'[p] = disk[p]
      BY <1>0, <1>5, <2>1 DEF Remove, Current, Effect, TypeOK
    <2>3. /\ Len(changed'[u]) = k + 1
          /\ changed'[u][k + 1] = q
          /\ \A i \in 1 .. k : changed'[u][i] = changed[u][i]
      BY <1>0, <2>1
    <2>4. ASSUME NEW p \in OwnPaths(u), \A i \in 1 .. k + 1 : changed'[u][i] # p
          PROVE  disk'[p] = orig[p]
      <3>1. p # q /\ \A i \in 1 .. k : changed[u][i] # p
        BY <1>0, <2>3, <2>4
      <3>2. QED
        BY <1>0, <1>5, <2>2, <3>1 DEF Remove
    <2>5. ASSUME NEW i \in 1 .. k + 1,
                 \A j \in i + 1 .. k + 1 : plan[u][j].path # plan[u][i].path
          PROVE  disk'[plan[u][i].path] = Effect(plan[u][i])
      <3>1. q = plan[u][k + 1].path
        BY <2>1 DEF Current
      <3>2. CASE i = k + 1
        BY <2>2, <3>1, <3>2
      <3>3. CASE i \in 1 .. k
        <4>0. k + 1 \in i + 1 .. k + 1 /\ i \in 1 .. Len(plan[u])
          BY <1>0, <2>1, <3>3 DEF InPlan
        <4>1. plan[u][i].path # q /\ plan[u][i].path \in Paths
          BY <2>5, <3>1, <4>0, PlanEntries
        <4>2. HoldsFirst(u, k)
          BY <1>5 DEF Remove
        <4>3. \A j \in i + 1 .. k : plan[u][j].path # plan[u][i].path
          BY <1>0, <2>5, <3>3
        <4>4. disk[plan[u][i].path] = Effect(plan[u][i])
          BY <3>3, <4>2, <4>3 DEF HoldsFirst
        <4>5. QED
          BY <2>2, <4>1, <4>4
      <3>4. QED
        BY <1>0, <3>2, <3>3
    <2>6. HoldsFirst(u, Len(changed[u]))'
      BY <1>0, <2>3, <2>5 DEF HoldsFirst, Effect
    <2>7. QED
      BY <1>0, <2>1, <2>3, <2>4, <2>6
  <1>6. CASE StartVerify(u)
    BY <1>0, <1>6 DEF StartVerify, Applied, Goto, fsVars, callVars, TypeOK, HoldsFirst
  <1>7. CASE Commit(u)
    <2>1. /\ disk' = disk /\ outcome'[u] = "ok" /\ pc'[u] = "done"
          /\ \A p \in Paths : snapshots'[u][p] = NoSnap
      BY <1>7 DEF Commit, Goto, fsVars, TypeOK
    <2>2. /\ pc[u] \in {"next", "verify"} /\ ~InPlan(u)
          /\ at[u] = Len(changed[u]) + 1
      BY <1>7 DEF Commit, Applied
    <2>3. Len(changed[u]) = Len(plan[u])
      BY <1>0, <2>2 DEF InPlan
    <2>4. HoldsFirst(u, Len(plan[u]))
      BY <2>2, <2>3
    <2>5. HoldsFirst(u, Len(plan[u]))'
      BY <1>0, <2>1, <2>4 DEF HoldsFirst, Effect
    <2>6. QED
      BY <1>0, <2>1, <2>5
  <1>8. CASE VerifyFails(u)
    BY <1>0, <1>8 DEF VerifyFails, StartRollback, Goto, fsVars, callVars, TypeOK, HoldsFirst
  <1>9. CASE StageOriginal(u)
    <2>1. /\ disk' = disk /\ rbErr' = rbErr /\ changed' = changed
          /\ snapshots' = snapshots /\ outcome'[u] = "none" /\ at' = at
          /\ pc[u] = "undo" /\ pc'[u] = "restore"
          /\ Undoing(u) \in OwnPaths(u)
      BY <1>0, <1>9 DEF StageOriginal, Goto, TypeOK
    <2>2. rbTemp'[Undoing(u)] = orig[Undoing(u)]
      BY <1>0, <1>9, <2>1 DEF StageOriginal, Existed, TypeOK
    <2>3. Undoing(u)' = Undoing(u)
      BY <2>1 DEF Undoing
    <2>4. QED
      BY <1>0, <2>1, <2>2, <2>3
  <1>10. CASE Restore(u)
    <2> DEFINE q == Undoing(u)
    <2>1. /\ q \in OwnPaths(u) /\ q = changed[u][at[u]] /\ at[u] > 0
          /\ snapshots' = snapshots /\ rbErr' = rbErr /\ outcome'[u] = "none"
          /\ changed' = changed /\ pc[u] \in Undo /\ pc'[u] = "undo"
          /\ at'[u] = at[u] - 1
      BY <1>0, <1>10 DEF Restore, StepBack, Goto, Undoing, TypeOK
    <2>2. /\ disk'[q] = orig[q]
          /\ \A p \in Paths : p # q => disk'[p] = disk[p]
      BY <1>0, <1>10, <2>1 DEF Restore, TypeOK
    <2>3. at[u] <= Len(changed[u])
      BY <2>1
    <2>4. ASSUME NEW p \in OwnPaths(u), ~rbErr[u],
                 \A i \in 1 .. at[u] - 1 : changed[u][i] # p
          PROVE  disk'[p] = orig[p]
      <3>1. CASE p = q
        BY <2>2, <3>1
      <3>2. CASE p # q
        <4>1. \A i \in 1 .. at[u] : changed[u][i] # p
          BY <1>0, <2>1, <2>4, <3>2
        <4>2. QED
          BY <1>0, <2>1, <2>2, <2>4, <3>2, <4>1
      <3>3. QED
        BY <3>1, <3>2
    <2>5. ASSUME NEW p \in OwnPaths(u),
                 \A i \in 1 .. Len(changed[u]) : changed[u][i] # p
          PROVE  disk'[p] = orig[p]
      BY <1>0, <2>1, <2>2, <2>5
    <2>6. QED
      BY <1>0, <2>1, <2>4, <2>5
  <1>11. CASE RemoveCreated(u)
    <2> DEFINE q == Undoing(u)
    <2>1. /\ q \in OwnPaths(u) /\ q = changed[u][at[u]] /\ at[u] > 0
          /\ snapshots' = snapshots /\ rbErr' = rbErr /\ outcome'[u] = "none"
          /\ changed' = changed /\ pc[u] \in Undo /\ pc'[u] = "undo"
          /\ at'[u] = at[u] - 1
      BY <1>0, <1>11 DEF RemoveCreated, StepBack, Goto, Undoing, TypeOK
    <2>2. /\ disk'[q] = orig[q]
          /\ \A p \in Paths : p # q => disk'[p] = disk[p]
      BY <1>0, <1>11, <2>1 DEF RemoveCreated, Existed, Undoing, TypeOK
    <2>3. at[u] <= Len(changed[u])
      BY <2>1
    <2>4. ASSUME NEW p \in OwnPaths(u), ~rbErr[u],
                 \A i \in 1 .. at[u] - 1 : changed[u][i] # p
          PROVE  disk'[p] = orig[p]
      <3>1. CASE p = q
        BY <2>2, <3>1
      <3>2. CASE p # q
        <4>1. \A i \in 1 .. at[u] : changed[u][i] # p
          BY <1>0, <2>1, <2>4, <3>2
        <4>2. QED
          BY <1>0, <2>1, <2>2, <2>4, <3>2, <4>1
      <3>3. QED
        BY <3>1, <3>2
    <2>5. ASSUME NEW p \in OwnPaths(u),
                 \A i \in 1 .. Len(changed[u]) : changed[u][i] # p
          PROVE  disk'[p] = orig[p]
      BY <1>0, <2>1, <2>2, <2>5
    <2>6. QED
      BY <1>0, <2>1, <2>4, <2>5
  <1>12. CASE FinishRollback(u)
    BY <1>0, <1>12 DEF FinishRollback, Goto, fsVars, callVars, TypeOK, HoldsFirst
  <1>13. CASE CaptureFails(u)
    BY <1>0, <1>13 DEF CaptureFails, AbortApply, StartRollback, Goto, fsVars, callVars, TypeOK, HoldsFirst
  <1>14. CASE StageFails(u)
    BY <1>0, <1>14 DEF StageFails, StagedFor, StageError, AbortApply, StartRollback, Goto, callVars, TypeOK, HoldsFirst
  <1>15. CASE PublishFails(u)
    BY <1>0, <1>15 DEF PublishFails, StagedFor, AbortApply, StartRollback, Goto, callVars, TypeOK, HoldsFirst
  <1>16. CASE RemoveFails(u)
    BY <1>0, <1>16 DEF RemoveFails, AbortApply, StartRollback, Goto, fsVars, callVars, TypeOK, HoldsFirst
  <1>17. CASE StageOriginalFails(u)
    BY <1>0, <1>17 DEF StageOriginalFails, NoteError, StepBack, callVars, TypeOK, HoldsFirst
  <1>18. CASE RestoreFails(u)
    BY <1>0, <1>18 DEF RestoreFails, NoteError, StepBack, Goto, callVars, TypeOK, HoldsFirst
  <1>19. CASE RemoveCreatedFails(u)
    BY <1>0, <1>19 DEF RemoveCreatedFails, NoteError, StepBack, fsVars, callVars, TypeOK, HoldsFirst
  <1>20. QED
    BY <1>1, <1>2, <1>3, <1>4, <1>5, <1>6, <1>7, <1>8, <1>9, <1>10, <1>11, <1>12, <1>13, <1>14, <1>15, <1>16, <1>17, <1>18, <1>19
       DEF Execute, Step, StepFails

\* The calls that do not take the step, when no file is shared.
LEMMA RecoverableOthers ==
  ASSUME TypeOK, Disjoint, NEW u \in Txns, NEW t \in Txns, t # u,
         Bookkeeping(u), Recoverable(u), Execute(u),
         Bookkeeping(t), Recoverable(t)
  PROVE  Recoverable(t)'
  <1>1. /\ snapshots'[t] = snapshots[t] /\ changed'[t] = changed[t]
        /\ pc'[t] = pc[t] /\ at'[t] = at[t]
        /\ rbErr'[t] = rbErr[t] /\ outcome'[t] = outcome[t]
        /\ plan' = plan /\ orig' = orig
    BY OthersKept
  <1>2. OwnPaths(t)' = OwnPaths(t) /\ OwnPaths(t) \subseteq Paths
    BY <1>1, OwnsItsPaths DEF OwnPaths
  <1>3. \A p \in OwnPaths(t) : p \in Paths /\ p \notin OwnPaths(u)
    BY <1>2 DEF Disjoint
  <1>4. \A p \in OwnPaths(t) : disk'[p] = disk[p] /\ txTemp'[p] = txTemp[p]
                               /\ rbTemp'[p] = rbTemp[p]
    BY <1>3, OwnFilesOnly
  <1>5. /\ Len(plan[t]) \in Nat /\ Len(changed[t]) \in Nat
        /\ \A i \in 1 .. Len(plan[t]) : plan[t][i].path \in OwnPaths(t)
    BY PlanEntries DEF TypeOK, OwnPaths
  <1>6. ASSUME NEW k \in Nat, k <= Len(plan[t]), HoldsFirst(t, k)
        PROVE  HoldsFirst(t, k)'
    BY <1>1, <1>4, <1>5, <1>6 DEF HoldsFirst, Effect
  <1>7. pc[t] \in Applying => HoldsFirst(t, Len(changed[t]))'
    <2>1. Len(changed[t]) <= Len(plan[t])
      BY DEF Bookkeeping
    <2>2. pc[t] \in Applying => HoldsFirst(t, Len(changed[t]))
      BY DEF Recoverable
    <2>3. QED
      BY <1>1, <1>5, <1>6, <2>1, <2>2 DEF HoldsFirst
  <1>8. outcome[t] = "ok" => HoldsFirst(t, Len(plan[t]))'
    <2>1. outcome[t] = "ok" => HoldsFirst(t, Len(plan[t]))
      BY DEF Recoverable
    <2>2. QED
      BY <1>1, <1>5, <1>6, <2>1 DEF HoldsFirst
  <1>9. /\ Current(t)' = Current(t)
        /\ Undoing(t)' = Undoing(t)
        /\ pc[t] = "rename" => Current(t).path \in OwnPaths(t)
        /\ pc[t] = "restore" => Undoing(t) \in OwnPaths(t)
    BY <1>1, OwnsItsPaths DEF Bookkeeping, Current, Undoing, Undo
  <1>10. QED
    BY <1>1, <1>2, <1>4, <1>7, <1>8, <1>9
       DEF Recoverable, Applying, Undo, HoldsOriginals

\* The whole system, when no file is shared.
LEMMA RecoverableStep ==
  ASSUME TypeOK, \A t \in Txns : Bookkeeping(t), Disjoint,
         \A t \in Txns : Recoverable(t), \A p \in Paths : disk[p] # Torn,
         [Next]_vars
  PROVE  /\ \A t \in Txns : Recoverable(t)'
         /\ \A p \in Paths : disk'[p] # Torn
  <1>0. /\ TypeOK /\ (\A t \in Txns : Bookkeeping(t)) /\ Disjoint
        /\ \A t \in Txns : Recoverable(t)
        /\ \A p \in Paths : disk[p] # Torn
        /\ [Next]_vars
    OBVIOUS
  <1>1. ASSUME NEW u \in Txns, Execute(u)
        PROVE  /\ \A t \in Txns : Recoverable(t)'
               /\ \A p \in Paths : disk'[p] # Torn
    <2>1. Recoverable(u)'
      BY <1>0, <1>1, RecoverableSelf
    <2>2. ASSUME NEW t \in Txns, t # u
          PROVE  Recoverable(t)'
      BY <1>0, <1>1, <2>2, RecoverableOthers
    <2>3. \A p \in Paths : disk'[p] # disk[p] =>
            disk'[p] \in Contents \cup {Absent, orig[p]}
      BY <1>0, <1>1, OwnFilesOnly
    <2>4. \A p \in Paths : orig[p] # Torn
      BY <1>0, ValueAssumption DEF TypeOK
    <2>5. \A p \in Paths : disk'[p] # Torn
      BY <1>0, <2>3, <2>4, ValueAssumption
    <2>6. QED
      BY <2>1, <2>2, <2>5
  <1>2. ASSUME Crash, NEW t \in Txns
        PROVE  Recoverable(t)'
    <2>1. /\ plan' = plan /\ orig' = orig /\ disk' = disk
          /\ snapshots' = snapshots /\ changed' = changed
          /\ rbErr' = rbErr /\ outcome' = outcome
          /\ pc'[t] = IF pc[t] = "done" THEN "done" ELSE "crashed"
      BY <1>2 DEF Crash, fsVars, callVars
    <2>2. OwnPaths(t)' = OwnPaths(t) /\ HoldsOriginals(t)' = HoldsOriginals(t)
          /\ HoldsFirst(t, Len(plan[t]))' = HoldsFirst(t, Len(plan[t]))
      BY <2>1 DEF OwnPaths, HoldsOriginals, HoldsFirst, Effect
    <2>3. Recoverable(t)
      BY <1>0
    <2>4. QED
      BY <2>1, <2>2, <2>3 DEF Recoverable, Applying, Undo
  <1>3. ASSUME UNCHANGED vars, NEW t \in Txns
        PROVE  Recoverable(t)'
    <2>1. Recoverable(t)
      BY <1>0
    <2>2. QED
      BY <1>3, <2>1 DEF vars, Recoverable, Applying, Undo, HoldsFirst, Effect,
                        HoldsOriginals, OwnPaths, Current, Undoing
  <1>4. (Crash \/ UNCHANGED vars) => disk' = disk
    BY DEF Crash, fsVars, vars
  <1>5. QED
    BY <1>0, <1>1, <1>2, <1>3, <1>4 DEF Next

-----------------------------------------------------------------------------
(* The theorems.                                                           *)

LEMMA InvInit == Init => IInv
  <1>1. ASSUME Init PROVE \A p \in Paths : disk[p] # Torn
    BY <1>1, ValueAssumption DEF Init
  <1>2. QED
    BY <1>1, TypeInit, BookkeepingInit, RecoverableInit DEF IInv

LEMMA InvStep == IInv /\ [Next]_vars => IInv'
  <1>1. ASSUME IInv, [Next]_vars
        PROVE  IInv'
    <2>1. TypeOK /\ (\A t \in Txns : Bookkeeping(t)) /\ [Next]_vars
      BY <1>1 DEF IInv
    <2>2. TypeOK'
      BY <2>1, TypeStep
    <2>3. \A t \in Txns : Bookkeeping(t)'
      BY <2>1, BookkeepingStep
    <2>4. plan' = plan
      BY <2>1, CallsKept DEF Next, Crash, callVars, vars
    <2>5. Disjoint' = Disjoint
      BY <2>4 DEF Disjoint, OwnPaths
    <2>6. Disjoint => /\ \A t \in Txns : Recoverable(t)'
                      /\ \A p \in Paths : disk'[p] # Torn
      BY <1>1, <2>1, RecoverableStep DEF IInv
    <2>7. QED
      BY <2>2, <2>3, <2>5, <2>6 DEF IInv
  <1>2. QED
    BY <1>1

LEMMA InvMeaning == IInv => AllOrNothing /\ NeverTorn /\ Undoable
  <1>1. IInv => AllOrNothing
    BY DEF IInv, AllOrNothing, Recoverable
  <1>2. IInv => NeverTorn
    BY DEF IInv, NeverTorn
  <1>3. ASSUME IInv, Disjoint, NEW t \in Txns, pc[t] # "done",
               NEW p \in OwnPaths(t), disk[p] # orig[p]
        PROVE  /\ snapshots[t][p] = orig[p]
               /\ \E i \in 1 .. Len(changed[t]) : changed[t][i] = p
    <2>1. Recoverable(t) /\ Bookkeeping(t)
      BY <1>3 DEF IInv
    <2>2. PICK i \in 1 .. Len(changed[t]) : changed[t][i] = p
      BY <1>3, <2>1 DEF Recoverable
    <2>3. snapshots[t][p] # NoSnap /\ snapshots[t][p] \in {NoSnap, orig[p]}
      BY <1>3, <2>1, <2>2 DEF Recoverable, Bookkeeping
    <2>4. QED
      BY <2>2, <2>3
  <1>4. IInv => Undoable
    BY <1>3 DEF Undoable
  <1>5. QED
    BY <1>1, <1>2, <1>4

\* Every variable keeps its type: no index leaves its range and no snapshot
\* or rollback list is ever malformed, whatever fails.
THEOREM TypeCorrect == Spec => []TypeOK
  <1>1. IInv => TypeOK
    BY DEF IInv
  <1>2. QED
    BY InvInit, InvStep, <1>1, PTL DEF Spec

\* Execute is all or nothing for the files of its plan, for every number of
\* calls, files and failing system calls.
THEOREM ExecuteAllOrNothing == Spec => []AllOrNothing
  BY InvInit, InvStep, InvMeaning, PTL DEF Spec

\* No reader ever sees a partly written file.
THEOREM ReadersSeeWholeFiles == Spec => []NeverTorn
  BY InvInit, InvStep, InvMeaning, PTL DEF Spec

\* Rollback always has what it needs to undo the call.
THEOREM RollbackNeverBehind == Spec => []Undoable
  BY InvInit, InvStep, InvMeaning, PTL DEF Spec

\* Whenever Execute stops, files are whole and Rollback has what it needs.
THEOREM AlwaysRollbackReady == Spec => []RollbackReady
  <1>1. NeverTorn /\ Undoable => RollbackReady
    BY DEF RollbackReady
  <1>2. QED
    BY <1>1, ReadersSeeWholeFiles, RollbackNeverBehind, PTL

\* One step of a rolling back call gives a file its original or leaves it.
LEMMA RestoresOriginals ==
  ASSUME TypeOK, NEW u \in Txns, Bookkeeping(u), Recoverable(u), Execute(u),
         pc[u] \in Undo, NEW p \in OwnPaths(u), disk'[p] # disk[p]
  PROVE  disk'[p] = orig[p]
  <1>1. Restore(u) \/ RemoveCreated(u)
    BY DEF Execute, Step, StepFails, Undo, fsVars, RejectEntry, Capture, Stage,
           Publish, Remove, StartVerify, Applied, Commit, VerifyFails,
           StageOriginal, FinishRollback, CaptureFails, StageFails,
           PublishFails, RemoveFails, StageOriginalFails, RestoreFails,
           RemoveCreatedFails
  <1>2. p \in Paths /\ Undoing(u) = changed[u][at[u]]
    BY OwnsItsPaths DEF Undoing
  <1>3. CASE Restore(u)
    BY <1>2, <1>3 DEF Restore, Recoverable, TypeOK
  <1>4. CASE RemoveCreated(u)
    <2>1. p = Undoing(u) /\ disk'[p] = Absent
      BY <1>2, <1>4 DEF RemoveCreated, TypeOK
    <2>2. at[u] \in 1 .. Len(changed[u])
      BY <1>4 DEF RemoveCreated, Bookkeeping, Undo, TypeOK
    <2>3. snapshots[u][p] = Absent
      BY <1>2, <1>4, <2>1, <2>2 DEF RemoveCreated, Existed, Bookkeeping
    <2>4. QED
      BY <2>1, <2>3, ValueAssumption DEF Recoverable
  <1>5. QED
    BY <1>1, <1>3, <1>4

\* A restored file is never replaced by anything but its original, however
\* the steps of the calls interleave.
THEOREM RollbackRestores == Spec => RollbackOnlyRestores
  <1> DEFINE Restoring ==
        Disjoint =>
          \A t \in Txns : pc[t] \in {"undo", "restore"} =>
            \A p \in OwnPaths(t) : disk'[p] # disk[p] => disk'[p] = orig[p]
  <1>1. ASSUME IInv, [Next]_vars
        PROVE  Restoring
    <2>1. ASSUME Disjoint, NEW t \in Txns, pc[t] \in {"undo", "restore"},
                 NEW p \in OwnPaths(t), disk'[p] # disk[p]
          PROVE  disk'[p] = orig[p]
      <3>1. /\ TypeOK /\ \A u \in Txns : Bookkeeping(u) /\ Recoverable(u)
        BY <1>1, <2>1 DEF IInv
      <3>2. PICK u \in Txns : Execute(u)
        BY <1>1, <2>1 DEF Next, Crash, fsVars, vars
      <3>3. CASE u = t
        BY <2>1, <3>1, <3>2, <3>3, RestoresOriginals DEF Undo
      <3>4. CASE u # t
        <4>1. p \in Paths /\ p \notin OwnPaths(u)
          BY <2>1, <3>1, <3>4, OwnsItsPaths DEF Disjoint
        <4>2. disk'[p] = disk[p]
          BY <3>1, <3>2, <4>1, OwnFilesOnly
        <4>3. QED
          BY <2>1, <4>2
      <3>5. QED
        BY <3>3, <3>4
    <2>2. QED
      BY <2>1
  <1>2. QED
    BY <1>1, InvInit, InvStep, PTL DEF Spec, RollbackOnlyRestores

-----------------------------------------------------------------------------
(* The refinement of AtomicEdit, for calls on different files.             *)

\* A file of a call that does not hold its original holds what an entry of the
\* call's plan gives it.
PlanOrOriginal(t) ==
  \A p \in OwnPaths(t) :
    disk[p] # orig[p] =>
      \E i \in 1 .. Len(plan[t]) : plan[t][i].path = p /\ disk[p] = Effect(plan[t][i])

\* A step leaves a file as it is, restores it, or gives it what the plan says.
LEMMA WritesFromPlan ==
  ASSUME TypeOK, NEW u \in Txns, Bookkeeping(u), Recoverable(u), Execute(u),
         NEW p \in OwnPaths(u), disk'[p] # disk[p], disk'[p] # orig[p]
  PROVE  \E i \in 1 .. Len(plan[u]) : plan[u][i].path = p /\ disk'[p] = Effect(plan[u][i])
  <1>0. p \in Paths /\ disk \in [Paths -> File] /\ at[u] \in Nat
    BY OwnsItsPaths DEF TypeOK
  <1>1. pc[u] \notin Undo
    BY RestoresOriginals
  <1>2. Publish(u) \/ Remove(u)
    BY <1>1 DEF Execute, Step, StepFails, Undo, fsVars, RejectEntry, Capture, Stage,
           StartVerify, Applied, Commit, VerifyFails,
           StageOriginal, FinishRollback, CaptureFails, StageFails, Restore, RemoveCreated,
           PublishFails, RemoveFails, StageOriginalFails, RestoreFails,
           RemoveCreatedFails
  <1>3. InPlan(u) /\ Current(u) = plan[u][at[u]]
    BY <1>2 DEF Publish, Remove, Bookkeeping, Current
  <1>4. Current(u).path = p /\ disk'[p] = Effect(Current(u))
    <2>1. CASE Publish(u)
      BY <1>0, <2>1 DEF Publish, StagedFor, Recoverable, Bookkeeping, Effect
    <2>2. CASE Remove(u)
      BY <1>0, <2>2 DEF Remove, Bookkeeping, Effect
    <2>3. QED
      BY <1>2, <2>1, <2>2
  <1>5. QED
    BY <1>0, <1>3, <1>4 DEF InPlan

\* Every step keeps it, of whichever call.
LEMMA PlanOrOriginalStep ==
  ASSUME IInv, Disjoint, \A t \in Txns : PlanOrOriginal(t), [Next]_vars
  PROVE  \A t \in Txns : PlanOrOriginal(t)'
  <1>0. /\ TypeOK /\ Disjoint
        /\ \A t \in Txns : Bookkeeping(t) /\ Recoverable(t) /\ PlanOrOriginal(t)
    BY DEF IInv
  <1>1. plan' = plan /\ orig' = orig
    BY CallsKept DEF Next, Crash, callVars, vars
  <1>2. ASSUME NEW t \in Txns, NEW p \in OwnPaths(t), disk'[p] # orig[p]
        PROVE  \E i \in 1 .. Len(plan[t]) :
                 plan[t][i].path = p /\ disk'[p] = Effect(plan[t][i])
    <2>1. CASE disk'[p] = disk[p]
      BY <1>0, <1>2, <2>1 DEF PlanOrOriginal
    <2>2. CASE disk'[p] # disk[p]
      <3>1. PICK u \in Txns : Execute(u)
        BY <2>2 DEF Next, Crash, fsVars, vars
      <3>2. p \in Paths /\ p \in OwnPaths(u)
        BY <1>0, <2>2, <3>1, OwnFilesOnly, OwnsItsPaths
      <3>3. u = t
        BY <1>0, <3>2 DEF Disjoint
      <3>4. QED
        BY <1>0, <1>2, <2>2, <3>1, <3>3, WritesFromPlan
    <2>3. QED
      BY <2>1, <2>2
  <1>3. \A t \in Txns : OwnPaths(t)' = OwnPaths(t)
    BY <1>1 DEF OwnPaths
  <1>4. QED
    BY <1>1, <1>2, <1>3 DEF PlanOrOriginal, Effect

\* What the abstract workspace and verdicts are: a call in flight has returned
\* nothing and its files are shown as they were, all others as they are.
AbstractState ==
  /\ Settled \in [Paths -> Contents \cup {Absent}]
  /\ \A t \in Txns :
       /\ Verdict[t] = "none" <=> InFlight(t)
       /\ InFlight(t) => outcome[t] = "none"
       /\ \A p \in OwnPaths(t) :
            Settled[p] = IF InFlight(t) THEN orig[p] ELSE disk[p]

LEMMA AbstractStateNow == IInv /\ Disjoint => AbstractState
  <1>0. SUFFICES ASSUME IInv, Disjoint PROVE AbstractState
    OBVIOUS
  <1>1. \A p \in Paths : /\ orig[p] \in Contents \cup {Absent}
                         /\ disk[p] \in Contents \cup {Absent}
    BY <1>0 DEF IInv, TypeOK, File
  <1>2. Settled \in [Paths -> Contents \cup {Absent}]
    BY <1>1 DEF Settled
  <1>3. ASSUME NEW t \in Txns
        PROVE  /\ Verdict[t] = "none" <=> InFlight(t)
               /\ InFlight(t) => outcome[t] = "none"
    BY <1>0 DEF IInv, Bookkeeping, Verdict, InFlight
  <1>4. ASSUME NEW t \in Txns, NEW p \in OwnPaths(t)
        PROVE  Settled[p] = IF InFlight(t) THEN orig[p] ELSE disk[p]
    <2>1. p \in Paths
      BY <1>0, OwnsItsPaths DEF IInv
    <2>2. \A u \in Txns : p \in OwnPaths(u) => u = t
      BY <1>0 DEF Disjoint
    <2>3. QED
      BY <2>1, <2>2 DEF Settled
  <1>5. QED
    BY <1>2, <1>3, <1>4 DEF AbstractState

LEMMA AbstractStateNext == IInv' /\ Disjoint' => AbstractState'
  BY AbstractStateNow, PTL

\* No step changes a plan, so the files of the calls stay apart.
LEMMA PlansKept ==
  ASSUME [Next]_vars
  PROVE  /\ plan' = plan /\ orig' = orig
         /\ Disjoint' = Disjoint
         /\ \A t \in Txns : OwnPaths(t)' = OwnPaths(t)
  <1>1. plan' = plan /\ orig' = orig
    BY CallsKept DEF Next, Crash, callVars, vars
  <1>2. Disjoint' = Disjoint
    BY <1>1 DEF Disjoint, OwnPaths
  <1>3. \A t \in Txns : OwnPaths(t)' = OwnPaths(t)
    BY <1>1 DEF OwnPaths
  <1>4. QED
    BY <1>1, <1>2, <1>3

\* The abstract step that takes the place of one step of a call.
LEMMA ExecuteRefines ==
  ASSUME IInv, IInv', Disjoint, \A t \in Txns : PlanOrOriginal(t),
         NEW u \in Txns, Execute(u)
  PROVE  [Atomic!ANext]_(Atomic!avars)
  <1>0. /\ TypeOK /\ \A t \in Txns : Bookkeeping(t) /\ Recoverable(t)
        /\ plan' = plan /\ orig' = orig /\ Disjoint'
        /\ \A t \in Txns : OwnPaths(t)' = OwnPaths(t)
        /\ \A t \in Txns \ {u} : pc'[t] = pc[t] /\ outcome'[t] = outcome[t]
    <2>1. /\ plan' = plan /\ orig' = orig /\ Disjoint' = Disjoint
          /\ \A t \in Txns : OwnPaths(t)' = OwnPaths(t)
      BY PlansKept DEF Next
    <2>2. TypeOK /\ \A t \in Txns : Bookkeeping(t) /\ Recoverable(t)
      BY DEF IInv
    <2>3. \A t \in Txns \ {u} : pc'[t] = pc[t] /\ outcome'[t] = outcome[t]
      BY <2>2, OthersKept
    <2>4. QED
      BY <2>1, <2>2, <2>3
  <1>1. \A t \in Txns \ {u} : /\ Verdict'[t] = Verdict[t]
                              /\ InFlight(t)' = InFlight(t)
    BY <1>0 DEF Verdict, InFlight
  <1>2. InFlight(u)
    BY <1>0 DEF InFlight, Execute, Step, StepFails, RejectEntry, Capture, Stage, Publish,
                Remove, StartVerify, Applied, Commit, VerifyFails, StageOriginal, Restore,
                RemoveCreated, FinishRollback, CaptureFails, StageFails, PublishFails,
                RemoveFails, StageOriginalFails, RestoreFails, RemoveCreatedFails
  <1>3. \A p \in Paths \ OwnPaths(u) : Settled'[p] = Settled[p]
    <2>1. ASSUME NEW p \in Paths \ OwnPaths(u)
          PROVE  Settled'[p] = Settled[p]
      <3>1. disk'[p] = disk[p]
        BY <1>0, OwnFilesOnly
      <3>2. (\E t \in Txns : InFlight(t)' /\ p \in OwnPaths(t)')
              <=> (\E t \in Txns : InFlight(t) /\ p \in OwnPaths(t))
        BY <1>0, <1>1
      <3>3. QED
        BY <1>0, <3>1, <3>2 DEF Settled
    <2>2. QED
      BY <2>1
  <1>4. /\ Settled \in [Paths -> Contents \cup {Absent}]
        /\ Settled' \in [Paths -> Contents \cup {Absent}]
    BY <1>0, AbstractStateNow, AbstractStateNext DEF AbstractState
  <1>5. \A p \in OwnPaths(u) : /\ p \in Paths
                               /\ Settled[p] = orig[p]
                               /\ Settled'[p] = IF InFlight(u)' THEN orig[p] ELSE disk'[p]
    BY <1>0, <1>2, AbstractStateNow, AbstractStateNext, OwnsItsPaths DEF AbstractState
  <1>6. Verdict[u] = "none" /\ Verdict \in [Txns -> {Verdict[t] : t \in Txns}]
    BY <1>2, AbstractStateNow DEF Verdict, AbstractState
  <1>7. CASE InFlight(u)'
    <2>1. Verdict' = Verdict
      <3>1. Verdict'[u] = Verdict[u]
        BY <1>0, <1>6, <1>7, AbstractStateNext DEF AbstractState
      <3>2. QED
        BY <1>1, <3>1 DEF Verdict
    <2>2. Settled' = Settled
      BY <1>3, <1>5, <1>7 DEF Settled
    <2>3. QED
      BY <1>0, <2>1, <2>2 DEF Atomic!avars
  <1>8. CASE ~InFlight(u)'
    <2>1. Commit(u) \/ FinishRollback(u)
      BY <1>0, <1>2, <1>8 DEF InFlight, TypeOK, PC, Execute, Step, StepFails, RejectEntry,
           Capture, Stage, Publish, Remove, Advance, AbortApply, StageError, StartRollback,
           Goto, StartVerify, VerifyFails, StageOriginal, Restore,
           RemoveCreated, CaptureFails, StageFails, PublishFails,
           RemoveFails, StageOriginalFails, RestoreFails, RemoveCreatedFails
    <2>2. /\ pc'[u] = "done" /\ Verdict'[u] = outcome'[u]
          /\ Verdict' = [Verdict EXCEPT ![u] = outcome'[u]]
      <3>1. pc'[u] = "done"
        BY <1>0, <2>1 DEF Commit, FinishRollback, Goto, TypeOK
      <3>2. Verdict'[u] = outcome'[u]
        BY <3>1 DEF Verdict
      <3>3. QED
        BY <1>1, <3>1, <3>2 DEF Verdict
    <2>3. CASE Commit(u)
      <3>1. outcome'[u] = "ok"
        BY <1>0, <2>3 DEF Commit, TypeOK
      <3>2. HoldsFirst(u, Len(plan[u]))'
        BY <1>0, <3>1 DEF IInv, Recoverable
      <3>3. ASSUME NEW i \in 1 .. Len(plan[u]),
                   \A j \in i + 1 .. Len(plan[u]) : plan[u][j].path # plan[u][i].path
            PROVE  Settled'[plan[u][i].path] = Effect(plan[u][i])
        <4>1. plan[u][i].path \in OwnPaths(u)
          BY DEF OwnPaths
        <4>2. disk'[plan[u][i].path] = Effect(plan[u][i])
          BY <1>0, <3>2, <3>3 DEF HoldsFirst, Effect
        <4>3. QED
          BY <1>5, <1>8, <4>1, <4>2
      <3>4. Atomic!Succeed(u)
        BY <1>0, <1>3, <1>4, <1>6, <2>2, <3>1, <3>3
           DEF Atomic!Succeed, Atomic!OthersKept, Atomic!Edited, OwnPaths, Atomic!EditEffect, Effect
      <3>5. QED
        BY <3>4 DEF Atomic!ANext
    <2>4. CASE FinishRollback(u) /\ ~rbErr[u]
      <3>1. /\ outcome'[u] \in {"error", "verification_failed"}
            /\ ~rbErr'[u]
        BY <1>0, <2>4 DEF FinishRollback, TypeOK
      <3>2. \A p \in OwnPaths(u) : disk'[p] = orig[p]
        BY <1>0, <3>1 DEF IInv, Recoverable, HoldsOriginals
      <3>3. Settled' = Settled
        BY <1>3, <1>5, <1>8, <3>2 DEF Settled
      <3>4. Atomic!Fail(u)
        BY <1>0, <1>6, <2>2, <3>1, <3>3 DEF Atomic!Fail
      <3>5. QED
        BY <3>4 DEF Atomic!ANext
    <2>5. CASE FinishRollback(u) /\ rbErr[u]
      <3>1. outcome'[u] \in {"error", "rollback_failed"} /\ disk' = disk
        BY <1>0, <2>5 DEF FinishRollback, TypeOK, fsVars
      <3>2. ASSUME NEW p \in Paths
            PROVE  \/ Settled'[p] = Settled[p]
                   \/ \E i \in 1 .. Len(plan[u]) :
                        plan[u][i].path = p /\ Settled'[p] = Effect(plan[u][i])
        BY <1>3, <1>5, <1>8, <3>1 DEF PlanOrOriginal
      <3>3. Atomic!PartlyApplied({u})
        BY <1>4, <3>2 DEF Atomic!PartlyApplied, Atomic!EditEffect, Effect
      <3>4. Atomic!Damage(u)
        BY <1>0, <1>6, <2>2, <3>1, <3>3 DEF Atomic!Damage
      <3>5. QED
        BY <3>4 DEF Atomic!ANext
    <2>6. QED
      BY <2>1, <2>3, <2>4, <2>5
  <1>9. QED
    BY <1>7, <1>8

\* A crash ends every call in flight at once.
LEMMA CrashRefines ==
  ASSUME IInv, IInv', Disjoint, \A t \in Txns : PlanOrOriginal(t), Crash
  PROVE  Atomic!ANext
  <1> DEFINE running == {t \in Txns : Verdict[t] = "none"}
  <1>0. /\ plan' = plan /\ orig' = orig /\ disk' = disk /\ outcome' = outcome
        /\ \A t \in Txns : pc'[t] = IF pc[t] = "done" THEN "done" ELSE "crashed"
    BY DEF Crash, callVars, fsVars
  <1>1. Disjoint' /\ \A t \in Txns : OwnPaths(t)' = OwnPaths(t)
    BY PlansKept DEF Next
  <1>2. running = {t \in Txns : InFlight(t)} /\ \A t \in Txns : ~InFlight(t)'
    BY <1>0, AbstractStateNow DEF InFlight, AbstractState
  <1>3. running # {}
    <2>1. CASE \E t \in Txns : InFlight(t)
      BY <1>2, <2>1
    <2>2. QED
      BY <2>1 DEF Crash, InFlight
  <1>4. Verdict' = [t \in Txns |-> IF t \in running THEN "crashed" ELSE Verdict[t]]
    BY <1>0, <1>2 DEF Verdict, InFlight
  <1>5. Settled' \in [Paths -> Contents \cup {Absent}]
    BY <1>1, AbstractStateNext DEF AbstractState
  <1>6. ASSUME NEW p \in Paths
        PROVE  \/ Settled'[p] = Settled[p]
               \/ \E t \in running : \E i \in 1 .. Len(plan[t]) :
                    plan[t][i].path = p /\ Settled'[p] = Effect(plan[t][i])
    <2>1. Settled'[p] = disk[p]
      BY <1>0, <1>2 DEF Settled
    <2>2. CASE \E t \in Txns : InFlight(t) /\ p \in OwnPaths(t)
      <3>1. PICK t \in Txns : InFlight(t) /\ p \in OwnPaths(t)
        BY <2>2
      <3>2. Settled[p] = orig[p] /\ t \in running
        BY <1>2, <3>1, AbstractStateNow DEF AbstractState
      <3>3. QED
        BY <2>1, <3>1, <3>2 DEF PlanOrOriginal
    <2>3. CASE ~ \E t \in Txns : InFlight(t) /\ p \in OwnPaths(t)
      BY <2>1, <2>3 DEF Settled
    <2>4. QED
      BY <2>2, <2>3
  <1>7. Atomic!PartlyApplied(running)
    BY <1>5, <1>6 DEF Atomic!PartlyApplied, Atomic!EditEffect, Effect
  <1>8. Atomic!Die
    BY <1>0, <1>3, <1>4, <1>7 DEF Atomic!Die
  <1>9. QED
    BY <1>8 DEF Atomic!ANext

\* Calls on different files implement the atomic edit: each takes effect in one
\* step, when it returns, however their system calls interleave and fail.
THEOREM AtomicEditImplemented == Spec /\ Disjoint => ImplementsAtomicEdit
  <1> DEFINE Strong == IInv /\ Disjoint /\ \A t \in Txns : PlanOrOriginal(t)
  <1>1. Init /\ Disjoint => Strong
    BY InvInit DEF Init, PlanOrOriginal
  <1>2. Strong /\ [Next]_vars => Strong'
    <2>1. ASSUME Strong, [Next]_vars PROVE Strong'
      BY <2>1, PlansKept, InvStep, PlanOrOriginalStep
    <2>2. QED
      BY <2>1
  <1>3. Init /\ Strong => Atomic!AInit
    <2>1. ASSUME Init, Strong PROVE Atomic!AInit
      <3>1. Verdict = [t \in Txns |-> "none"]
        BY <2>1 DEF Init, Verdict
      <3>2. QED
        BY <2>1, <3>1, AbstractStateNow DEF AbstractState, Atomic!AInit
    <2>2. QED
      BY <2>1
  <1>4. Strong /\ Strong' /\ [Next]_vars => [Atomic!ANext]_(Atomic!avars)
    <2>1. ASSUME Strong, Strong', [Next]_vars PROVE [Atomic!ANext]_(Atomic!avars)
      <3>1. CASE UNCHANGED vars
        <4>1. plan' = plan /\ Settled' = Settled /\ Verdict' = Verdict
          BY <3>1 DEF vars, Settled, Verdict, InFlight, OwnPaths
        <4>2. QED
          BY <4>1 DEF Atomic!avars
      <3>2. QED
        BY <2>1, <3>1, ExecuteRefines, CrashRefines DEF Next
    <2>2. QED
      BY <2>1
  <1>5. QED
    BY <1>1, <1>2, <1>3, <1>4, PTL DEF Spec, ImplementsAtomicEdit, Atomic!ASpec
=============================================================================
