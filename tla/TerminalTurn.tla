---------------------------- MODULE TerminalTurn ----------------------------
(***************************************************************************)
(* One turn of `aicli chat` with a provider that is not FuzeAI             *)
(* (internal/app/terminal.go, terminalStream): ask the model, retry and    *)
(* repair its answer, take an automatic snapshot of the files the plan     *)
(* names, apply the plan, verify, record it, and restore the snapshot when *)
(* a step after the snapshot fails.  Beside it the `aicli snapshot` and    *)
(* `aicli restore` commands, which read and write the same snapshots.      *)
(*                                                                         *)
(* Every file operation is a step of its own and may fail (MaxTermFaults   *)
(* times in a behaviour); the process may die between two of them.  A file *)
(* is "absent", "old" (what the user had), "new" (what the plan writes) or *)
(* "torn" (partly written).                                                *)
(***************************************************************************)
EXTENDS Integers, Verification

CONSTANTS TermPlans,     \* the edit plans a reply may carry
          MaxTermFaults, \* bound on failing operations
          MaxTurns       \* bound on turns and commands

TermEntry == [path : Paths, op : {"write", "delete"}]
ASSUME TermPlanAssumption ==
  /\ TermPlans \subseteq Seq(TermEntry) \ {<< >>}
  /\ MaxTermFaults \in Nat /\ MaxTurns \in Nat

VARIABLES disk,     \* the files of the workspace
          staged,   \* the files <path>.fuzetmp-<i> that exist
          saves,    \* complete archives in .aicli/snapshots, oldest first
          touched,  \* the touched_files table
          tpc,      \* the next step of the turn or command
          tplan,    \* parsed.Plan, or the archive's entries being restored
          tsound,   \* the workspace the plan leaves is sound
          at,       \* position in tplan, in the backups or in the manifest
          cause,    \* what the restore follows: a failed step, or a command
          changes,  \* terminalPromptNeedsApproval(prompt)
          tresult,  \* what the last turn returned
          tfaults,  \* operations that failed so far
          turns,    \* turns and commands begun
          before    \* history: the workspace when the turn began

termVars == <<disk, staged, saves, touched, tpc, tplan, tsound, at, cause, changes,
              tresult, tfaults, turns, before>>

Present == {"old", "new", "torn"}
\* What an archive holds of a file: its content, or that it did not exist,
\* or nothing.
Saved == Present \cup {"absent", "unlisted"}

TermInit ==
  /\ disk \in [Paths -> {"absent", "old"}]
  /\ staged = {} /\ saves = << >> /\ touched = {}
  /\ tpc = "idle" /\ tplan = << >> /\ tsound = TRUE /\ at = 1 /\ cause = "none"
  /\ changes = FALSE
  /\ tresult = "none" /\ tfaults = 0 /\ turns = 0
  /\ before = disk

-----------------------------------------------------------------------------
PlanPaths(pl) == {pl[i].path : i \in 1 .. Len(pl)}
Entry(i) == tplan[i]
Deleted == {p \in PlanPaths(tplan) : disk[p] = "absent"}
Writes == {i \in 1 .. Len(tplan) : tplan[i].op = "write"}

Goto(label) == tpc' = label
TermFail == tfaults < MaxTermFaults /\ tfaults' = tfaults + 1
TermOk == UNCHANGED tfaults

(* The turn returns. *)
TermReturn(r) == Goto("idle") /\ tresult' = r

(* The model calls, in order.  What a call yields: "error", "empty",       *)
(* "chat", "bad" (does not parse) or "edit".                               *)
convVars == <<disk, staged, saves, touched, at, cause, changes, turns, before>>

TermStart ==
  /\ tpc = "idle" /\ turns < MaxTurns
  /\ turns' = turns + 1 /\ before' = disk
  /\ changes' \in BOOLEAN
  /\ Goto("stream")
  /\ tresult' = "none" /\ cause' = "none" /\ tplan' = << >> /\ tsound' = TRUE /\ at' = 1
  /\ UNCHANGED <<disk, staged, saves, touched, tfaults>>

\* The history cannot be read or compacted, or the prompt cannot be saved.
TermUnprepared ==
  /\ tpc = "stream" /\ TermReturn("error")
  /\ UNCHANGED <<convVars, tplan, tsound, tfaults>>

\* Registry.Stream fails at once or breaks off: the request is sent again.
StreamBroken ==
  /\ tpc = "stream" /\ Goto("resend")
  /\ UNCHANGED <<convVars, tplan, tsound, tfaults, tresult>>

\* So does the second request.
ResendFails ==
  /\ tpc = "resend" /\ TermReturn("error")
  /\ UNCHANGED <<convVars, tplan, tsound, tfaults>>

\* An empty answer is asked for once more; empty again, the turn fails.
EmptyAnswer ==
  /\ \/ tpc \in {"stream", "resend"} /\ Goto("again") /\ UNCHANGED tresult
     \/ tpc = "again" /\ TermReturn("error")
  /\ UNCHANGED <<convVars, tplan, tsound, tfaults>>

Answering == {"stream", "resend", "again"}
Correcting == {"repair", "fallback"}

\* A prompt that asks for no change is answered as it is; a correction may
\* come back as conversation too.
ChatAnswer ==
  /\ \/ tpc \in Answering /\ ~changes
     \/ tpc \in Correcting
  /\ \E r \in {"chat", "error"} : TermReturn(r)
  /\ UNCHANGED <<convVars, tplan, tsound, tfaults>>

\* An answer that is not an edit plan is repaired, then asked of "auto"; a
\* correction that fails counts as one that does not parse.
Unparsed ==
  /\ changes
  /\ \/ tpc \in Answering /\ Goto("repair") /\ UNCHANGED tresult
     \/ tpc = "repair" /\ Goto("fallback") /\ UNCHANGED tresult
     \/ tpc = "fallback" /\ TermReturn("error")
  /\ UNCHANGED <<convVars, tplan, tsound, tfaults>>

EditAnswer ==
  /\ changes /\ tpc \in Answering \cup Correcting
  /\ tplan' \in TermPlans /\ tsound' \in BOOLEAN
  /\ Goto("snapshot")
  /\ UNCHANGED <<convVars, tfaults, tresult>>

-----------------------------------------------------------------------------
(* createAutomaticSnapshot: the files the plan names, and which exist.     *)
CapturesWritesOnly(p) ==  \* as a bug would: deletions are not captured
  IF \E i \in Writes : tplan[i].path = p THEN disk[p] ELSE "unlisted"

Captured(p) == IF p \in PlanPaths(tplan) THEN disk[p] ELSE "unlisted"

CreatePlanSnapshot ==
  /\ tpc = "snapshot"
  /\ \/ /\ TermOk
        /\ saves' = Append(saves, [p \in Paths |-> Captured(p)])
        /\ Goto("stage") /\ at' = 1 /\ UNCHANGED tresult
     \/ TermFail /\ TermReturn("error") /\ UNCHANGED <<saves, at>>
  /\ UNCHANGED <<disk, staged, touched, tplan, tsound, cause, changes, turns, before>>

(* generation.Apply: every entry is inspected and every write staged       *)
(* before the first rename.  A second entry for a file, or a failed        *)
(* inspection, returns and leaves what was staged; a failed write removes  *)
(* what was staged before it and leaves its own.                           *)
ApplyFails(left) ==
  /\ Goto("restore") /\ at' = 1 /\ cause' = "apply" /\ staged' = left

\* <path>.fuzetmp-<i>.
Temporary(i) == {<<Entry(k).path, k>> : k \in {i} \cap Writes}
Own == UNION {Temporary(i) : i \in Writes}

Duplicate(i) == \E j \in 1 .. i - 1 : Entry(j).path = Entry(i).path

StageEntry ==
  /\ tpc = "stage"
  /\ IF at > Len(tplan) THEN Goto("rename") /\ at' = 1 /\ TermOk /\ UNCHANGED <<staged, cause>>
     ELSE \/ Duplicate(at) /\ ApplyFails(staged) /\ TermOk
          \/ TermFail /\ \E left \in {staged, (staged \ Own) \cup Temporary(at)} : ApplyFails(left)
          \/ /\ ~Duplicate(at) /\ TermOk /\ at' = at + 1
             /\ staged' = staged \cup Temporary(at)
             /\ UNCHANGED <<tpc, cause>>
  /\ UNCHANGED <<disk, saves, touched, tplan, tsound, changes, tresult, turns, before>>

\* The staged files are renamed into place first, then the deletions.
Pending(label) == {i \in 1 .. Len(tplan) :
                     /\ i >= at
                     /\ (tplan[i].op = "write") = (label = "rename")}

CommitEntry ==
  /\ tpc \in {"rename", "remove"}
  /\ IF Pending(tpc) = {}
     THEN /\ IF tpc = "rename" THEN Goto("remove") ELSE Goto("verify")
          /\ at' = 1 /\ TermOk /\ UNCHANGED <<disk, staged, cause>>
     ELSE LET i == CHOOSE k \in Pending(tpc) : \A m \in Pending(tpc) : k <= m
          IN  \/ /\ TermOk /\ at' = i + 1
                 /\ disk' = [disk EXCEPT ![Entry(i).path] =
                               IF tpc = "rename" THEN "new" ELSE "absent"]
                 /\ staged' = staged \ Temporary(i) /\ UNCHANGED <<tpc, cause>>
              \/ /\ TermFail /\ Goto("undo") /\ at' = Len(tplan)
                 /\ staged' = staged \ Own /\ cause' = "apply" /\ UNCHANGED disk
  /\ UNCHANGED <<saves, touched, tplan, tsound, changes, tresult, turns, before>>

\* Apply's own rollback, last entry first; its errors are dropped.  The
\* backups it took are the files as the turn found them.
UndoEntry ==
  /\ tpc = "undo"
  /\ IF at = 0 THEN Goto("restore") /\ at' = 1 /\ TermOk /\ UNCHANGED disk
     ELSE /\ at' = at - 1 /\ UNCHANGED tpc
          /\ \/ TermOk /\ disk' = [disk EXCEPT ![Entry(at).path] = before[Entry(at).path]]
             \/ TermFail /\ UNCHANGED disk
  /\ UNCHANGED <<staged, saves, touched, tplan, tsound, cause, changes, tresult, turns, before>>

-----------------------------------------------------------------------------
(* RestorePlanSnapshot: the manifest's files in their order.  A file that  *)
(* did not exist is removed, the others are written beside and renamed;    *)
(* the first failure stops it.                                             *)
Listed(archive) == SetToSeq({p \in Paths : archive[p] # "unlisted"})

KeepsCreated(p) ==  \* as a bug would: created files are not removed
  IF Last(saves)[p] = "absent" THEN disk[p] ELSE Last(saves)[p]

RestoredContent(p) == Last(saves)[p]

\* The error of a restore after a failed apply is dropped.
RestoreEnds(ok) ==
  TermReturn(IF ok \/ cause = "apply" THEN "error" ELSE "rollback_failed")

RestoreEntry ==
  /\ tpc = "restore"
  /\ LET order == Listed(Last(saves))
     IN  IF at > Len(order) THEN RestoreEnds(TRUE) /\ TermOk /\ UNCHANGED <<disk, at>>
         ELSE \/ /\ TermOk /\ at' = at + 1
                 /\ disk' = [disk EXCEPT ![order[at]] = RestoredContent(order[at])]
                 /\ UNCHANGED <<tpc, tresult>>
              \/ TermFail /\ RestoreEnds(FALSE) /\ UNCHANGED <<disk, at>>
  /\ UNCHANGED <<staged, saves, touched, tplan, tsound, cause, changes, turns, before>>

RollBack(why) == Goto("restore") /\ at' = 1 /\ cause' = why

(* verify.Detect on the workspace the plan left.                           *)
VerifyEdit ==
  /\ tpc = "verify"
  /\ \E outcome \in Detect(PlanPaths(tplan), Deleted, tsound) :
       IF outcome = "passed" THEN Goto("record") /\ UNCHANGED <<at, cause>>
                             ELSE RollBack("verify")
  /\ UNCHANGED <<disk, staged, saves, touched, tplan, tsound, changes, tresult, tfaults,
                 turns, before>>

(* MarkTouched, SaveState and RefreshHashes; each failure rolls back.      *)
RecordEdit ==
  /\ tpc = "record"
  /\ \/ /\ TermOk /\ touched' = touched \cup PlanPaths(tplan)
        /\ Goto("answer") /\ UNCHANGED <<at, cause>>
     \/ /\ TermFail /\ RollBack("record")
        /\ touched' \in {touched, touched \cup PlanPaths(tplan)}
  /\ UNCHANGED <<disk, staged, saves, tplan, tsound, changes, tresult, turns, before>>

\* The assistant message; its error is returned though the edit stays.
SaveAnswer ==
  /\ tpc = "answer"
  /\ \/ TermOk /\ TermReturn("applied")
     \/ TermFail /\ TermReturn("unsaved")
  /\ UNCHANGED <<convVars, tplan, tsound>>

-----------------------------------------------------------------------------
(* aicli snapshot: the touched files that exist.                           *)
TakeSnapshot ==
  /\ tpc = "idle" /\ turns < MaxTurns /\ touched # {}
  /\ turns' = turns + 1
  /\ saves' = Append(saves, [p \in Paths |->
                IF p \in touched /\ disk[p] # "absent" THEN disk[p] ELSE "unlisted"])
  /\ before' = disk /\ tresult' = "none"
  /\ UNCHANGED <<disk, staged, touched, tpc, tplan, tsound, at, cause, changes, tfaults>>

(* aicli restore [snapshot.zip]: the latest archive unless one is named.   *)
(* Files are written in place; none is removed.                            *)
RestoreBegin ==
  /\ tpc = "idle" /\ turns < MaxTurns /\ saves # << >>
  /\ turns' = turns + 1 /\ Goto("write") /\ at' = 1
  /\ \E i \in 1 .. Len(saves) :
       tplan' = SetToSeq({[path |-> p, op |-> saves[i][p]] :
                            p \in {q \in Paths : saves[i][q] \in Present}})
  /\ before' = disk /\ tresult' = "none" /\ cause' = "command" /\ tsound' = TRUE
  /\ UNCHANGED <<disk, staged, saves, touched, changes, tfaults>>

RestoreWrite ==
  /\ tpc = "write"
  /\ IF at > Len(tplan) THEN TermReturn("restored") /\ TermOk /\ UNCHANGED <<disk, at>>
     ELSE \/ /\ TermOk /\ at' = at + 1 /\ UNCHANGED <<tpc, tresult>>
             /\ disk' = [disk EXCEPT ![Entry(at).path] = Entry(at).op]
          \/ /\ TermFail /\ TermReturn("error") /\ UNCHANGED at
             /\ \E c \in {disk[Entry(at).path], "torn"} :
                  disk' = [disk EXCEPT ![Entry(at).path] = c]
  /\ UNCHANGED <<staged, saves, touched, tplan, tsound, cause, changes, turns, before>>

(* Ctrl-C or a crash.                                                      *)
TermCrash ==
  /\ tpc # "idle" /\ TermReturn("crashed")
  /\ IF tpc = "write" /\ at <= Len(tplan)
     THEN \E c \in {disk[Entry(at).path], "torn"} :
            disk' = [disk EXCEPT ![Entry(at).path] = c]
     ELSE UNCHANGED disk
  /\ UNCHANGED <<staged, saves, touched, tplan, tsound, at, cause, changes, tfaults,
                 turns, before>>

TermStep == \/ TermUnprepared \/ StreamBroken \/ ResendFails
            \/ EmptyAnswer \/ ChatAnswer \/ Unparsed \/ EditAnswer
            \/ CreatePlanSnapshot \/ StageEntry \/ CommitEntry \/ UndoEntry
            \/ RestoreEntry \/ VerifyEdit \/ RecordEdit \/ SaveAnswer \/ RestoreWrite

TermNext == TermStep \/ TermStart \/ TakeSnapshot \/ RestoreBegin \/ TermCrash
=============================================================================
