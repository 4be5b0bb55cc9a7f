-------------------------- MODULE EditTurnsProofs --------------------------
(***************************************************************************)
(* The safety of the three ways an edit plan reaches the workspace, for    *)
(* every workspace and project, every set of plans a model may return and  *)
(* any number of runs, turns and failures.                                 *)
(*                                                                         *)
(* The two halves of EditTurns share the workspace's toolchain only, so    *)
(* each has its own inductive invariant: TurnInv for the terminal's turn,  *)
(* PlanInv for `aicli ask` and the Studio's chat.                          *)
(***************************************************************************)
EXTENDS EditTurns, FiniteSetTheorems, SequenceTheorems, WellFoundedInduction, TLAPS

-----------------------------------------------------------------------------
(* Verification: an unsound edit passes only where nothing checks it.      *)

Verified(sound, files) == sound \/ Unchecked(files)

\* The verdict is the workspace's, whose marker files do not change.
LEMMA SameVerdict ==
  ASSUME UNCHANGED <<project, tsound, tplan>>
  PROVE  Verified(tsound, PlanPaths(tplan))' = Verified(tsound, PlanPaths(tplan))
<1>1. NothingToRun' = NothingToRun /\ Toolchain' = Toolchain
  BY DEF NothingToRun, DetectNodeManager, NodeScripts, Toolchain
<1>2. PlanPaths(tplan)' = PlanPaths(tplan)
  BY DEF PlanPaths
<1>3. Unchecked(PlanPaths(tplan))' = Unchecked(PlanPaths(tplan))
  BY <1>1, <1>2, Zenon DEF Unchecked
<1> QED BY <1>3 DEF Verified

LEMMA SameEditVerdict ==
  ASSUME UNCHANGED <<project, edit>>
  PROVE  Verified(edit.sound, edit.files)' = Verified(edit.sound, edit.files)
<1>1. NothingToRun' = NothingToRun /\ Toolchain' = Toolchain
  BY DEF NothingToRun, DetectNodeManager, NodeScripts, Toolchain
<1>2. Unchecked(edit.files)' = Unchecked(edit.files)
  BY <1>1, Zenon DEF Unchecked
<1> QED BY <1>2 DEF Verified

LEMMA UnsoundRunFails == \A c, sound : "passed" \in Run(c, sound) => sound
BY DEF Run

LEMMA UnsoundGoFails == \A sound : "passed" \in RunAll(GoChecks, sound) => sound
<1> SUFFICES ASSUME NEW sound, "passed" \in RunAll(GoChecks, sound) PROVE sound
  OBVIOUS
<1>1. 1 \in DOMAIN GoChecks
  BY DEF GoChecks
<1>2. PICK r \in [DOMAIN GoChecks -> {"passed", "failed"}] :
        /\ \A i \in DOMAIN GoChecks : r[i] \in Run(GoChecks[i], sound)
        /\ "passed" = IF \A i \in DOMAIN GoChecks : r[i] = "passed" THEN "passed" ELSE "failed"
  BY DEF RunAll
<1>3. r[1] = "passed"
  BY <1>1, <1>2
<1> QED BY <1>1, <1>2, <1>3, UnsoundRunFails

LEMMA UnsoundNodeFails ==
  ASSUME project \in Projects, NEW sound, "passed" \in VerifyNode(sound)
  PROVE  sound \/ (project.manifest = "ok" /\ NothingToRun)
<1>1. project.manifest \in {"ok", "invalid", "unreadable"}
  BY ProjectsAssumption
<1> QED BY <1>1, UnsoundRunFails DEF VerifyNode

LEMMA UnsoundLintFails ==
  ASSUME NEW c, NEW extension, NEW files, NEW deleted, NEW sound,
         "passed" \in Lint(c, extension, files, deleted, sound)
  PROVE  sound \/ \A p \in files : Ext[p] # extension
<1> DEFINE linted == {p \in files : Ext[p] = extension}
<1>1. CASE linted = {}
  BY <1>1
<1>2. CASE linted # {}
  <2>1. "passed" \in Run(c, sound)
    BY <1>2 DEF Lint
  <2> QED BY <2>1, UnsoundRunFails
<1> QED BY <1>1, <1>2

LEMMA DetectIsHonest ==
  ASSUME project \in Projects, NEW files, NEW deleted, NEW sound,
         "passed" \in Detect(files, deleted, sound)
  PROVE  Verified(sound, files)
<1>1. CASE Toolchain = "go"
  BY <1>1, UnsoundGoFails DEF Detect, Verified
<1>2. CASE Toolchain = "node"
  BY <1>2, UnsoundNodeFails DEF Detect, Verified, Unchecked
<1>3. CASE Toolchain = "php"
  BY <1>3, UnsoundLintFails DEF Detect, Verified, Unchecked
<1>4. CASE Toolchain = "python"
  BY <1>4, UnsoundLintFails DEF Detect, Verified, Unchecked
<1>5. CASE Toolchain \notin {"go", "node", "php", "python"}
  BY <1>5 DEF Verified, Unchecked
<1> QED BY <1>1, <1>2, <1>3, <1>4, <1>5

-----------------------------------------------------------------------------
(* Archives list the files they hold in some order, each once.             *)

LEMMA SetListed ==
  ASSUME NEW S, IsFiniteSet(S)
  PROVE  /\ SetToSeq(S) \in Seq(S)
         /\ \A x \in S : \E k \in 1 .. Len(SetToSeq(S)) : SetToSeq(S)[k] = x
<1> DEFINE n == Cardinality(S)
           f == SetToSeq(S)
<1>1. n \in Nat /\ ExistsBijection(1 .. n, S)
  BY FS_CardinalityType
<1>2. \E g \in [1 .. n -> S] : IsInjective(g)
  BY <1>1 DEF ExistsBijection, Bijection, Injection
<1>3. f \in [1 .. n -> S] /\ IsInjective(f)
  BY <1>2 DEF SetToSeq
<1>4. f \in Injection(1 .. n, S)
  BY <1>3 DEF Injection
<1>5. IsFiniteSet(1 .. n) /\ Cardinality(1 .. n) = n
  BY <1>1, FS_Interval
<1> HIDE DEF n, f
<1>6. f \in Surjection(1 .. n, S)
  BY <1>4, <1>5, FS_Injection DEF n
<1>7. f \in Seq(S) /\ Len(f) = n
  BY <1>1, <1>3
<1>8. \A x \in S : \E k \in 1 .. n : f[k] = x
  BY <1>6 DEF Surjection
<1> QED BY <1>7, <1>8 DEF f

\* Among positions there is a first.
LEMMA LeastPosition ==
  ASSUME NEW n \in Nat, NEW I, I \subseteq 1 .. n, I # {}
  PROVE  \E k \in I : \A m \in I : k <= m
<1> DEFINE R == OpToRel(<, Nat)
<1>1. IsWellFoundedOn(R, Nat)
  BY NatLessThanWellFounded
<1>2. R = {ss \in Nat \X Nat : ss[1] < ss[2]}
  BY Zenon DEF OpToRel
<1>3. I \subseteq Nat
  OBVIOUS
<1> HIDE DEF R
<1>4. PICK k \in I : \A m \in I : ~ (<<m, k>> \in R)
  BY <1>1, <1>3, WFMin
<1>5. \A m \in I : k <= m
  <2> TAKE m \in I
  <2>1. m \in Nat /\ k \in Nat
    BY <1>3, <1>4
  <2>2. m < k => <<m, k>> \in R
    BY <2>1, <1>2
  <2>3. ~(m < k)
    BY <2>2, <1>4
  <2> QED BY <2>1, <2>3
<1> QED BY <1>5

-----------------------------------------------------------------------------
(* The terminal's turn.                                                    *)
(*                                                                         *)
(* From the snapshot on, the last archive holds every file of the plan as  *)
(* the turn found it, and only files of the plan differ from that.  While  *)
(* Apply undoes, a file still to be undone differs, or an undo failed; and *)
(* while the archive is restored, only files it has not come to differ.    *)

Talking == {"stream", "resend", "again", "repair", "fallback", "snapshot"}
Applying == {"stage", "rename", "remove", "verify", "record", "answer"}
Undoing == {"undo", "restore"}

TurnTypes ==
  /\ tpc \in {"idle", "write"} \cup Talking \cup Applying \cup Undoing
  /\ disk \in [Paths -> Present \cup {"absent"}]
  /\ before \in [Paths -> Present \cup {"absent"}]
  /\ saves \in Seq([Paths -> Saved])
  /\ tpc \in Applying \cup Undoing \cup {"snapshot"} => tplan \in TermPlans
  /\ tpc = "write" => tplan \in Seq([path : Paths, op : Present])
  /\ at \in Nat /\ (tpc \notin {"idle", "undo"} => at # 0)
  /\ tfaults \in Nat

\* The workspace and the archive hold what the turn began with, the plan aside.
Archive == [p \in Paths |-> IF p \in PlanPaths(tplan) THEN before[p] ELSE "unlisted"]
Changed == {p \in Paths : disk[p] # before[p]}
Snapped == /\ saves # << >> /\ Last(saves) = Archive
           /\ Changed \subseteq PlanPaths(tplan)

Order == Listed(Last(saves))
ToRestore == {Order[k] : k \in {i \in 1 .. Len(Order) : i >= at}}
ToUndo == {tplan[i].path : i \in {k \in 1 .. Len(tplan) : k <= at}}

TurnPhases ==
  /\ tpc \notin {"idle", "write"} \cup Undoing => cause = "none"
  /\ tpc = "write" => cause = "command"
  /\ tpc = "undo" => cause = "apply"
  /\ tpc = "restore" => cause \in {"apply", "verify", "record"}
  /\ tpc # "idle" => tresult = "none"
  /\ tpc \in Talking \cup {"stage"} => Changed = {}
  /\ tpc \in Applying \cup Undoing => Snapped
  /\ tpc = "undo" => tfaults >= 1 /\ (tfaults = 1 => Changed \subseteq ToUndo)
  /\ tpc = "restore" => /\ Changed \subseteq ToRestore
                        /\ cause = "apply" /\ tfaults <= 1 => Changed = {}

TurnApplied ==
  (tpc \in {"record", "answer"} \/ tresult = "applied") => Verified(tsound, PlanPaths(tplan))

TurnInv == TurnTypes /\ TurnPhases /\ TurnApplied
           /\ ErrorLeavesWorkspace /\ RecoveryPointFirst

LEMMA PlanTyped ==
  ASSUME TurnTypes, tplan \in TermPlans
  PROVE  /\ tplan \in Seq(TermEntry) /\ Len(tplan) \in Nat
         /\ \A i \in 1 .. Len(tplan) : tplan[i] \in TermEntry /\ tplan[i].path \in Paths
         /\ PlanPaths(tplan) \subseteq Paths /\ IsFiniteSet(PlanPaths(tplan))
<1>1. tplan \in Seq(TermEntry)
  BY TermPlanAssumption
<1>2. Len(tplan) \in Nat
  BY <1>1, LenProperties
<1>3. \A i \in 1 .. Len(tplan) : tplan[i] \in TermEntry
  BY <1>1, ElementOfSeq
<1>4. \A i \in 1 .. Len(tplan) : tplan[i].path \in Paths
  BY <1>3 DEF TermEntry
<1>5. PlanPaths(tplan) \subseteq Paths
  BY <1>4 DEF PlanPaths
<1>6. IsFiniteSet(PlanPaths(tplan))
  BY <1>5, PathsAssumption, FS_Subset
<1> QED BY <1>1, <1>2, <1>3, <1>4, <1>5, <1>6

LEMMA NothingChanged == TurnTypes /\ Changed = {} => disk = before
BY DEF TurnTypes, Changed

LEMMA NothingChangedNext == TurnTypes' /\ (Changed = {})' => (disk = before)'
BY NothingChanged, PTL

\* The archive of a turn recovers what the turn changed.
LEMMA Recoverable ==
  TurnTypes /\ (cause = "command" \/ Changed = {} \/ Snapped) => RecoveryPointFirst
<1> SUFFICES ASSUME TurnTypes, cause = "command" \/ Changed = {} \/ Snapped
             PROVE  RecoveryPointFirst
  OBVIOUS
<1>1. CASE cause = "command"
  BY <1>1 DEF RecoveryPointFirst
<1>2. CASE Changed = {}
  BY <1>2 DEF RecoveryPointFirst, Changed
<1>3. CASE Snapped
  <2> SUFFICES ASSUME NEW p \in Paths, disk[p] # before[p]
               PROVE  \E i \in 1 .. Len(saves) : saves[i][p] = before[p]
    BY DEF RecoveryPointFirst
  <2>1. p \in PlanPaths(tplan)
    BY <1>3 DEF Snapped, Changed
  <2>2. Last(saves)[p] = before[p]
    BY <1>3, <2>1 DEF Snapped, Archive
  <2>3. Len(saves) \in 1 .. Len(saves)
    BY <1>3, EmptySeq DEF TurnTypes, Snapped
  <2> QED BY <2>2, <2>3 DEF Last
<1> QED BY <1>1, <1>2, <1>3

LEMMA RecoverableNext ==
  TurnTypes' /\ (cause = "command" \/ Changed = {} \/ Snapped)' => RecoveryPointFirst'
BY Recoverable, PTL

\* A step of a turn that goes on, after which the archive or the workspace has
\* what the turn began with.
LEMMA GoesOn ==
  ASSUME TurnTypes', TurnPhases', TurnApplied',
         tpc' # "idle", cause' = "command" \/ (Changed = {})' \/ Snapped'
  PROVE  TurnInv'
<1>1. ErrorLeavesWorkspace'
  BY DEF TurnPhases, ErrorLeavesWorkspace
<1>2. RecoveryPointFirst'
  BY RecoverableNext
<1> QED BY <1>1, <1>2 DEF TurnInv

LEMMA TurnInitially == TermInit => TurnInv
<1> SUFFICES ASSUME TermInit PROVE TurnInv
  OBVIOUS
<1>1. TurnTypes
  <2>1. saves \in Seq([Paths -> Saved])
    BY EmptySeq DEF TermInit
  <2> QED BY <2>1 DEF TermInit, TurnTypes, Present, Talking, Applying, Undoing
<1>2. Changed = {}
  BY DEF TermInit, Changed
<1>3. TurnPhases /\ TurnApplied /\ ErrorLeavesWorkspace
  BY DEF TermInit, TurnPhases, TurnApplied, ErrorLeavesWorkspace, Talking, Applying, Undoing
<1>4. RecoveryPointFirst
  BY <1>1, <1>2, Recoverable
<1> QED BY <1>1, <1>3, <1>4 DEF TurnInv

-----------------------------------------------------------------------------
(* Until the snapshot.                                                     *)

LEMMA StartKeeps ==
  ASSUME TurnInv, TermStart
  PROVE  TurnInv'
<1>1. TurnTypes'
  BY DEF TurnInv, TurnTypes, TermStart, Goto, Talking, Applying, Undoing
<1>2. (Changed = {})'
  BY DEF TermStart, Changed
<1>3. TurnPhases' /\ TurnApplied' /\ tpc' # "idle"
  BY <1>2 DEF TermStart, Goto, TurnPhases, TurnApplied, Talking, Applying, Undoing
<1> QED BY <1>1, <1>2, <1>3, GoesOn

\* The conversation with the model, up to its last answer.
LEMMA TalkKeeps ==
  ASSUME TurnInv, tpc \in Talking, UNCHANGED <<convVars, tplan, tsound, tfaults>>,
         \/ tpc' \in Talking \ {"snapshot"} /\ UNCHANGED tresult
         \/ tpc' = "idle" /\ tresult' \in {"error", "chat"}
  PROVE  TurnInv'
<1>1. TurnTypes'
  BY DEF TurnInv, TurnTypes, convVars, Talking, Applying, Undoing
<1>2. Changed = {} /\ (Changed = {})'
  BY DEF TurnInv, TurnPhases, convVars, Changed, Talking
<1>3. cause = "none" /\ cause' = "none" /\ tresult = "none"
  BY DEF TurnInv, TurnPhases, convVars, Talking, Undoing
<1>4. TurnPhases' /\ TurnApplied' /\ ErrorLeavesWorkspace'
  BY <1>2, <1>3
     DEF TurnPhases, TurnApplied, ErrorLeavesWorkspace, Talking, Applying, Undoing
<1>5. RecoveryPointFirst'
  BY <1>1, <1>2, RecoverableNext
<1> QED BY <1>1, <1>4, <1>5 DEF TurnInv

LEMMA TalksKeep ==
  ASSUME TurnInv,
         TermUnprepared \/ StreamBroken \/ ResendFails \/ EmptyAnswer \/ ChatAnswer \/ Unparsed
  PROVE  TurnInv'
<1> USE DEF Goto, TermReturn, Talking, Answering, Correcting
<1>1. CASE TermUnprepared
  BY <1>1, TalkKeeps DEF TermUnprepared
<1>2. CASE StreamBroken
  BY <1>2, TalkKeeps DEF StreamBroken
<1>3. CASE ResendFails
  BY <1>3, TalkKeeps DEF ResendFails
<1>4. CASE EmptyAnswer
  BY <1>4, TalkKeeps DEF EmptyAnswer
<1>5. CASE ChatAnswer
  BY <1>5, TalkKeeps DEF ChatAnswer
<1>6. CASE Unparsed
  BY <1>6, TalkKeeps DEF Unparsed
<1> QED BY <1>1, <1>2, <1>3, <1>4, <1>5, <1>6

LEMMA EditAnswerKeeps ==
  ASSUME TurnInv, EditAnswer
  PROVE  TurnInv'
<1>1. tpc \in Talking /\ tpc' = "snapshot" /\ tplan' \in TermPlans
      /\ UNCHANGED <<convVars, tfaults, tresult>>
  BY DEF EditAnswer, Goto, Talking, Answering, Correcting
<1>2. TurnTypes'
  BY <1>1 DEF TurnInv, TurnTypes, convVars, Talking, Applying, Undoing
<1>3. (Changed = {})'
  BY <1>1 DEF TurnInv, TurnPhases, convVars, Changed
<1>4. TurnPhases' /\ TurnApplied'
  BY <1>1, <1>3
     DEF TurnInv, TurnPhases, TurnApplied, convVars, Talking, Applying, Undoing
<1> QED BY <1>1, <1>2, <1>3, <1>4, GoesOn

LEMMA SnapshotKeeps ==
  ASSUME TurnInv, CreatePlanSnapshot
  PROVE  TurnInv'
<1>1. /\ tpc = "snapshot" /\ tplan \in TermPlans
      /\ Changed = {} /\ disk = before /\ cause = "none" /\ tresult = "none"
      /\ UNCHANGED <<disk, before, tplan, tsound, cause>>
  <2>1. /\ tpc = "snapshot" /\ UNCHANGED <<disk, before, tplan, tsound, cause>>
    BY DEF CreatePlanSnapshot
  <2>2. Changed = {} /\ cause = "none" /\ tresult = "none" /\ tplan \in TermPlans
    BY <2>1 DEF TurnInv, TurnTypes, TurnPhases, Talking, Applying, Undoing
  <2> QED BY <2>1, <2>2, NothingChanged DEF TurnInv
<1>2. (Changed = {})'
  BY <1>1 DEF Changed
<1>3. ASSUME TermFail, TermReturn("error"), UNCHANGED <<saves, at>> PROVE TurnInv'
  <2>1. TurnTypes'
    BY <1>1, <1>3 DEF TurnInv, TurnTypes, TermFail, TermReturn, Goto, Talking, Applying, Undoing
  <2>2. TurnPhases' /\ TurnApplied' /\ ErrorLeavesWorkspace'
    BY <1>1, <1>2, <1>3 DEF TermReturn, Goto, TurnPhases, TurnApplied,
                            ErrorLeavesWorkspace, Talking, Applying, Undoing
  <2>3. RecoveryPointFirst'
    BY <2>1, <1>2, RecoverableNext
  <2> QED BY <2>1, <2>2, <2>3 DEF TurnInv
<1>4. ASSUME TermOk, saves' = Append(saves, [p \in Paths |-> Captured(p)]),
             Goto("stage"), at' = 1, UNCHANGED tresult
      PROVE  TurnInv'
  <2>1. [p \in Paths |-> Captured(p)] = Archive
    BY <1>1 DEF Captured, Archive
  <2>2. Archive \in [Paths -> Saved] /\ saves \in Seq([Paths -> Saved])
    BY DEF TurnInv, TurnTypes, Archive, Saved
  <2>3. /\ saves' \in Seq([Paths -> Saved]) /\ saves' # << >> /\ Last(saves') = Archive
    BY <1>4, <2>1, <2>2, AppendProperties DEF Last
  <2>4. TurnTypes'
    BY <1>1, <1>4, <2>3 DEF TurnInv, TurnTypes, TermOk, Goto, Talking, Applying, Undoing
  <2>5. Archive' = Archive
    BY <1>1 DEF Archive
  <2>6. Snapped'
    BY <1>2, <2>3, <2>5 DEF Snapped
  <2>7. TurnPhases' /\ TurnApplied' /\ tpc' # "idle"
    BY <1>1, <1>2, <1>4, <2>6
       DEF TurnPhases, TurnApplied, Goto, Talking, Applying, Undoing
  <2> QED BY <2>4, <2>6, <2>7, GoesOn
<1> QED BY <1>3, <1>4 DEF CreatePlanSnapshot

-----------------------------------------------------------------------------
(* Apply and its rollback.                                                 *)

\* What an applying step starts from.
LEMMA Applied ==
  ASSUME TurnInv, tpc \in Applying
  PROVE  /\ Snapped /\ cause = "none" /\ tresult = "none" /\ tplan \in TermPlans
         /\ at \in Nat \ {0} /\ Len(tplan) \in Nat
         /\ \A i \in 1 .. Len(tplan) : tplan[i].path \in PlanPaths(tplan) \cap Paths
<1>1. /\ Snapped /\ cause = "none" /\ tresult = "none" /\ tplan \in TermPlans
      /\ at \in Nat \ {0}
  BY DEF TurnInv, TurnTypes, TurnPhases, Applying, Undoing
<1>2. Len(tplan) \in Nat /\ \A i \in 1 .. Len(tplan) : tplan[i].path \in Paths
  BY <1>1, PlanTyped DEF TurnInv
<1>3. \A i \in 1 .. Len(tplan) : tplan[i].path \in PlanPaths(tplan)
  BY DEF PlanPaths
<1> QED BY <1>1, <1>2, <1>3

\* The archive is not touched again, and a step that keeps to the plan's files
\* leaves the others as the turn found them.
LEMMA StillSnapped ==
  ASSUME TurnInv, Snapped, UNCHANGED <<saves, before, tplan>>,
         \A p \in Paths \ PlanPaths(tplan) : disk'[p] = disk[p]
  PROVE  Snapped'
<1>1. Archive' = Archive
  BY DEF Archive
<1>2. Changed' \subseteq PlanPaths(tplan)
  BY DEF Snapped, Changed
<1> QED BY <1>1, <1>2 DEF Snapped

\* When the archive is about to be restored, it lists every file of the plan.
LEMMA AllToRestore ==
  TurnTypes /\ Snapped /\ tplan \in TermPlans
    => /\ Order \in Seq(PlanPaths(tplan)) /\ Len(Order) \in Nat
       /\ \A p \in PlanPaths(tplan) : \E k \in 1 .. Len(Order) : Order[k] = p
<1> SUFFICES ASSUME TurnTypes, Snapped, tplan \in TermPlans
             PROVE  /\ Order \in Seq(PlanPaths(tplan)) /\ Len(Order) \in Nat
                    /\ \A p \in PlanPaths(tplan) : \E k \in 1 .. Len(Order) : Order[k] = p
  OBVIOUS
<1>1. PlanPaths(tplan) \subseteq Paths /\ IsFiniteSet(PlanPaths(tplan))
  BY PlanTyped
<1>2. \A p \in Paths : before[p] # "unlisted"
  BY DEF TurnTypes, Present
<1>3. {p \in Paths : Last(saves)[p] # "unlisted"} = PlanPaths(tplan)
  BY <1>1, <1>2 DEF Snapped, Archive
<1>4. Order = SetToSeq(PlanPaths(tplan))
  BY <1>3 DEF Order, Listed
<1>5. Order \in Seq(PlanPaths(tplan))
      /\ \A p \in PlanPaths(tplan) : \E k \in 1 .. Len(Order) : Order[k] = p
  BY <1>1, <1>4, SetListed
<1>6. Len(Order) \in Nat
  BY <1>5, LenProperties
<1> QED BY <1>5, <1>6

LEMMA AllToRestoreNext ==
  TurnTypes' /\ Snapped' /\ (tplan \in TermPlans)'
    => (/\ Order \in Seq(PlanPaths(tplan)) /\ Len(Order) \in Nat
        /\ \A p \in PlanPaths(tplan) : \E k \in 1 .. Len(Order) : Order[k] = p)'
BY AllToRestore, PTL

\* Restoring begins.
LEMMA RestoreBegins ==
  ASSUME TurnInv, TurnTypes', Snapped', (tplan \in TermPlans)',
         tpc' = "restore", at' = 1, cause' \in {"apply", "verify", "record"},
         UNCHANGED tresult, tresult = "none",
         (cause = "apply" /\ tfaults <= 1 => Changed = {})'
  PROVE  TurnInv'
<1>1. \A p \in PlanPaths(tplan)' : \E k \in 1 .. Len(Order)' : Order'[k] = p
  BY AllToRestoreNext
<1>2. PlanPaths(tplan)' \subseteq ToRestore'
  BY <1>1 DEF ToRestore
<1>3. Changed' \subseteq ToRestore'
  BY <1>2 DEF Snapped
<1>4. TurnPhases' /\ TurnApplied' /\ tpc' # "idle"
  BY <1>3 DEF TurnPhases, TurnApplied, Talking, Applying, Undoing
<1> QED BY <1>4, GoesOn

LEMMA StageKeeps ==
  ASSUME TurnInv, StageEntry
  PROVE  TurnInv'
<1>1. /\ tpc = "stage" /\ Changed = {} /\ Snapped /\ cause = "none" /\ tresult = "none"
      /\ tplan \in TermPlans /\ at \in Nat \ {0}
  BY Applied DEF StageEntry, TurnInv, TurnPhases, Applying
<1>2. UNCHANGED <<disk, saves, before, tplan, tsound, tresult>>
  BY DEF StageEntry
<1>3. (Changed = {})' /\ Snapped' /\ (tplan \in TermPlans)'
  BY <1>1, <1>2, StillSnapped DEF Changed
<1>4. tfaults' \in Nat
  BY DEF StageEntry, TermOk, TermFail, TurnInv, TurnTypes
<1>5. ASSUME NEW left, ApplyFails(left) PROVE TurnInv'
  <2>1. tpc' = "restore" /\ at' = 1 /\ cause' = "apply"
    BY <1>5 DEF ApplyFails, Goto
  <2>2. TurnTypes'
    BY <1>1, <1>2, <1>4, <2>1
       DEF TurnInv, TurnTypes, Talking, Applying, Undoing
  <2> QED BY <1>1, <1>2, <1>3, <2>1, <2>2, RestoreBegins
<1>6. ASSUME tpc' \in {"stage", "rename"}, at' \in Nat \ {0}, UNCHANGED cause PROVE TurnInv'
  <2>1. TurnTypes'
    BY <1>1, <1>2, <1>4, <1>6
       DEF TurnInv, TurnTypes, Talking, Applying, Undoing
  <2>2. TurnPhases' /\ TurnApplied' /\ tpc' # "idle"
    BY <1>1, <1>2, <1>3, <1>6
       DEF TurnPhases, TurnApplied, Talking, Applying, Undoing
  <2> QED BY <2>1, <2>2, <1>3, GoesOn
<1>7. CASE at > Len(tplan)
  BY <1>6, <1>7 DEF StageEntry, Goto
<1>8. CASE ~(at > Len(tplan))
  <2>1. \/ \E left : ApplyFails(left)
        \/ at' = at + 1 /\ UNCHANGED <<tpc, cause>>
    BY <1>8 DEF StageEntry
  <2> QED BY <2>1, <1>1, <1>5, <1>6
<1> QED BY <1>7, <1>8

LEMMA CommitKeeps ==
  ASSUME TurnInv, CommitEntry
  PROVE  TurnInv'
<1>1. /\ tpc \in {"rename", "remove"} /\ Snapped /\ cause = "none" /\ tresult = "none"
      /\ tplan \in TermPlans /\ at \in Nat \ {0} /\ Len(tplan) \in Nat
      /\ \A i \in 1 .. Len(tplan) : tplan[i].path \in PlanPaths(tplan) \cap Paths
  BY Applied DEF CommitEntry, Applying
<1>2. UNCHANGED <<saves, before, tplan, tsound, tresult>>
  BY DEF CommitEntry
<1>3. tfaults \in Nat /\ tfaults' \in Nat
  BY DEF CommitEntry, TermOk, TermFail, TurnInv, TurnTypes
<1>4. ASSUME tpc' \in {"rename", "remove", "verify"}, at' \in Nat \ {0}, UNCHANGED cause,
             disk' \in [Paths -> Present \cup {"absent"}],
             \A p \in Paths \ PlanPaths(tplan) : disk'[p] = disk[p]
      PROVE  TurnInv'
  <2>1. TurnTypes'
    BY <1>1, <1>2, <1>3, <1>4
       DEF TurnInv, TurnTypes, Talking, Applying, Undoing
  <2>2. Snapped'
    BY <1>1, <1>2, <1>4, StillSnapped
  <2>3. TurnPhases' /\ TurnApplied' /\ tpc' # "idle"
    BY <1>1, <1>2, <1>4, <2>2
       DEF TurnPhases, TurnApplied, Talking, Applying, Undoing
  <2> QED BY <2>1, <2>2, <2>3, GoesOn
<1>5. CASE Pending(tpc) = {}
  <2>1. tpc' \in {"remove", "verify"} /\ at' = 1 /\ UNCHANGED <<cause, disk>>
    BY <1>1, <1>5 DEF CommitEntry, Goto
  <2> QED BY <2>1, <1>4 DEF TurnInv, TurnTypes
<1>6. CASE Pending(tpc) # {}
  <2> DEFINE i == CHOOSE k \in Pending(tpc) : \A m \in Pending(tpc) : k <= m
  <2>1. \/ /\ at' = i + 1 /\ UNCHANGED <<tpc, cause>>
           /\ disk' = [disk EXCEPT ![Entry(i).path] =
                         IF tpc = "rename" THEN "new" ELSE "absent"]
        \/ /\ TermFail /\ Goto("undo") /\ at' = Len(tplan)
           /\ cause' = "apply" /\ UNCHANGED disk
    BY <1>6 DEF CommitEntry
  <2> HIDE DEF i
  <2>2. CASE /\ at' = i + 1 /\ UNCHANGED <<tpc, cause>>
             /\ disk' = [disk EXCEPT ![Entry(i).path] =
                           IF tpc = "rename" THEN "new" ELSE "absent"]
    <3>1. i \in 1 .. Len(tplan)
      <4>1. \E k \in Pending(tpc) : \A m \in Pending(tpc) : k <= m
        <5>1. Pending(tpc) \subseteq 1 .. Len(tplan)
          BY DEF Pending
        <5> QED BY <5>1, <1>1, <1>6, LeastPosition
      <4> QED BY <4>1 DEF i, Pending
    <3>2. Entry(i).path \in PlanPaths(tplan) \cap Paths
      BY <3>1, <1>1 DEF Entry
    <3>3. disk' \in [Paths -> Present \cup {"absent"}]
      BY <2>2, <3>2 DEF TurnInv, TurnTypes, Present
    <3>4. \A p \in Paths \ PlanPaths(tplan) : disk'[p] = disk[p]
      BY <2>2, <3>2 DEF TurnInv, TurnTypes
    <3> QED BY <1>1, <1>4, <2>2, <3>1, <3>3, <3>4
  <2>3. CASE /\ TermFail /\ Goto("undo") /\ at' = Len(tplan)
             /\ cause' = "apply" /\ UNCHANGED disk
    <3>1. tpc' = "undo"
      BY <2>3 DEF Goto
    <3>2. TurnTypes'
      BY <1>1, <1>2, <1>3, <2>3, <3>1
         DEF TurnInv, TurnTypes, Talking, Applying, Undoing
    <3>3. Snapped'
      BY <1>1, <1>2, <2>3, StillSnapped
    <3>4. tfaults' >= 1
      BY <1>3, <2>3 DEF TermFail
    <3>5. PlanPaths(tplan)' \subseteq ToUndo'
      BY <1>1, <1>2, <2>3 DEF PlanPaths, ToUndo
    <3>6. Changed' \subseteq ToUndo'
      BY <3>3, <3>5 DEF Snapped
    <3>7. TurnPhases' /\ TurnApplied' /\ tpc' # "idle"
      BY <1>1, <1>2, <2>3, <3>1, <3>3, <3>4, <3>6
         DEF TurnPhases, TurnApplied, Talking, Applying, Undoing
    <3> QED BY <3>2, <3>3, <3>7, GoesOn
  <2> QED BY <2>1, <2>2, <2>3
<1> QED BY <1>5, <1>6

\* An undone entry is as the turn found it, unless the undo failed.
LEMMA UndoKeeps ==
  ASSUME TurnInv, UndoEntry
  PROVE  TurnInv'
<1>1. /\ tpc = "undo" /\ Snapped /\ cause = "apply" /\ tresult = "none"
      /\ tplan \in TermPlans /\ at \in Nat /\ tfaults \in Nat /\ tfaults >= 1
      /\ (tfaults = 1 => Changed \subseteq ToUndo)
  BY DEF UndoEntry, TurnInv, TurnTypes, TurnPhases, Undoing
<1>2. UNCHANGED <<saves, before, tplan, tsound, cause, tresult>>
  BY DEF UndoEntry
<1>3. /\ tplan \in Seq(TermEntry) /\ Len(tplan) \in Nat
      /\ \A i \in 1 .. Len(tplan) : tplan[i].path \in PlanPaths(tplan) \cap Paths
  <2>1. \A i \in 1 .. Len(tplan) : tplan[i].path \in PlanPaths(tplan)
    BY DEF PlanPaths
  <2> QED BY <2>1, <1>1, PlanTyped DEF TurnInv
<1>4. CASE at = 0
  <2>1. tpc' = "restore" /\ at' = 1 /\ UNCHANGED <<disk, tfaults>>
    BY <1>4 DEF UndoEntry, Goto, TermOk
  <2>2. TurnTypes'
    BY <1>1, <1>2, <2>1 DEF TurnInv, TurnTypes, Talking, Applying, Undoing
  <2>3. Snapped'
    BY <1>1, <1>2, <2>1, StillSnapped
  <2>4. ToUndo = {}
    BY <1>1, <1>3, <1>4 DEF ToUndo
  <2>5. (cause = "apply" /\ tfaults <= 1 => Changed = {})'
    BY <1>1, <1>2, <2>1, <2>4 DEF Changed
  <2> QED BY <1>1, <1>2, <2>1, <2>2, <2>3, <2>5, RestoreBegins
<1>5. CASE at # 0
  <2>1. at' = at - 1 /\ tpc' = "undo"
    BY <1>1, <1>5 DEF UndoEntry
  <2>2. \/ TermOk /\ disk' = [disk EXCEPT ![Entry(at).path] = before[Entry(at).path]]
        \/ TermFail /\ UNCHANGED disk
    BY <1>5 DEF UndoEntry
  <2>3. tfaults' \in Nat /\ tfaults' >= 1 /\ (tfaults' = 1 => tfaults = 1 /\ TermOk)
    BY <1>1, <2>2 DEF TermOk, TermFail
  <2>4. \A p \in Paths : disk'[p] \in {disk[p], before[p]}
    BY <2>2 DEF TurnInv, TurnTypes
  <2>5. disk' \in [Paths -> Present \cup {"absent"}]
    <3>1. \A p \in Paths : disk'[p] \in Present \cup {"absent"}
      BY <2>4 DEF TurnInv, TurnTypes
    <3>2. disk' = [p \in Paths |-> disk'[p]]
      BY <2>2 DEF TurnInv, TurnTypes
    <3> QED BY <3>1, <3>2
  <2>6. TurnTypes'
    BY <1>1, <1>2, <1>5, <2>1, <2>3, <2>5 DEF TurnInv, TurnTypes, Talking, Applying, Undoing
  <2>7. \A p \in Paths \ PlanPaths(tplan) : disk'[p] = disk[p]
    BY <1>1, <2>4 DEF Snapped, Changed
  <2>8. Snapped'
    BY <1>1, <1>2, <2>7, StillSnapped
  <2>9. tfaults' = 1 => Changed' \subseteq ToUndo'
    <3> SUFFICES ASSUME tfaults' = 1, NEW p \in Changed' PROVE p \in ToUndo'
      OBVIOUS
    <3>1. p \in Paths /\ disk'[p] # before[p]
      BY <1>2 DEF Changed
    <3>2. tfaults = 1 /\ disk' = [disk EXCEPT ![Entry(at).path] = before[Entry(at).path]]
      BY <1>1, <2>2, <2>3 DEF TermFail
    <3>3. disk[p] # before[p] /\ p # Entry(at).path
      BY <3>1, <3>2 DEF TurnInv, TurnTypes
    <3>4. p \in ToUndo
      BY <1>1, <3>1, <3>2, <3>3 DEF Changed
    <3>5. PICK i \in 1 .. Len(tplan) : i <= at /\ tplan[i].path = p
      BY <3>4 DEF ToUndo
    <3>6. i <= at'
      BY <1>1, <1>3, <2>1, <3>3, <3>5 DEF Entry
    <3> QED BY <1>2, <3>5, <3>6 DEF ToUndo
  <2>10. TurnPhases' /\ TurnApplied' /\ tpc' # "idle"
    BY <1>1, <1>2, <2>1, <2>3, <2>8, <2>9
       DEF TurnPhases, TurnApplied, Talking, Applying, Undoing
  <2> QED BY <2>6, <2>8, <2>10, GoesOn
<1> QED BY <1>4, <1>5

-----------------------------------------------------------------------------
(* The snapshot restored.                                                  *)

LEMMA RestoreKeeps ==
  ASSUME TurnInv, RestoreEntry
  PROVE  TurnInv'
<1>1. /\ tpc = "restore" /\ Snapped /\ cause \in {"apply", "verify", "record"}
      /\ tresult = "none" /\ tplan \in TermPlans /\ at \in Nat \ {0} /\ tfaults \in Nat
      /\ Changed \subseteq ToRestore
      /\ (cause = "apply" /\ tfaults <= 1 => Changed = {})
  BY DEF RestoreEntry, TurnInv, TurnTypes, TurnPhases, Undoing
<1>2. UNCHANGED <<saves, before, tplan, tsound, cause>> /\ Order' = Order
  BY DEF RestoreEntry, Order
<1>3. Order \in Seq(PlanPaths(tplan)) /\ Len(Order) \in Nat
  BY <1>1, AllToRestore DEF TurnInv
<1>4. PlanPaths(tplan) \subseteq Paths
  BY <1>1, PlanTyped DEF TurnInv
\* The restore ends here, with an error unless it failed and reports so.
<1>5. ASSUME tpc' = "idle", tresult' \in {"error", "rollback_failed"},
             tresult' = "error" => tfaults' > 2 \/ Changed = {},
             tfaults' \in Nat, UNCHANGED <<disk, at>>
      PROVE  TurnInv'
  <2>1. TurnTypes'
    BY <1>1, <1>2, <1>5 DEF TurnInv, TurnTypes, Talking, Applying, Undoing
  <2>2. Snapped'
    BY <1>1, <1>2, <1>5, StillSnapped
  <2>3. RecoveryPointFirst'
    BY <2>1, <2>2, RecoverableNext
  <2>4. ErrorLeavesWorkspace'
    <3>1. CASE Changed = {}
      BY <1>2, <1>5, <3>1, NothingChanged DEF TurnInv, ErrorLeavesWorkspace
    <3>2. CASE Changed # {}
      BY <1>5, <3>2 DEF ErrorLeavesWorkspace
    <3> QED BY <3>1, <3>2
  <2>5. TurnPhases' /\ TurnApplied'
    BY <1>5 DEF TurnPhases, TurnApplied, Talking, Applying, Undoing
  <2> QED BY <2>1, <2>3, <2>4, <2>5 DEF TurnInv
<1>6. CASE at > Len(Order)
  <2>1. RestoreEnds(TRUE) /\ TermOk /\ UNCHANGED <<disk, at>>
    BY <1>6 DEF RestoreEntry, Order
  <2>2. Changed = {}
    BY <1>1, <1>3, <1>6 DEF ToRestore
  <2> QED BY <1>1, <1>5, <2>1, <2>2 DEF RestoreEnds, TermReturn, Goto, TermOk
<1>7. CASE ~(at > Len(Order))
  <2>1. \/ /\ TermOk /\ at' = at + 1
           /\ disk' = [disk EXCEPT ![Order[at]] = RestoredContent(Order[at])]
           /\ UNCHANGED <<tpc, tresult>>
        \/ TermFail /\ RestoreEnds(FALSE) /\ UNCHANGED <<disk, at>>
    BY <1>7 DEF RestoreEntry, Order
  <2>2. CASE TermFail /\ RestoreEnds(FALSE) /\ UNCHANGED <<disk, at>>
    <3>1. tpc' = "idle" /\ tresult' \in {"error", "rollback_failed"}
          /\ tfaults' = tfaults + 1 /\ (tresult' = "error" => cause = "apply")
      BY <2>2 DEF RestoreEnds, TermReturn, Goto, TermFail
    <3>2. tresult' = "error" => tfaults' > 2 \/ Changed = {}
      BY <1>1, <3>1
    <3> QED BY <1>1, <1>5, <2>2, <3>1, <3>2
  <2>3. CASE /\ TermOk /\ at' = at + 1
             /\ disk' = [disk EXCEPT ![Order[at]] = RestoredContent(Order[at])]
             /\ UNCHANGED <<tpc, tresult>>
    <3>1. at \in 1 .. Len(Order)
      BY <1>1, <1>3, <1>7
    <3>2. Order[at] \in PlanPaths(tplan) \cap Paths
      BY <1>3, <1>4, <3>1, ElementOfSeq
    <3>3. RestoredContent(Order[at]) = before[Order[at]]
      BY <1>1, <3>2 DEF RestoredContent, Snapped, Archive
    <3>4. disk' = [disk EXCEPT ![Order[at]] = before[Order[at]]]
      BY <2>3, <3>3
    <3>5. disk' \in [Paths -> Present \cup {"absent"}]
      BY <3>2, <3>4 DEF TurnInv, TurnTypes
    <3>6. \A p \in Paths : disk'[p] = IF p = Order[at] THEN before[p] ELSE disk[p]
      BY <3>4 DEF TurnInv, TurnTypes
    <3>7. TurnTypes'
      BY <1>1, <1>2, <2>3, <3>5 DEF TurnInv, TurnTypes, TermOk, Talking, Applying, Undoing
    <3>8. Snapped'
      BY <1>1, <1>2, <3>2, <3>6, StillSnapped
    <3>9. Changed' \subseteq Changed \ {Order[at]}
      BY <1>2, <3>6 DEF Changed
    <3>10. Changed' \subseteq ToRestore'
      <4> SUFFICES ASSUME NEW p \in Changed' PROVE p \in ToRestore'
        OBVIOUS
      <4>1. p \in ToRestore /\ p # Order[at]
        BY <1>1, <3>9
      <4>2. PICK k \in 1 .. Len(Order) : k >= at /\ Order[k] = p
        BY <4>1 DEF ToRestore
      <4>3. k >= at'
        BY <1>1, <1>3, <2>3, <4>1, <4>2
      <4> QED BY <1>2, <4>2, <4>3 DEF ToRestore
    <3>11. (cause = "apply" /\ tfaults <= 1 => Changed = {})'
      BY <1>1, <1>2, <2>3, <3>9 DEF TermOk
    <3>12. TurnPhases' /\ TurnApplied' /\ tpc' # "idle"
      BY <1>1, <1>2, <2>3, <3>8, <3>10, <3>11
         DEF TurnPhases, TurnApplied, Talking, Applying, Undoing
    <3> QED BY <3>7, <3>8, <3>12, GoesOn
  <2> QED BY <2>1, <2>2, <2>3
<1> QED BY <1>6, <1>7

-----------------------------------------------------------------------------
(* After Apply.                                                            *)

LEMMA VerifyKeeps ==
  ASSUME TurnInv, project \in Projects, UNCHANGED project, VerifyEdit
  PROVE  TurnInv'
<1>1. /\ tpc = "verify" /\ Snapped /\ cause = "none" /\ tresult = "none"
      /\ tplan \in TermPlans /\ at \in Nat \ {0} /\ tfaults \in Nat
  BY Applied DEF VerifyEdit, TurnInv, TurnTypes, Applying
<1>2. UNCHANGED <<disk, saves, before, tplan, tsound, tresult, tfaults>>
  BY DEF VerifyEdit
<1>3. Snapped'
  BY <1>1, <1>2, StillSnapped
<1>4. \/ RollBack("verify")
      \/ /\ "passed" \in Detect(PlanPaths(tplan), Deleted, tsound)
         /\ Goto("record") /\ UNCHANGED <<at, cause>>
  BY DEF VerifyEdit
<1>5. CASE RollBack("verify")
  <2>1. tpc' = "restore" /\ at' = 1 /\ cause' = "verify"
    BY <1>5 DEF RollBack, Goto
  <2>2. TurnTypes'
    BY <1>1, <1>2, <2>1 DEF TurnInv, TurnTypes, Talking, Applying, Undoing
  <2> QED BY <1>1, <1>2, <1>3, <2>1, <2>2, RestoreBegins
<1>6. CASE /\ "passed" \in Detect(PlanPaths(tplan), Deleted, tsound)
           /\ Goto("record") /\ UNCHANGED <<at, cause>>
  <2>1. Verified(tsound, PlanPaths(tplan))
    BY <1>6, DetectIsHonest
  <2>2. Verified(tsound, PlanPaths(tplan))'
    BY <1>2, <2>1, SameVerdict
  <2>3. TurnTypes'
    BY <1>1, <1>2, <1>6 DEF TurnInv, TurnTypes, Goto, Talking, Applying, Undoing
  <2>4. TurnPhases' /\ TurnApplied' /\ tpc' # "idle"
    BY <1>1, <1>2, <1>3, <1>6, <2>2
       DEF TurnPhases, TurnApplied, Goto, Talking, Applying, Undoing
  <2> QED BY <1>3, <2>3, <2>4, GoesOn
<1> QED BY <1>4, <1>5, <1>6

LEMMA RecordKeeps ==
  ASSUME TurnInv, UNCHANGED project, RecordEdit
  PROVE  TurnInv'
<1>1. /\ tpc = "record" /\ Snapped /\ cause = "none" /\ tresult = "none"
      /\ tplan \in TermPlans /\ at \in Nat \ {0} /\ tfaults \in Nat
      /\ Verified(tsound, PlanPaths(tplan))
  BY Applied DEF RecordEdit, TurnInv, TurnTypes, TurnApplied, Applying
<1>2. UNCHANGED <<disk, saves, before, tplan, tsound, tresult>> /\ tfaults' \in Nat
  BY <1>1 DEF RecordEdit, TermOk, TermFail
<1>3. Snapped' /\ Verified(tsound, PlanPaths(tplan))'
  BY <1>1, <1>2, StillSnapped, SameVerdict
<1>4. CASE RollBack("record")
  <2>1. tpc' = "restore" /\ at' = 1 /\ cause' = "record"
    BY <1>4 DEF RollBack, Goto
  <2>2. TurnTypes'
    BY <1>1, <1>2, <2>1 DEF TurnInv, TurnTypes, Talking, Applying, Undoing
  <2> QED BY <1>1, <1>2, <1>3, <2>1, <2>2, RestoreBegins
<1>5. CASE Goto("answer") /\ UNCHANGED <<at, cause>>
  <2>1. TurnTypes'
    BY <1>1, <1>2, <1>5 DEF TurnInv, TurnTypes, Goto, Talking, Applying, Undoing
  <2>2. TurnPhases' /\ TurnApplied' /\ tpc' # "idle"
    BY <1>1, <1>2, <1>3, <1>5
       DEF TurnPhases, TurnApplied, Goto, Talking, Applying, Undoing
  <2> QED BY <1>3, <2>1, <2>2, GoesOn
<1> QED BY <1>4, <1>5 DEF RecordEdit

LEMMA SaveAnswerKeeps ==
  ASSUME TurnInv, UNCHANGED project, SaveAnswer
  PROVE  TurnInv'
<1>1. /\ tpc = "answer" /\ Snapped /\ cause = "none"
      /\ tplan \in TermPlans /\ tfaults \in Nat
      /\ Verified(tsound, PlanPaths(tplan))
  BY Applied DEF SaveAnswer, TurnInv, TurnTypes, TurnApplied, Applying
<1>2. /\ UNCHANGED <<convVars, tplan, tsound>> /\ tfaults' \in Nat
      /\ tpc' = "idle" /\ tresult' \in {"applied", "unsaved"}
  BY <1>1 DEF SaveAnswer, TermOk, TermFail, TermReturn, Goto
<1>3. TurnTypes'
  BY <1>1, <1>2 DEF TurnInv, TurnTypes, convVars, Talking, Applying, Undoing
<1>4. Snapped' /\ Verified(tsound, PlanPaths(tplan))'
  BY <1>1, <1>2, StillSnapped, SameVerdict DEF convVars
<1>5. TurnPhases' /\ TurnApplied' /\ ErrorLeavesWorkspace'
  BY <1>2, <1>4
     DEF TurnPhases, TurnApplied, ErrorLeavesWorkspace, Talking, Applying, Undoing
<1> QED BY <1>3, <1>4, <1>5, RecoverableNext DEF TurnInv

-----------------------------------------------------------------------------
(* The snapshot and restore commands, and a turn that dies.                *)

LEMMA TakeSnapshotKeeps ==
  ASSUME TurnInv, TakeSnapshot
  PROVE  TurnInv'
<1> DEFINE taken == [p \in Paths |->
                       IF p \in touched /\ disk[p] # "absent" THEN disk[p] ELSE "unlisted"]
<1>1. /\ tpc = "idle" /\ tpc' = "idle" /\ tresult' = "none"
      /\ before' = disk /\ disk' = disk /\ saves' = Append(saves, taken)
      /\ UNCHANGED <<tplan, at, tfaults>>
  BY DEF TakeSnapshot
<1>2. taken \in [Paths -> Saved]
  BY DEF TurnInv, TurnTypes, Saved
<1> HIDE DEF taken
<1>3. saves' \in Seq([Paths -> Saved])
  BY <1>1, <1>2, AppendProperties DEF TurnInv, TurnTypes
<1>4. TurnTypes'
  BY <1>1, <1>3 DEF TurnInv, TurnTypes, Talking, Applying, Undoing
<1>5. (Changed = {})'
  BY <1>1 DEF Changed
<1>6. TurnPhases' /\ TurnApplied' /\ ErrorLeavesWorkspace'
  BY <1>1 DEF TurnPhases, TurnApplied, ErrorLeavesWorkspace, Talking, Applying, Undoing
<1> QED BY <1>4, <1>5, <1>6, RecoverableNext DEF TurnInv

LEMMA RestoreBeginKeeps ==
  ASSUME TurnInv, RestoreBegin
  PROVE  TurnInv'
<1>1. /\ tpc' = "write" /\ at' = 1 /\ tresult' = "none" /\ cause' = "command"
      /\ before' = disk /\ UNCHANGED <<disk, saves, tfaults>>
  BY DEF RestoreBegin, Goto
<1>2. PICK i \in 1 .. Len(saves) :
        tplan' = SetToSeq({[path |-> p, op |-> saves[i][p]] :
                             p \in {q \in Paths : saves[i][q] \in Present}})
  BY DEF RestoreBegin
<1> DEFINE kept == {q \in Paths : saves[i][q] \in Present}
           entries == {[path |-> p, op |-> saves[i][p]] : p \in kept}
<1>3. IsFiniteSet(entries)
  <2>1. IsFiniteSet(kept)
    BY PathsAssumption, FS_Subset
  <2> DEFINE f == [p \in kept |-> [path |-> p, op |-> saves[i][p]]]
  <2>2. f \in Surjection(kept, entries)
    BY DEF Surjection
  <2> QED BY <2>1, <2>2, FS_Surjection
<1>4. entries \subseteq [path : Paths, op : Present]
  OBVIOUS
<1> HIDE DEF entries
<1>5. tplan' \in Seq([path : Paths, op : Present])
  <2>1. tplan' \in Seq(entries)
    BY <1>2, <1>3, SetListed DEF entries
  <2> QED BY <2>1, <1>4, SeqMonotonic
<1>6. TurnTypes'
  BY <1>1, <1>5 DEF TurnInv, TurnTypes, Talking, Applying, Undoing
<1>7. TurnPhases' /\ TurnApplied' /\ tpc' # "idle"
  BY <1>1 DEF TurnPhases, TurnApplied, Talking, Applying, Undoing
<1> QED BY <1>1, <1>6, <1>7, GoesOn

\* An entry of the archive is written in place, or torn.
LEMMA Restored ==
  ASSUME TurnInv, tpc = "write", ~(at > Len(tplan)),
         NEW c \in {disk[Entry(at).path], "torn", Entry(at).op}
  PROVE  [disk EXCEPT ![Entry(at).path] = c] \in [Paths -> Present \cup {"absent"}]
<1>1. tplan \in Seq([path : Paths, op : Present]) /\ at \in Nat \ {0}
  BY DEF TurnInv, TurnTypes
<1>2. Len(tplan) \in Nat
  BY <1>1, LenProperties
<1>3. Entry(at) \in [path : Paths, op : Present]
  <2>1. \A i \in 1 .. Len(tplan) : tplan[i] \in [path : Paths, op : Present]
    BY <1>1, ElementOfSeq
  <2>2. at \in 1 .. Len(tplan)
    BY <1>1, <1>2
  <2> QED BY <2>1, <2>2 DEF Entry
<1>4. Entry(at).path \in Paths /\ Entry(at).op \in Present
  BY <1>3
<1>5. disk \in [Paths -> Present \cup {"absent"}]
  BY DEF TurnInv, TurnTypes
<1>6. c \in Present \cup {"absent"}
  BY <1>4, <1>5 DEF Present
<1> QED BY <1>5, <1>6

LEMMA RestoreWriteKeeps ==
  ASSUME TurnInv, RestoreWrite
  PROVE  TurnInv'
<1>1. /\ tpc = "write" /\ cause = "command" /\ at \in Nat \ {0} /\ tfaults \in Nat
      /\ tresult = "none" /\ UNCHANGED <<saves, before, tplan, cause>>
  BY DEF RestoreWrite, TurnInv, TurnTypes, TurnPhases
<1>2. /\ tfaults' \in Nat /\ at' \in Nat \ {0}
      /\ \/ tpc' = "write" /\ UNCHANGED tresult
         \/ tpc' = "idle" /\ tresult' \in {"restored", "error"}
  BY <1>1 DEF RestoreWrite, TermReturn, Goto, TermOk, TermFail
<1>3. disk' \in [Paths -> Present \cup {"absent"}]
  <2>1. CASE at > Len(tplan)
    BY <2>1 DEF RestoreWrite, TurnInv, TurnTypes
  <2>2. CASE ~(at > Len(tplan))
    <3>1. \E c \in {disk[Entry(at).path], "torn", Entry(at).op} :
            disk' = [disk EXCEPT ![Entry(at).path] = c]
      BY <2>2 DEF RestoreWrite
    <3> QED BY <2>2, <3>1, <1>1, Restored
  <2> QED BY <2>1, <2>2
<1>4. TurnTypes'
  BY <1>1, <1>2, <1>3 DEF TurnInv, TurnTypes, Talking, Applying, Undoing
<1>5. TurnPhases' /\ TurnApplied' /\ ErrorLeavesWorkspace'
  BY <1>1, <1>2 DEF TurnPhases, TurnApplied, ErrorLeavesWorkspace, Talking, Applying, Undoing
<1>6. RecoveryPointFirst'
  BY <1>1, <1>4, RecoverableNext
<1> QED BY <1>4, <1>5, <1>6 DEF TurnInv

LEMMA TermCrashKeeps ==
  ASSUME TurnInv, TermCrash
  PROVE  TurnInv'
<1>1. /\ tpc # "idle" /\ tpc' = "idle" /\ tresult' = "crashed"
      /\ UNCHANGED <<saves, before, tplan, at, cause, tfaults>>
  BY DEF TermCrash, TermReturn, Goto
<1>2. TurnPhases' /\ TurnApplied' /\ ErrorLeavesWorkspace'
  BY <1>1 DEF TurnPhases, TurnApplied, ErrorLeavesWorkspace, Talking, Applying, Undoing
<1>3. CASE UNCHANGED disk
  <2>1. TurnTypes'
    BY <1>1, <1>3 DEF TurnInv, TurnTypes, Talking, Applying, Undoing
  <2>2. RecoveryPointFirst'
    BY <1>1, <1>3 DEF TurnInv, RecoveryPointFirst
  <2> QED BY <1>2, <2>1, <2>2 DEF TurnInv
<1>4. CASE ~UNCHANGED disk
  <2>1. /\ tpc = "write" /\ ~(at > Len(tplan))
        /\ \E c \in {disk[Entry(at).path], "torn"} :
             disk' = [disk EXCEPT ![Entry(at).path] = c]
    <3>1. tpc = "write" /\ at <= Len(tplan)
      BY <1>4 DEF TermCrash
    <3>2. at \in Nat /\ Len(tplan) \in Nat
      BY <3>1, LenProperties DEF TurnInv, TurnTypes
    <3> QED BY <3>1, <3>2 DEF TermCrash
  <2>2. disk' \in [Paths -> Present \cup {"absent"}]
    BY <2>1, Restored
  <2>3. TurnTypes'
    BY <1>1, <2>2 DEF TurnInv, TurnTypes, Talking, Applying, Undoing
  <2>4. cause' = "command"
    BY <1>1, <2>1 DEF TurnInv, TurnPhases
  <2>5. RecoveryPointFirst'
    BY <2>3, <2>4, RecoverableNext
  <2> QED BY <1>2, <2>3, <2>5 DEF TurnInv
<1> QED BY <1>3, <1>4

LEMMA TurnInductive ==
  ASSUME TurnInv, project \in Projects, UNCHANGED project, TermNext \/ UNCHANGED termVars
  PROVE  TurnInv'
<1>1. CASE UNCHANGED termVars
  <2>1. TurnTypes'
    BY <1>1 DEF termVars, TurnInv, TurnTypes
  <2>2. Changed' = Changed /\ Snapped' = Snapped /\ ToRestore' = ToRestore
        /\ ToUndo' = ToUndo
    BY <1>1 DEF termVars, Changed, Snapped, Archive, PlanPaths, ToRestore, Order, Listed,
                ToUndo
  <2>3. TurnPhases'
    BY <1>1, <2>2 DEF termVars, TurnInv, TurnPhases
  <2>4. TurnApplied'
    BY <1>1, SameVerdict DEF termVars, TurnInv, TurnApplied
  <2>5. ErrorLeavesWorkspace' /\ RecoveryPointFirst'
    BY <1>1 DEF termVars, TurnInv, ErrorLeavesWorkspace, RecoveryPointFirst
  <2> QED BY <2>1, <2>3, <2>4, <2>5 DEF TurnInv
<1>2. CASE TermNext
  BY <1>2, StartKeeps, TalksKeep, EditAnswerKeeps, SnapshotKeeps, StageKeeps, CommitKeeps,
     UndoKeeps, RestoreKeeps, VerifyKeeps, RecordKeeps, SaveAnswerKeeps, TakeSnapshotKeeps,
     RestoreBeginKeeps, RestoreWriteKeeps, TermCrashKeeps DEF TermNext, TermStep
<1> QED BY <1>1, <1>2

-----------------------------------------------------------------------------
(* `aicli ask` and the Studio's chat.                                      *)
(*                                                                         *)
(* From the choice of a batch until its files are marked, the plan in      *)
(* memory is the one on disk and is the prompt's; a plan is saved over     *)
(* another only when that one is of another prompt; and what is recorded   *)
(* or marked is what a verified edit wrote, unless the budget is negative: *)
(* then no pass runs, nothing is written and PlanKept says nothing.        *)

Plans == [prompt : Prompts, files : Seq(Paths), deps : [Paths -> SUBSET Paths],
          done : SUBSET Paths]

Asking == {"load", "planning", "replanning"}
Working == {"gather", "compact", "send", "fix", "review", "execute", "repair", "record",
            "validate", "answer"}

PlanTypes ==
  /\ pc \in {"idle", "save", "batch"} \cup Asking \cup Working
  /\ planFile \in {NoPlan, Unreadable} \cup Plans
  /\ planFile \in Plans => planFile.done \subseteq FilesOf(planFile)
  /\ edit \in Edits \cup {NoEdit} /\ written \subseteq Paths
  /\ attempt \in 0 .. Budget \cup {0} /\ (pc = "repair" => attempt < Budget)
  /\ faults \in 0 .. MaxFaults
  /\ Budget < 0 => written = {} /\ pc # "execute"

\* The plan of the prompt, saved and in memory.
Following == planFile \in Plans /\ planFile.prompt = prompt /\ memory = planFile

PlanPhases ==
  /\ pc # "idle" => result = "none"
  /\ pc \in Asking \cup {"save", "batch", "compact", "validate"} => mode.via = "ask"
  /\ pc \in Asking => batch = {} /\ prompt \in Prompts
  /\ pc \in {"planning", "replanning"} => planFile.prompt # prompt
  /\ pc = "save" /\ batch = {} =>
       /\ memory \in Plans /\ memory.prompt = prompt /\ planFile.prompt # prompt
       /\ memory.done \subseteq FilesOf(memory)
  /\ pc = "save" /\ batch # {} =>
       /\ planFile \in Plans /\ planFile.prompt = prompt
       /\ memory = MarkBatchCompleted(planFile, edit.files)
       /\ edit.files = NextBatch(planFile)
  /\ pc = "batch" => Following
  /\ pc \in Working /\ batch # {} => Following /\ batch = NextBatch(planFile)
  /\ pc = "validate" => batch # {}
  /\ mode.via = "studio" /\ pc \in {"gather", "send"} => edit = NoEdit

\* The edit was committed, and what may be called applied.
Recording == pc \in {"record", "validate"} \/ (pc = "save" /\ batch # {})

PlanKept ==
  /\ Recording => Budget < 0 \/ edit.files \subseteq written
  /\ Recording \/ (pc = "answer" /\ mode.yes) \/ result = "applied"
       => Budget < 0 \/ Verified(edit.sound, edit.files)

PlanInv == PlanTypes /\ PlanPhases /\ PlanKept /\ CompletedWereWritten /\ DamageStops

LEMMA PlanInitially == AskInit => PlanInv
<1> SUFFICES ASSUME AskInit PROVE PlanInv
  OBVIOUS
<1>1. PlanTypes
  <2>1. planFile \in Plans => planFile.done \subseteq FilesOf(planFile)
    BY PlannerAssumption DEF AskInit, Plans, NoPlan, Unreadable
  <2> QED BY <2>1, PlannerAssumption DEF AskInit, PlanTypes, Asking, Working
<1>2. PlanPhases /\ PlanKept /\ DamageStops
  BY DEF AskInit, PlanPhases, PlanKept, Recording, DamageStops, Asking, Working
<1>3. CompletedWereWritten
  BY PlannerAssumption DEF AskInit, CompletedWereWritten, NoPlan, Unreadable
<1> QED BY <1>1, <1>2, <1>3 DEF PlanInv

\* A plan on disk that is of some prompt is a plan.
LEMMA PlanOfPrompt ==
  ASSUME PlanTypes, planFile.prompt \in Prompts
  PROVE  planFile \in Plans
BY PlannerAssumption DEF PlanTypes, NoPlan, Unreadable

\* A run that returns, whatever it had in hand.
LEMMA ReturnKeeps ==
  ASSUME PlanInv, NEW r \in {"error", "crashed", "chat"}, Return(r),
         UNCHANGED <<planFile, declared, written, run, batch, edit>>,
         attempt' \in {0, attempt}, faults' \in 0 .. MaxFaults
  PROVE  PlanInv'
<1>1. pc' = "idle" /\ result' = r
  BY DEF Return
<1>2. PlanTypes'
  BY <1>1, PlannerAssumption DEF PlanInv, PlanTypes, FilesOf, Asking, Working
<1>3. PlanPhases' /\ PlanKept' /\ DamageStops'
  BY <1>1 DEF PlanPhases, PlanKept, Recording, DamageStops, Asking, Working
<1>4. CompletedWereWritten'
  BY <1>1 DEF PlanInv, CompletedWereWritten
<1> QED BY <1>2, <1>3, <1>4 DEF PlanInv

\* A step of a run that leaves the files alone.
LEMMA StepKeeps ==
  ASSUME PlanInv, pc # "idle", UNCHANGED <<doc, run, result>>,
         PlanTypes', PlanPhases', PlanKept'
  PROVE  PlanInv'
<1>1. CompletedWereWritten'
  BY DEF doc, PlanInv, PlanPhases, CompletedWereWritten
<1>2. DamageStops'
  BY DEF doc, run, PlanInv, DamageStops
<1> QED BY <1>1, <1>2 DEF PlanInv

LEMMA BeginKeeps ==
  ASSUME PlanInv, Begin
  PROVE  PlanInv'
<1>1. /\ pc' \in {"load", "gather"} /\ result' = "none" /\ batch' = {} /\ edit' = NoEdit
      /\ attempt' = 0 /\ damaged' = FALSE /\ UNCHANGED <<planFile, declared, written, faults>>
      /\ (pc' = "load" => prompt' \in Prompts)
  BY DEF Begin, ShouldUsePlanner
<1>2. pc' = "load" => mode'.via = "ask"
  <2>1. CASE mode'.via = "ask"
    BY <2>1
  <2>2. CASE mode'.via # "ask"
    <3>1. prompt' \in Simple
      BY <2>2 DEF Begin
    <3> QED BY <3>1, PlannerAssumption, <1>1
  <2> QED BY <2>1, <2>2
<1>3. PlanTypes'
  BY <1>1, PlannerAssumption DEF PlanInv, PlanTypes, FilesOf, Asking, Working
<1>4. PlanPhases' /\ DamageStops' /\ PlanKept'
  BY <1>1, <1>2 DEF PlanPhases, PlanKept, Recording, DamageStops, Asking, Working
<1>5. CompletedWereWritten'
  BY <1>1 DEF PlanInv, CompletedWereWritten
<1> QED BY <1>3, <1>4, <1>5 DEF PlanInv

LEMMA LoadKeeps ==
  ASSUME PlanInv, LoadProjectPlan
  PROVE  PlanInv'
<1>1. /\ pc = "load" /\ UNCHANGED <<doc, run, batch, edit, attempt, faults>>
      /\ batch = {} /\ prompt \in Prompts /\ mode.via = "ask" /\ result = "none"
  BY DEF LoadProjectPlan, PlanInv, PlanPhases, Asking
<1>2. CASE Return("error")
  BY <1>1, <1>2, ReturnKeeps DEF doc, PlanInv, PlanTypes
<1>3. CASE Step("batch") /\ memory' = planFile /\ planFile.prompt = prompt
  <2>1. planFile \in Plans
    BY <1>1, <1>3, PlanOfPrompt DEF PlanInv
  <2>2. PlanTypes'
    BY <1>1, <1>3 DEF PlanInv, PlanTypes, FilesOf, doc, Step, Asking, Working
  <2>3. PlanPhases' /\ PlanKept'
    BY <1>1, <1>3, <2>1
       DEF PlanPhases, PlanKept, Recording, Following, doc, run, Step, Asking, Working
  <2> QED BY <1>1, <1>3, <2>2, <2>3, StepKeeps DEF Step
<1>4. CASE Step("planning") /\ planFile.prompt # prompt
  <2>1. PlanTypes'
    BY <1>1, <1>4 DEF PlanInv, PlanTypes, FilesOf, doc, Step, Asking, Working
  <2>2. PlanPhases' /\ PlanKept'
    BY <1>1, <1>4 DEF PlanPhases, PlanKept, Recording, doc, run, Step, Asking, Working
  <2> QED BY <1>1, <1>4, <2>1, <2>2, StepKeeps DEF Step
<1> QED BY <1>2, <1>3, <1>4 DEF LoadProjectPlan, Resumes

\* What the planner returns is a plan of the prompt.
LEMMA NewPlanTyped ==
  ASSUME prompt \in Prompts, NEW m \in Manifests
  PROVE  /\ NewProjectPlan(prompt, m) \in Plans
         /\ NewProjectPlan(prompt, m).prompt = prompt
         /\ NewProjectPlan(prompt, m).done \subseteq FilesOf(NewProjectPlan(prompt, m))
<1>1. m.files \in Seq(Paths) /\ m.deps \in [Paths -> SUBSET Paths] /\ m.done \subseteq Paths
  BY PlannerAssumption
<1> QED BY <1>1 DEF NewProjectPlan, Plans, FilesOf

LEMMA PlanningKeeps ==
  ASSUME PlanInv, Planning
  PROVE  PlanInv'
<1>1. /\ pc \in {"planning", "replanning"}
      /\ UNCHANGED <<doc, run, batch, edit, attempt, faults>>
      /\ batch = {} /\ prompt \in Prompts /\ mode.via = "ask" /\ result = "none"
      /\ planFile.prompt # prompt
  BY DEF Planning, PlanInv, PlanPhases, Asking
<1>2. CASE Return("error")
  BY <1>1, <1>2, ReturnKeeps DEF doc, PlanInv, PlanTypes
<1>3. ASSUME NEW m \in Manifests, memory' = NewProjectPlan(prompt, m), Step("save")
      PROVE  PlanInv'
  <2>1. PlanTypes'
    BY <1>1, <1>3 DEF PlanInv, PlanTypes, FilesOf, doc, Step, Asking, Working
  <2>2. memory' \in Plans /\ memory'.prompt = prompt /\ (memory.done \subseteq FilesOf(memory))'
    BY <1>1, <1>3, NewPlanTyped DEF FilesOf
  <2>3. PlanPhases' /\ PlanKept'
    BY <1>1, <1>3, <2>2 DEF PlanPhases, PlanKept, Recording, doc, run, Step, Asking, Working
  <2> QED BY <1>1, <1>3, <2>1, <2>3, StepKeeps DEF Step
<1>4. CASE Step("replanning")
  <2>1. PlanTypes'
    BY <1>1, <1>4 DEF PlanInv, PlanTypes, FilesOf, doc, Step, Asking, Working
  <2>2. PlanPhases' /\ PlanKept'
    BY <1>1, <1>4 DEF PlanPhases, PlanKept, Recording, doc, run, Step, Asking, Working
  <2> QED BY <1>1, <1>4, <2>1, <2>2, StepKeeps DEF Step
<1> QED BY <1>2, <1>3, <1>4 DEF Planning

\* Marking keeps the plan and adds the paths that are its files.
LEMMA MarkedTyped ==
  ASSUME NEW pl \in Plans, pl.done \subseteq FilesOf(pl), NEW paths
  PROVE  LET marked == MarkBatchCompleted(pl, paths)
         IN  /\ marked \in Plans /\ marked.prompt = pl.prompt /\ marked.deps = pl.deps
             /\ FilesOf(marked) = FilesOf(pl)
             /\ marked.done = pl.done \cup (paths \cap FilesOf(pl))
             /\ marked.done \subseteq FilesOf(marked)
<1> DEFINE marked == MarkBatchCompleted(pl, paths)
<1>1. /\ pl.prompt \in Prompts /\ pl.files \in Seq(Paths)
      /\ pl.deps \in [Paths -> SUBSET Paths] /\ pl.done \subseteq Paths
  BY DEF Plans
<1>2. /\ marked.prompt = pl.prompt /\ marked.files = pl.files /\ marked.deps = pl.deps
      /\ marked.done = pl.done \cup (paths \cap FilesOf(pl))
  BY DEF MarkBatchCompleted, Plans
<1>3. FilesOf(pl) \subseteq Paths
  <2>1. \A i \in 1 .. Len(pl.files) : pl.files[i] \in Paths
    BY <1>1, ElementOfSeq
  <2>2. DOMAIN pl.files = 1 .. Len(pl.files)
    BY <1>1, LenProperties
  <2> QED BY <2>1, <2>2 DEF FilesOf
<1>4. FilesOf(marked) = FilesOf(pl)
  BY <1>2 DEF FilesOf
<1>5. pl.done \cup (paths \cap FilesOf(pl)) \subseteq Paths
  BY <1>1, <1>3
<1>6. marked \in Plans
  BY <1>5 DEF Plans, MarkBatchCompleted
<1> HIDE DEF marked
<1>7. marked.done \subseteq FilesOf(marked)
  BY <1>2, <1>4
<1> QED BY <1>2, <1>4, <1>6, <1>7 DEF marked

LEMMA SaveKeeps ==
  ASSUME PlanInv, SaveProjectPlan
  PROVE  PlanInv'
<1>1. /\ pc = "save" /\ mode.via = "ask" /\ result = "none"
      /\ UNCHANGED <<run, memory, batch, edit, attempt, damaged>>
  BY DEF SaveProjectPlan, PlanInv, PlanPhases
<1>2. CASE Fault /\ Return("error") /\ UNCHANGED <<planFile, declared, written>>
  <2>1. faults' \in 0 .. MaxFaults
    BY <1>2, PlannerAssumption DEF Fault, PlanInv, PlanTypes
  <2> QED BY <1>1, <1>2, <2>1, ReturnKeeps
<1>3. CASE /\ NoFault /\ Step("batch") /\ planFile' = memory
           /\ IF batch = {} THEN declared' = memory.done /\ written' = {}
                            ELSE UNCHANGED <<declared, written>>
  <2>1. /\ memory \in Plans /\ memory.prompt = prompt /\ memory.done \subseteq FilesOf(memory)
        /\ (0 <= Budget => memory.done \ declared' \subseteq written')
    <3>1. CASE batch = {}
      BY <1>1, <1>3, <3>1 DEF PlanInv, PlanPhases
    <3>2. CASE batch # {}
      <4>1. /\ planFile \in Plans /\ planFile.prompt = prompt
            /\ memory = MarkBatchCompleted(planFile, edit.files)
            /\ (0 <= Budget => edit.files \subseteq written)
        BY <1>1, <3>2, PlannerAssumption DEF PlanInv, PlanPhases, PlanKept, Recording
      <4>2. planFile.done \subseteq FilesOf(planFile) /\ planFile.prompt \in Prompts
        BY <4>1 DEF PlanInv, PlanTypes, Plans
      <4>3. 0 <= Budget => planFile.done \ declared \subseteq written
        BY <4>2 DEF PlanInv, CompletedWereWritten
      <4> QED BY <1>3, <3>2, <4>1, <4>2, <4>3, MarkedTyped
    <3> QED BY <3>1, <3>2
  <2>2. PlanTypes'
    <3>1. (planFile.done \subseteq FilesOf(planFile))'
      BY <1>3, <2>1 DEF FilesOf
    <3>2. written' \subseteq Paths
      BY <1>3 DEF PlanInv, PlanTypes
    <3> QED BY <1>1, <1>3, <2>1, <3>1, <3>2
            DEF PlanInv, PlanTypes, Step, NoFault, Asking, Working
  <2>3. PlanPhases' /\ PlanKept'
    BY <1>1, <1>3, <2>1 DEF PlanPhases, PlanKept, Recording, Following, run, Step, Asking, Working
  <2>4. CompletedWereWritten'
    BY <1>1, <1>3, <2>1 DEF CompletedWereWritten, Step
  <2>5. DamageStops'
    BY <1>1, <1>3 DEF DamageStops, run
  <2> QED BY <2>2, <2>3, <2>4, <2>5 DEF PlanInv
<1> QED BY <1>2, <1>3 DEF SaveProjectPlan

\* Nothing is chosen only when nothing is pending.
LEMMA NothingPending ==
  ASSUME NEW pl \in Plans, pl.done \subseteq FilesOf(pl), NextBatch(pl) = {}
  PROVE  pl.done = FilesOf(pl)
<1>1. pl.files \in Seq(Paths) /\ Len(pl.files) \in Nat /\ DOMAIN pl.files = 1 .. Len(pl.files)
  BY LenProperties DEF Plans
<1>2. ReadyFiles(pl) \subseteq PendingFiles(pl) /\ PendingFiles(pl) \subseteq 1 .. Len(pl.files)
  BY <1>1 DEF ReadyFiles, PendingFiles
<1>3. ASSUME NEW I, I \subseteq 1 .. Len(pl.files), FilesAt(pl, FirstTwo(I)) = {}
      PROVE  I = {}
  <2> SUFFICES ASSUME I # {} PROVE FALSE
    OBVIOUS
  <2>1. PICK k \in I : \A m \in I : k <= m
    BY <1>1, <1>3, LeastPosition
  <2>2. \A i \in I : ~(i < k)
    BY <1>1, <1>3, <2>1
  <2>3. k \in FirstTwo(I)
    BY <2>2 DEF FirstTwo
  <2> QED BY <1>3, <2>3 DEF FilesAt
<1>4. PendingFiles(pl) = {}
  <2>1. CASE ReadyFiles(pl) = {}
    BY <1>2, <1>3, <2>1 DEF NextBatch
  <2>2. CASE ReadyFiles(pl) # {}
    BY <1>2, <1>3, <2>2 DEF NextBatch
  <2> QED BY <2>1, <2>2
<1> QED BY <1>4 DEF PendingFiles, FilesOf

LEMMA ChooseKeeps ==
  ASSUME PlanInv, ChooseBatch
  PROVE  PlanInv'
<1>1. /\ pc = "batch" /\ Following /\ mode.via = "ask" /\ result = "none"
      /\ UNCHANGED <<doc, run, memory, edit, faults>>
      /\ batch' = NextBatch(planFile) /\ attempt' = 0
      /\ planFile.done \subseteq FilesOf(planFile)
  BY DEF ChooseBatch, PlanInv, PlanTypes, PlanPhases, Following
<1>2. CASE batch' = {} /\ Return("complete")
  <2>1. PlanTypes'
    BY <1>1, <1>2, PlannerAssumption
       DEF PlanInv, PlanTypes, FilesOf, doc, Return, Asking, Working
  <2>2. PlanPhases' /\ PlanKept' /\ DamageStops'
    BY <1>2 DEF PlanPhases, PlanKept, Recording, DamageStops, Return, Asking, Working
  <2>3. planFile.done = FilesOf(planFile)
    BY <1>1, <1>2, NothingPending DEF Following
  <2>4. CompletedWereWritten'
    BY <1>1, <2>3 DEF PlanInv, CompletedWereWritten, doc, FilesOf
  <2> QED BY <2>1, <2>2, <2>4 DEF PlanInv
<1>3. CASE batch' # {} /\ Step("gather")
  <2>1. PlanTypes'
    BY <1>1, <1>3, PlannerAssumption
       DEF PlanInv, PlanTypes, FilesOf, doc, Step, Asking, Working
  <2>2. Following' /\ NextBatch(planFile)' = NextBatch(planFile)
    BY <1>1
       DEF Following, doc, run, NextBatch, FilesAt, FirstTwo, ReadyFiles, PendingFiles, Ready
  <2>3. PlanPhases' /\ PlanKept'
    BY <1>1, <1>3, <2>2 DEF PlanPhases, PlanKept, Recording, run, Step, Asking, Working
  <2> QED BY <1>1, <1>3, <2>1, <2>3, StepKeeps DEF Step
<1> QED BY <1>2, <1>3 DEF ChooseBatch

-----------------------------------------------------------------------------
(* One batch, or one prompt without a plan: from the context to the edit.  *)

\* What a working run goes on with.
LEMMA SameFollowing ==
  ASSUME UNCHANGED <<doc, run, memory>>
  PROVE  Following' = Following /\ NextBatch(planFile)' = NextBatch(planFile)
BY DEF Following, doc, run, NextBatch, FilesAt, FirstTwo, ReadyFiles, PendingFiles, Ready,
       Plans

\* From one step of a batch to the next, the edit perhaps new.
LEMMA WorkKeeps ==
  ASSUME PlanInv, pc \in Working \ {"record"},
         pc' \in Working \ {"validate"}, UNCHANGED result,
         pc' = "record" => Budget < 0, pc' = "execute" => 0 <= Budget,
         UNCHANGED <<doc, run, memory, batch, faults>>,
         edit' \in Edits \cup {NoEdit}, attempt' \in 0 .. Budget \cup {0},
         pc' = "repair" => attempt' < Budget,
         pc' = "compact" => mode.via = "ask",
         pc' = "answer" /\ mode.yes => Verified(edit.sound, edit.files)',
         mode.via = "studio" /\ pc' \in {"gather", "send"} => edit' = NoEdit
  PROVE  PlanInv'
<1>1. Following' = Following /\ NextBatch(planFile)' = NextBatch(planFile)
  BY SameFollowing
<1>2. /\ result = "none" /\ (batch # {} => Following /\ batch = NextBatch(planFile))
      /\ pc # "idle"
  BY DEF PlanInv, PlanPhases, Working
<1>3. PlanTypes'
  BY PlannerAssumption DEF PlanInv, PlanTypes, FilesOf, doc, Asking, Working
<1>4. PlanPhases' /\ PlanKept'
  BY <1>1, <1>2 DEF PlanPhases, PlanKept, Recording, run, Asking, Working
<1> QED BY <1>2, <1>3, <1>4, StepKeeps

\* A failed step of a batch.
LEMMA FailKeeps ==
  ASSUME PlanInv, Return("error"), UNCHANGED <<doc, run, memory, batch, edit, attempt, faults>>
  PROVE  PlanInv'
BY ReturnKeeps DEF doc, PlanInv, PlanTypes

LEMMA GatherKeeps ==
  ASSUME PlanInv, AskGather \/ StudioGather \/ CompactHistory
  PROVE  PlanInv'
<1>1. /\ pc \in {"gather", "compact"}
      /\ UNCHANGED <<doc, run, memory, batch, edit, attempt, faults>>
      /\ Return("error") \/ Step("send") \/ (Step("compact") /\ mode.via = "ask")
      /\ (mode.via = "studio" => pc = "gather")
  BY DEF AskGather, StudioGather, CompactHistory, PlanInv, PlanPhases
<1>2. CASE Return("error")
  BY <1>1, <1>2, FailKeeps
<1>3. CASE ~Return("error")
  <2>1. pc' \in {"send", "compact"} /\ UNCHANGED result
    BY <1>1, <1>3 DEF Step
  <2>2. mode.via = "studio" /\ pc' = "send" => edit' = NoEdit
    BY <1>1 DEF PlanInv, PlanPhases, run
  <2>3. edit' \in Edits \cup {NoEdit} /\ attempt' \in 0 .. Budget \cup {0}
    BY <1>1 DEF PlanInv, PlanTypes
  <2>4. pc' = "compact" => mode.via = "ask"
    BY <1>1, <1>3 DEF Step
  <2> QED BY <1>1, <2>1, <2>2, <2>3, <2>4, WorkKeeps DEF Working
<1> QED BY <1>2, <1>3

LEMMA RepliesKeep ==
  ASSUME PlanInv, UNCHANGED project, AskReply \/ StudioReply
  PROVE  PlanInv'
<1>1. /\ pc \in {"send", "fix"} /\ UNCHANGED <<doc, run, memory, batch, faults>>
      /\ attempt' \in {0, attempt} /\ (AskReply => mode.via = "ask")
  BY DEF AskReply, StudioReply
<1> attempt' \in 0 .. Budget \cup {0}
  <2>1. attempt \in 0 .. Budget \cup {0}
    BY DEF PlanInv, PlanTypes
  <2> QED BY <1>1, <2>1, PlannerAssumption
<1>2. CASE Return("error") /\ UNCHANGED edit
  BY <1>1, <1>2, ReturnKeeps DEF doc, PlanInv, PlanTypes
<1>3. CASE edit' \in Parsed /\ pc' \in {"review", "answer", FirstPass} /\ UNCHANGED result
           /\ (pc' = "answer" => ~mode.yes)
  <2>1. pc' \in Working \ {"validate", "gather", "send", "repair", "compact"}
        /\ (pc' = "record" => Budget < 0) /\ (pc' = "execute" => 0 <= Budget)
    BY <1>3, PlannerAssumption DEF FirstPass, Working
  <2>2. pc' = "answer" => ~mode.yes
    BY <1>3
  <2> QED BY <1>1, <1>3, <2>1, <2>2, WorkKeeps DEF Parsed, Working
<1>4. CASE AskReply /\ Step("fix") /\ UNCHANGED edit
  <2>1. pc' = "fix" /\ UNCHANGED result /\ edit' \in Edits \cup {NoEdit}
    BY <1>4 DEF Step, PlanInv, PlanTypes
  <2> QED BY <1>1, <2>1, WorkKeeps DEF Working
<1>5. CASE StudioReply /\ Step("answer") /\ UNCHANGED edit
  <2>1. edit = NoEdit
    BY <1>5 DEF StudioReply, PlanInv, PlanPhases
  <2>2. Verified(edit.sound, edit.files)'
    BY <1>5, <2>1 DEF Verified, NoEdit
  <2>3. pc' = "answer" /\ UNCHANGED result /\ edit' \in Edits \cup {NoEdit}
    BY <1>5, <2>1 DEF Step
  <2> QED BY <1>1, <2>2, <2>3, WorkKeeps DEF Working
<1>6. CASE AskReply
  BY <1>2, <1>3, <1>4, <1>6 DEF AskReply, Step
<1>7. CASE StudioReply
  <2>1. CASE edit' \in Parsed /\ Step(IF mode.yes THEN FirstPass ELSE "answer")
    <3>1. mode.yes => pc' = FirstPass
      BY <2>1 DEF Step
    <3>2. ~mode.yes => pc' = "answer"
      BY <2>1 DEF Step
    <3>3. pc' = "answer" => ~mode.yes
      BY <3>1 DEF FirstPass
    <3> QED BY <1>3, <2>1, <3>1, <3>2, <3>3 DEF Step
  <2> QED BY <1>2, <1>5, <1>7, <2>1 DEF StudioReply
<1> QED BY <1>6, <1>7

LEMMA ReviewKeeps ==
  ASSUME PlanInv, Review
  PROVE  PlanInv'
<1>1. pc = "review" /\ UNCHANGED <<doc, run, memory, batch, edit, attempt, faults>>
  BY DEF Review
<1>2. CASE Return("error")
  BY <1>1, <1>2, FailKeeps
<1>3. CASE Step(FirstPass)
  <2>1. edit' \in Edits \cup {NoEdit} /\ attempt' \in 0 .. Budget \cup {0}
    BY <1>1 DEF PlanInv, PlanTypes
  <2>2. /\ pc' \in {"execute", "record"} /\ UNCHANGED result
        /\ (pc' = "record" => Budget < 0) /\ (pc' = "execute" => 0 <= Budget)
    BY <1>3, PlannerAssumption DEF Step, FirstPass
  <2> QED BY <1>1, <2>1, <2>2, WorkKeeps DEF Working
<1> QED BY <1>2, <1>3 DEF Review

\* A pass that Detect accepted.
LEMMA PassedIsVerified ==
  ASSUME project \in Projects, "passed" \in Outcomes(edit)
  PROVE  Verified(edit.sound, edit.files)
<1>1. "passed" \in Detect(edit.files, {}, edit.sound)
  BY DEF Outcomes
<1> QED BY <1>1, DetectIsHonest

LEMMA ExecuteKeeps ==
  ASSUME PlanInv, project \in Projects, UNCHANGED project, Execute
  PROVE  PlanInv'
<1>1. /\ pc = "execute" /\ result = "none"
      /\ UNCHANGED <<planFile, declared, run, memory, batch, edit, attempt>>
      /\ edit \in Edits \cup {NoEdit} /\ edit.files \subseteq Paths
      /\ (batch # {} => Following /\ batch = NextBatch(planFile))
  <2>1. edit \in Edits \cup {NoEdit}
    BY DEF PlanInv, PlanTypes
  <2>2. edit.files \subseteq Paths
    BY <2>1, PlannerAssumption DEF NoEdit
  <2> QED BY <2>1, <2>2 DEF Execute, PlanInv, PlanPhases, Working
<1>2. Following' = Following /\ NextBatch(planFile)' = NextBatch(planFile)
  BY <1>1 DEF Following, run, NextBatch, FilesAt, FirstTwo, ReadyFiles, PendingFiles, Ready,
              Plans
<1>3. CASE Committed
  <2>1. /\ pc' = "record" /\ UNCHANGED <<result, faults, damaged>>
        /\ written' = written \cup edit.files
    BY <1>3 DEF Committed, Step, NoFault
  <2>2. Verified(edit.sound, edit.files)'
    BY <1>1, <1>3, PassedIsVerified, SameEditVerdict DEF Committed
  <2>3. PlanTypes'
    BY <1>1, <2>1 DEF PlanInv, PlanTypes, FilesOf, Asking, Working
  <2>4. PlanPhases' /\ PlanKept'
    BY <1>1, <1>2, <2>1, <2>2 DEF PlanPhases, PlanKept, Recording, run, Asking, Working
  <2>5. CompletedWereWritten' /\ DamageStops'
    BY <1>1, <2>1 DEF PlanInv, CompletedWereWritten, DamageStops, run
  <2> QED BY <2>3, <2>4, <2>5 DEF PlanInv
<1>4. ASSUME NEW o, Failed(o), UNCHANGED written, faults' \in 0 .. MaxFaults,
             damaged' = damaged \/ (damaged' = TRUE /\ o = "damaged")
      PROVE  PlanInv'
  <2>1. CASE Return("error")
    BY <1>1, <1>4, <2>1, ReturnKeeps
  <2>2. CASE attempt < Budget /\ MayRepair(o) /\ Step("repair")
    <3>1. pc' = "repair" /\ UNCHANGED result
      BY <2>2 DEF Step
    <3>2. PlanTypes'
      BY <1>1, <1>4, <2>2, <3>1 DEF PlanInv, PlanTypes, FilesOf, Asking, Working
    <3>3. PlanPhases' /\ PlanKept'
      BY <1>1, <1>2, <3>1 DEF PlanPhases, PlanKept, Recording, run, Asking, Working
    <3>4. CompletedWereWritten'
      BY <1>1, <1>4, <3>1 DEF PlanInv, CompletedWereWritten
    <3>5. DamageStops'
      <4>1. ~(mode.via = "studio" /\ damaged)
        BY <1>1 DEF PlanInv, DamageStops
      <4>2. o = "damaged" => mode.via = "ask"
        BY <2>2 DEF MayRepair
      <4> QED BY <1>1, <1>4, <4>1, <4>2 DEF DamageStops, run
    <3> QED BY <3>2, <3>3, <3>4, <3>5 DEF PlanInv
  <2> QED BY <1>4, <2>1, <2>2 DEF Failed
<1>5. faults' \in 0 .. MaxFaults
  BY PlannerAssumption
     DEF Execute, Committed, RolledBack, LeftBetween, NoFault, Fault, PlanInv, PlanTypes
<1>6. CASE RolledBack
  <2>1. \E o : Failed(o)
    BY <1>6 DEF RolledBack
  <2> QED BY <1>4, <1>5, <1>6, <2>1 DEF RolledBack
<1>7. CASE LeftBetween
  BY <1>4, <1>5, <1>7 DEF LeftBetween
<1> QED BY <1>3, <1>6, <1>7 DEF Execute

LEMMA RepairKeeps ==
  ASSUME PlanInv, Repair
  PROVE  PlanInv'
<1>1. pc = "repair" /\ UNCHANGED <<doc, run, memory, batch, faults>>
      /\ attempt \in 0 .. Budget \cup {0} /\ attempt < Budget
  BY DEF Repair, PlanInv, PlanTypes
<1>2. CASE Return("error") /\ UNCHANGED <<edit, attempt>>
  BY <1>1, <1>2, FailKeeps
<1>3. CASE edit' \in Parsed /\ attempt' = attempt + 1 /\ Step("execute")
  <2>1. attempt' \in 0 .. Budget \cup {0}
    BY <1>1, <1>3, PlannerAssumption
  <2>2. 0 <= Budget
    BY <1>1, PlannerAssumption
  <2>3. pc' = "execute" /\ UNCHANGED result
    BY <1>3 DEF Step
  <2> QED BY <1>1, <1>3, <2>1, <2>2, <2>3, WorkKeeps DEF Parsed, Working
<1> QED BY <1>2, <1>3 DEF Repair

LEMMA RecordsKeep ==
  ASSUME PlanInv, UNCHANGED project, AskRecord \/ StudioRecord
  PROVE  PlanInv'
<1>1. /\ pc = "record" /\ UNCHANGED <<doc, run, memory, batch, edit, attempt>>
      /\ result = "none" /\ (batch # {} => Following /\ batch = NextBatch(planFile))
      /\ (Budget < 0 \/ edit.files \subseteq written)
      /\ (Budget < 0 \/ Verified(edit.sound, edit.files))
  BY DEF AskRecord, StudioRecord, PlanInv, PlanPhases, PlanKept, Recording, Working
<1>2. faults' \in 0 .. MaxFaults
  BY PlannerAssumption DEF AskRecord, StudioRecord, NoFault, Fault, PlanInv, PlanTypes
<1>3. Following' = Following /\ NextBatch(planFile)' = NextBatch(planFile)
  BY <1>1, SameFollowing
<1>4. Budget < 0 \/ Verified(edit.sound, edit.files)'
  BY <1>1, SameEditVerdict
<1>5. CASE Return("error")
  BY <1>1, <1>2, <1>5, ReturnKeeps DEF doc
<1>6. CASE Return("applied")
  <2>1. PlanTypes'
    BY <1>1, <1>2, <1>6 DEF PlanInv, PlanTypes, FilesOf, doc, Return, Asking, Working
  <2>2. PlanPhases' /\ PlanKept'
    BY <1>4, <1>6 DEF PlanPhases, PlanKept, Recording, Return, Asking, Working
  <2>3. CompletedWereWritten' /\ DamageStops'
    BY <1>1, <1>6 DEF PlanInv, CompletedWereWritten, DamageStops, doc, Return
  <2> QED BY <2>1, <2>2, <2>3 DEF PlanInv
<1>7. CASE /\ pc' \in {"validate", "answer"} /\ UNCHANGED result
           /\ (pc' = "validate" => batch # {} /\ mode.via = "ask")
  <2>1. PlanTypes'
    BY <1>1, <1>2, <1>7 DEF PlanInv, PlanTypes, FilesOf, doc, Asking, Working
  <2>2. PlanPhases' /\ PlanKept'
    BY <1>1, <1>3, <1>4, <1>7 DEF PlanPhases, PlanKept, Recording, doc, run, Asking, Working
  <2> QED BY <1>1, <1>7, <2>1, <2>2, StepKeeps
<1>8. CASE AskRecord
  BY <1>5, <1>6, <1>7, <1>8 DEF AskRecord, Step
<1>9. CASE StudioRecord
  BY <1>5, <1>7, <1>9 DEF StudioRecord, Step
<1> QED BY <1>8, <1>9

LEMMA ValidateKeeps ==
  ASSUME PlanInv, UNCHANGED project, Validate
  PROVE  PlanInv'
<1>1. /\ pc = "validate" /\ UNCHANGED <<doc, run, batch, edit, attempt, faults>>
      /\ result = "none" /\ mode.via = "ask" /\ batch # {}
      /\ Following /\ batch = NextBatch(planFile)
      /\ (Budget < 0 \/ edit.files \subseteq written)
      /\ (Budget < 0 \/ Verified(edit.sound, edit.files))
  BY DEF Validate, PlanInv, PlanPhases, PlanKept, Recording, Working
<1>2. CASE Return("error")
  BY <1>1, <1>2, ReturnKeeps DEF doc, PlanInv, PlanTypes
<1>3. CASE /\ ValidateBatch(edit, batch) /\ Step("save")
           /\ memory' = MarkBatchCompleted(memory, edit.files)
  <2>1. edit.files = NextBatch(planFile) /\ NextBatch(planFile)' = NextBatch(planFile)
    BY <1>1, <1>3
       DEF ValidateBatch, doc, NextBatch, FilesAt, FirstTwo, ReadyFiles, PendingFiles, Ready
  <2>2. memory' = MarkBatchCompleted(planFile, edit.files)'
    BY <1>1, <1>3 DEF Following, doc, MarkBatchCompleted, FilesOf
  <2>3. Budget < 0 \/ Verified(edit.sound, edit.files)'
    BY <1>1, SameEditVerdict
  <2>4. PlanTypes'
    BY <1>1, <1>3 DEF PlanInv, PlanTypes, FilesOf, doc, Step, Asking, Working
  <2>5. planFile' \in Plans /\ planFile'.prompt = prompt'
    BY <1>1 DEF Following, doc, run
  <2>6. PlanPhases' /\ PlanKept'
    BY <1>1, <1>3, <2>1, <2>2, <2>3, <2>5
       DEF PlanPhases, PlanKept, Recording, doc, run, Step, Asking, Working
  <2> QED BY <1>1, <1>3, <2>4, <2>6, StepKeeps DEF Step
<1> QED BY <1>2, <1>3 DEF Validate

LEMMA AnswerKeeps ==
  ASSUME PlanInv, UNCHANGED project, Answer
  PROVE  PlanInv'
<1>1. /\ pc = "answer" /\ UNCHANGED <<doc, run, memory, batch, edit, attempt>>
      /\ (mode.yes => Budget < 0 \/ Verified(edit.sound, edit.files))
  BY DEF Answer, PlanInv, PlanKept, Recording
<1>2. faults' \in 0 .. MaxFaults
  BY PlannerAssumption DEF Answer, NoFault, Fault, PlanInv, PlanTypes
<1>3. CASE Return("error") \/ Return("chat")
  BY <1>1, <1>2, <1>3, ReturnKeeps DEF doc
<1>4. CASE Return("applied") /\ mode.yes
  <2>1. Budget < 0 \/ Verified(edit.sound, edit.files)'
    BY <1>1, <1>4, SameEditVerdict
  <2>2. PlanTypes'
    BY <1>1, <1>2, <1>4 DEF PlanInv, PlanTypes, FilesOf, doc, Return, Asking, Working
  <2>3. PlanPhases' /\ PlanKept'
    BY <1>4, <2>1 DEF PlanPhases, PlanKept, Recording, Return, Asking, Working
  <2>4. CompletedWereWritten' /\ DamageStops'
    BY <1>1, <1>4 DEF PlanInv, CompletedWereWritten, DamageStops, doc, Return
  <2> QED BY <2>2, <2>3, <2>4 DEF PlanInv
<1> QED BY <1>3, <1>4 DEF Answer

LEMMA CrashKeeps ==
  ASSUME PlanInv, Crash
  PROVE  PlanInv'
BY ReturnKeeps DEF Crash, doc, PlanInv, PlanTypes

LEMMA PlanInductive ==
  ASSUME PlanInv, project \in Projects, UNCHANGED project, AskNext \/ UNCHANGED askVars
  PROVE  PlanInv'
<1>1. CASE UNCHANGED askVars
  <2>1. PlanTypes'
    BY <1>1 DEF askVars, PlanInv, PlanTypes, FilesOf
  <2>2. Following' = Following /\ NextBatch(planFile)' = NextBatch(planFile)
    BY <1>1, SameFollowing DEF askVars, doc, run
  <2>3. (memory.done \subseteq FilesOf(memory))' = (memory.done \subseteq FilesOf(memory))
        /\ MarkBatchCompleted(planFile, edit.files)' = MarkBatchCompleted(planFile, edit.files)
    BY <1>1 DEF askVars, FilesOf, MarkBatchCompleted
  <2>4. PlanPhases'
    BY <1>1, <2>2, <2>3 DEF askVars, PlanInv, PlanPhases
  <2>5. Verified(edit.sound, edit.files)' = Verified(edit.sound, edit.files)
    BY <1>1, SameEditVerdict DEF askVars
  <2>6. PlanKept'
    BY <1>1, <2>5 DEF askVars, PlanInv, PlanKept, Recording
  <2>7. CompletedWereWritten' /\ DamageStops'
    BY <1>1 DEF askVars, PlanInv, CompletedWereWritten, DamageStops, FilesOf
  <2> QED BY <2>1, <2>4, <2>6, <2>7 DEF PlanInv
<1>2. CASE AskNext
  BY <1>2, BeginKeeps, LoadKeeps, PlanningKeeps, SaveKeeps, ChooseKeeps, GatherKeeps,
     RepliesKeep, ReviewKeeps, ExecuteKeeps, RepairKeeps, RecordsKeep, ValidateKeeps,
     AnswerKeeps, CrashKeeps DEF AskNext, AskStep
<1> QED BY <1>1, <1>2

-----------------------------------------------------------------------------
(* The theorems.                                                           *)

Bounds == tfaults \in 0 .. MaxTermFaults /\ turns \in 0 .. MaxTurns

IInv == /\ surface \in {"ask", "terminal"} /\ project \in Projects
        /\ Bounds /\ TurnInv /\ PlanInv

LEMMA Initially == Init => IInv
BY TurnInitially, PlanInitially, TermPlanAssumption DEF Init, TermInit, IInv, Bounds

LEMMA BoundsKept ==
  ASSUME Bounds, TermNext \/ UNCHANGED termVars
  PROVE  Bounds'
<1>1. /\ tfaults' = tfaults \/ (tfaults < MaxTermFaults /\ tfaults' = tfaults + 1)
      /\ turns' = turns \/ (turns < MaxTurns /\ turns' = turns + 1)
  <2>1. CASE UNCHANGED termVars
    BY <2>1 DEF termVars
  <2>2. CASE TermStep
    BY <2>2 DEF TermStep, TermOk, TermFail, convVars, TermUnprepared, StreamBroken, ResendFails,
       EmptyAnswer, ChatAnswer, Unparsed, EditAnswer, CreatePlanSnapshot, StageEntry,
       CommitEntry, UndoEntry, RestoreEntry, VerifyEdit, RecordEdit, SaveAnswer, RestoreWrite
  <2>3. CASE TermStart \/ TakeSnapshot \/ RestoreBegin \/ TermCrash
    BY <2>3 DEF TermStart, TakeSnapshot, RestoreBegin, TermCrash
  <2> QED BY <2>1, <2>2, <2>3 DEF TermNext
<1> QED BY <1>1, TermPlanAssumption DEF Bounds

LEMMA Inductive == IInv /\ [Next]_vars => IInv'
<1> SUFFICES ASSUME IInv, [Next]_vars PROVE IInv'
  OBVIOUS
<1>1. UNCHANGED <<surface, project>>
  BY DEF Next, vars
<1>2. TermNext \/ UNCHANGED termVars
  BY DEF Next, vars
<1>3. AskNext \/ UNCHANGED askVars
  BY DEF Next, vars
<1> QED BY <1>1, <1>2, <1>3, TurnInductive, PlanInductive, BoundsKept DEF IInv

LEMMA Invariant == Spec => []IInv
BY Initially, Inductive, PTL DEF Spec

(* Every step of the three surfaces keeps to its labels, counters and the  *)
(* contents a file can have, restores torn by a crash included.            *)
THEOREM TypeCorrect == Spec => []TypeOK
<1>1. IInv => TypeOK
  BY DEF IInv, Bounds, TurnInv, TurnTypes, PlanInv, PlanTypes, TypeOK, Asking, Working
<1> QED BY <1>1, Invariant, PTL

(* A turn of the terminal chat whose apply, verification or record failed, *)
(* and which returns an error without that of the rollback, has put back   *)
(* every file it changed, however many files, failures of the undo and     *)
(* turns before; three failures in one turn excepted.                      *)
THEOREM ErrorsLeaveTheWorkspace == Spec => []ErrorLeavesWorkspace
<1>1. IInv => ErrorLeavesWorkspace
  BY DEF IInv, TurnInv
<1> QED BY <1>1, Invariant, PTL

(* While a turn has a file of the user changed or removed, and after it    *)
(* died there, a complete archive of terminalStream's snapshot holds what  *)
(* the file was.                                                           *)
THEOREM SnapshotsComeFirst == Spec => []RecoveryPointFirst
<1>1. IInv => RecoveryPointFirst
  BY DEF IInv, TurnInv
<1> QED BY <1>1, Invariant, PTL

(* What ask, the Studio's chat or the terminal's reports as applied passed *)
(* verify.Detect, or nothing in the workspace checks it: every toolchain,  *)
(* manifest and repair.  With the negative number of repairs config.Load   *)
(* lets through, ask and the Studio verify nothing and write nothing.      *)
THEOREM AppliedWasVerified == Spec => []AppliedIsVerified
<1>1. IInv => AppliedIsVerified
  BY DEF IInv, TurnInv, TurnApplied, PlanInv, PlanTypes, PlanKept, Recording,
         Verified, AppliedIsVerified
<1> QED BY <1>1, Invariant, PTL

(* The files a saved project plan calls completed were written by verified *)
(* edits, if any pass runs at all (Budget is not negative), and a run that *)
(* reports the project complete completed them all, whatever its           *)
(* dependencies, crashes and resumed runs.                                 *)
THEOREM CompletionsAreEarned == Spec => []CompletedWereWritten
<1>1. IInv => CompletedWereWritten
  BY DEF IInv, PlanInv
<1> QED BY <1>1, Invariant, PTL

(* A Studio chat whose Execute could not roll back makes no further edit.  *)
THEOREM StudioStopsAfterDamage == Spec => []DamageStops
<1>1. IInv => DamageStops
  BY DEF IInv, PlanInv
<1> QED BY <1>1, Invariant, PTL

\* A plan saved over one of the same prompt is that plan with its batch marked.
LEMMA SavedOver ==
  ASSUME IInv, [Next]_vars, planFile.prompt \in Prompts, planFile'.prompt = planFile.prompt
  PROVE  \/ UNCHANGED planFile
         \/ planFile' = MarkBatchCompleted(planFile, NextBatch(planFile))
<1>1. AskNext \/ UNCHANGED planFile
  BY DEF Next, vars, askVars
<1>2. ASSUME SaveProjectPlan, ~UNCHANGED planFile
      PROVE  planFile' = MarkBatchCompleted(planFile, NextBatch(planFile))
  <2>1. pc = "save" /\ planFile' = memory
    BY <1>2 DEF SaveProjectPlan
  <2>2. CASE batch = {}
    BY <2>1, <2>2 DEF IInv, PlanInv, PlanPhases
  <2>3. CASE batch # {}
    BY <2>1, <2>3 DEF IInv, PlanInv, PlanPhases
  <2> QED BY <2>2, <2>3
<1>3. ASSUME AskNext, ~SaveProjectPlan PROVE UNCHANGED planFile
  BY <1>3 DEF AskNext, AskStep, doc, Begin, LoadProjectPlan, Planning, ChooseBatch,
     AskGather, StudioGather, CompactHistory, AskReply, StudioReply, Review, Execute,
     Repair, AskRecord, StudioRecord, Validate, Answer, Crash
<1> QED BY <1>1, <1>2, <1>3

LEMMA SavedOverTyped ==
  ASSUME IInv, planFile.prompt \in Prompts
  PROVE  planFile \in Plans /\ planFile.done \subseteq FilesOf(planFile)
BY PlanOfPrompt DEF IInv, PlanInv, PlanTypes

(* A later run with the same prompt resumes the saved plan: no completed   *)
(* file is forgotten and no dependency changes, across any number of runs. *)
THEOREM SavedWorkIsKept == Spec => SavedWorkSurvives
<1> DEFINE Kept == (planFile.prompt \in Prompts /\ planFile'.prompt = planFile.prompt)
                      => planFile.done \subseteq planFile'.done /\ planFile'.deps = planFile.deps
<1>1. IInv /\ [Next]_vars => Kept
  <2> SUFFICES ASSUME IInv, [Next]_vars, planFile.prompt \in Prompts,
                      planFile'.prompt = planFile.prompt
               PROVE  planFile.done \subseteq planFile'.done /\ planFile'.deps = planFile.deps
    OBVIOUS
  <2> QED BY SavedOver, SavedOverTyped, MarkedTyped
<1>2. IInv /\ [Next]_vars => [Kept]_vars
  BY <1>1
<1> QED BY <1>2, Invariant, PTL DEF Spec, SavedWorkSurvives

(* NextBatch marks a file only after what it depends on, unless no pending *)
(* file is ready, for every plan the planner may return, cycles included.  *)
THEOREM DependenciesGoFirst == Spec => DependenciesFirst
<1> DEFINE First == (planFile.prompt \in Prompts /\ planFile'.prompt = planFile.prompt)
                       => \A p \in planFile'.done \ planFile.done :
                            \/ Ready(planFile, p)
                            \/ \A q \in FilesOf(planFile) \ planFile.done : ~Ready(planFile, q)
<1>1. IInv /\ [Next]_vars => First
  <2> SUFFICES ASSUME IInv, [Next]_vars, planFile.prompt \in Prompts,
                      planFile'.prompt = planFile.prompt,
                      NEW p \in planFile'.done \ planFile.done, ~Ready(planFile, p),
                      NEW q \in FilesOf(planFile) \ planFile.done
               PROVE  ~Ready(planFile, q)
    OBVIOUS
  <2>1. p \in NextBatch(planFile)
    BY SavedOver, SavedOverTyped, MarkedTyped
  <2>2. ReadyFiles(planFile) = {}
    BY <2>1 DEF NextBatch, FilesAt, FirstTwo, ReadyFiles
  <2> QED BY <2>2 DEF ReadyFiles, PendingFiles, FilesOf
<1>2. IInv /\ [Next]_vars => [First]_vars
  BY <1>1
<1> QED BY <1>2, Invariant, PTL DEF Spec, DependenciesFirst
=============================================================================
