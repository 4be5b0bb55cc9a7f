-------------------------- MODULE AgentToolsProofs --------------------------
(***************************************************************************)
(* What the agent's tools may change, show, overwrite and commit, for      *)
(* every set of capabilities, every set of calls and every number of the   *)
(* user's moves.                                                           *)
(*                                                                         *)
(* The first half goes through the handlers: for a valid call each of      *)
(* their outcomes is honest, that is, it agrees with toolRequiresApproval, *)
(* with the preview asked for and with the ignore policy.  The second half *)
(* is the invariant of a call on its way through Execute.                  *)
(***************************************************************************)
EXTENDS AgentTools, TLAPS

AllCalls == Call(Tools)

\* An outcome that the approval table, a preview and the ignore policy allow.
HonestOutcome(c, o) ==
  /\ o.did \subseteq Effects /\ o.shows \subseteq PathKinds
  /\ o.did \subseteq Unguarded \/ RequiresApproval(c)
  /\ c.preview = "yes" => o.did = {}
  /\ o.shows \subseteq MayShow(c)

Honest(c, outcomes) == \A o \in outcomes : HonestOutcome(c, o)

\* The call may have an effect of this kind.
MayDo(c, e) == /\ e \in Effects /\ c.preview # "yes"
               /\ e \in Unguarded \/ RequiresApproval(c)

-----------------------------------------------------------------------------
(* The combinators the handlers are built from.                            *)

LEMMA HonestRefused ==
  ASSUME NEW c  PROVE Honest(c, Refused)
  BY DEF Honest, HonestOutcome, Refused, Outcome

LEMMA HonestAnswers ==
  ASSUME NEW c  PROVE Honest(c, Answers)
  BY DEF Honest, HonestOutcome, Answers, Refused, Outcome

LEMMA HonestUnion ==
  ASSUME NEW c, NEW S, NEW T, Honest(c, S), Honest(c, T)
  PROVE  Honest(c, S \cup T)
  BY DEF Honest

LEMMA HonestShows ==
  ASSUME NEW c, NEW p \in PathArguments, Content(p) \subseteq MayShow(c)
  PROVE  Honest(c, Shows(p))
  <1>1. Content(p) \subseteq PathKinds
    BY DEF Content, PathArguments
  <1> QED
    BY <1>1 DEF Honest, HonestOutcome, Shows, Refused, Outcome

LEMMA HonestDoes ==
  ASSUME NEW c, NEW e, MayDo(c, e)
  PROVE  Honest(c, Does(e))
  BY DEF Honest, HonestOutcome, Does, Refused, Outcome, MayDo

LEMMA HonestNeeding ==
  ASSUME NEW c, NEW needed, NEW S, Honest(c, S)
  PROVE  Honest(c, Needing(needed, S))
  BY HonestRefused DEF Needing

LEMMA HonestResolved ==
  ASSUME NEW c, NEW S, Resolves(c.path) => Honest(c, S)
  PROVE  Honest(c, Resolved(c, S))
  BY HonestRefused DEF Resolved

LEMMA HonestOptional ==
  ASSUME NEW c, NEW S, Honest(c, S)
  PROVE  Honest(c, Optional(c, S))
  BY HonestResolved DEF Optional

LEMMA HonestOnlyPreview ==
  ASSUME NEW c, NEW e, c.preview # "yes" => MayDo(c, e)
  PROVE  Honest(c, OnlyPreview(c, e))
  BY HonestAnswers, HonestDoes DEF OnlyPreview, Dry

\* The content of a path that resolves is a workspace file's, unless the path
\* leads below a link.
LEMMA HonestPath ==
  ASSUME NEW c
  PROVE  /\ Honest(c, Shows("source"))
         /\ Honest(c, Resolved(c, Shows(c.path)))
         /\ Resolves(c.path) => Honest(c, Shows(c.path))
  <1>1. Honest(c, Shows("source"))
    <2>1. Content("source") \subseteq MayShow(c)
      BY DEF Content, MayShow
    <2> QED
      BY <2>1, HonestShows DEF PathKinds, PathArguments
  <1>2. c.path = "linked" => Honest(c, Shows(c.path))
    <2> SUFFICES ASSUME c.path = "linked"  PROVE Honest(c, Shows(c.path))
      OBVIOUS
    <2>1. Content(c.path) \subseteq MayShow(c)
      BY DEF Content, MayShow
    <2> QED
      BY <2>1, HonestShows DEF PathArguments
  <1>3. Resolves(c.path) => Honest(c, Shows(c.path))
    BY <1>1, <1>2 DEF Resolves
  <1> QED
    BY <1>1, <1>3, HonestResolved

\* What a search may return.
LEMMA HonestSearch ==
  ASSUME NEW c, c.tool \in Searches
  PROVE  Honest(c, Searched)
  <1>1. ASSUME NEW k \in PathKinds  PROVE Honest(c, Shows(k))
    <2>1. Content(k) \subseteq MayShow(c) /\ k \in PathArguments
      BY DEF Content, MayShow, PathArguments, PathKinds
    <2> QED
      BY <2>1, HonestShows
  <1> QED
    BY <1>1 DEF Honest, Searched

\* What FuzeCLI keeps of its own.
LEMMA HonestRecords ==
  ASSUME NEW c, c.tool \in RecordReads
  PROVE  Honest(c, Shows("protected")) /\ Honest(c, ShowsRecords)
  <1>1. Content("protected") \subseteq MayShow(c) /\ "protected" \in PathArguments
    BY DEF Content, MayShow, PathArguments, PathKinds
  <1> QED
    BY <1>1, HonestShows, HonestAnswers, HonestUnion DEF ShowsRecords

-----------------------------------------------------------------------------
(* Calls.                                                                  *)

\* A tool without a dry_run argument gets no preview.
LEMMA NoPreview ==
  ASSUME NEW c \in AllCalls, Valid(c), c.tool \notin Previewable
  PROVE  c.preview = "unset"
  BY DEF Valid

\* A call of a tool that always needs approval may do anything, unless it is a
\* preview.
LEMMA Guarded ==
  ASSUME NEW c \in AllCalls, NEW e \in Effects, c.preview # "yes",
         c.tool \in AlwaysApproved \/ c.action \in ApprovedActions(c.tool)
  PROVE  MayDo(c, e)
  BY DEF MayDo, RequiresApproval

\* Notes, the profile, checks and visits need no approval.
LEMMA Free ==
  ASSUME NEW c, NEW e \in Unguarded, c.preview # "yes"
  PROVE  MayDo(c, e)
  BY DEF MayDo, Effects, Unguarded

LEMMA ReadWorkspaceHonest ==
  ASSUME NEW c \in AllCalls
  PROVE  Honest(c, ReadWorkspace(c))
  <1>1. c.tool = "workspace.search_code" => Honest(c, Optional(c, Searched))
    BY HonestSearch, HonestOptional DEF Searches
  <1> QED
    BY <1>1, HonestPath, HonestOptional, HonestAnswers DEF ReadWorkspace

LEMMA ApplyEditsHonest ==
  ASSUME NEW c \in AllCalls, c.tool = "workspace.apply_edits"
  PROVE  Honest(c, ApplyEdits(c))
  <1>1. c.tool \in AlwaysApproved
    BY DEF AlwaysApproved
  <1>2. c.preview # "yes" => Honest(c, Does("files"))
    BY <1>1, Guarded, HonestDoes DEF Effects
  <1>3. Honest(c, IF Dry(c, FALSE) THEN Answers
                  ELSE Needing({"write_workspace"}, Does("files")))
    BY <1>2, HonestAnswers, HonestNeeding DEF Dry
  <1> QED
    BY <1>3, HonestResolved DEF ApplyEdits

LEMMA TerminalRunHonest ==
  ASSUME NEW c \in AllCalls, Valid(c), c.tool = "terminal.run"
  PROVE  Honest(c, TerminalRun(c))
  <1>1. c.tool \in AlwaysApproved /\ c.tool \notin Previewable
    BY DEF AlwaysApproved, Previewable, Installs
  <1>2. Honest(c, Does("command"))
    BY <1>1, NoPreview, Guarded, HonestDoes DEF Effects
  <1> QED
    BY <1>2, HonestOptional DEF TerminalRun

LEMMA VerifyRunHonest ==
  ASSUME NEW c \in AllCalls
  PROVE  Honest(c, VerifyRun(c))
  <1>1. c.preview # "yes" => Honest(c, Answers \cup Does("check"))
    BY Free, HonestDoes, HonestAnswers, HonestUnion DEF Unguarded
  <1> QED
    BY <1>1, HonestAnswers, HonestOptional DEF VerifyRun, Dry

LEMMA ShowsChangesHonest ==
  ASSUME NEW c \in AllCalls, c.tool \in {"git.diff", "git.show"}
  PROVE  Honest(c, ShowsChanges(c))
  <1>1. ASSUME NEW k \in PathKinds \ {"outside"}  PROVE Honest(c, Shows(k))
    <2>1. Content(k) \subseteq MayShow(c) /\ k \in PathArguments
      BY DEF Content, MayShow, Diffs, PathArguments, PathKinds
    <2> QED
      BY <2>1, HonestShows
  <1>2. Honest(c, UNION {Shows(k) : k \in PathKinds \ {"outside"}})
    BY <1>1 DEF Honest
  <1> QED
    BY <1>2, HonestPath, HonestAnswers DEF ShowsChanges

LEMMA GitCommitHonest ==
  ASSUME NEW c \in AllCalls, c.tool = "git.commit"
  PROVE  Honest(c, GitCommit(c))
  <1>1. c.tool \in AlwaysApproved
    BY DEF AlwaysApproved
  <1>2. c.preview # "yes" => Honest(c, Does("history"))
    BY <1>1, Guarded, HonestDoes DEF Effects
  <1>3. c.preview # "yes" => Honest(c, Needing({"run_git"}, Resolved(c, Does("history"))))
    BY <1>2, HonestResolved, HonestNeeding
  <1> QED
    BY <1>3, HonestAnswers DEF GitCommit, Dry

LEMMA GitHubSyncHonest ==
  ASSUME NEW c \in AllCalls, c.tool = "github.sync"
  PROVE  Honest(c, GitHubSync(c))
  <1>1. c.tool \in AlwaysApproved
    BY DEF AlwaysApproved
  <1>2. c.preview # "yes" => Honest(c, Does("history")) /\ Honest(c, Does("remote"))
    BY <1>1, Guarded, HonestDoes DEF Effects
  <1>3. c.preview # "yes" =>
          Honest(c, Needing({"run_git"},
                            Does(IF c.action = "push" THEN "remote" ELSE "history")))
    BY <1>2, HonestNeeding
  <1> QED
    BY <1>3, HonestAnswers DEF GitHubSync, Dry

\* The actions of a tool that change something are those of the approval table.
LEMMA GitHubActions ==
  ASSUME NEW c \in AllCalls, Valid(c)
  PROVE  /\ c.tool = "github.auth" /\ c.action \in {"login_start", "disconnect"}
              => c.action \in ApprovedActions(c.tool)
         /\ c.tool = "github.actions" /\ c.action = "rerun_failed"
              => c.action \in ApprovedActions(c.tool)
         /\ c.tool = "github.branches" /\ c.action # "list"
              => c.action \in ApprovedActions(c.tool)
         /\ c.tool = "github.pull_requests" /\ c.action # "list"
              => c.action \in ApprovedActions(c.tool)
         /\ c.tool = "github.issues" /\ c.action # "list"
              => c.action \in ApprovedActions(c.tool)
  <1>1. c.action \in Actions(c.tool)
    BY DEF Valid
  <1>2. c.tool = "github.auth" /\ c.action \in {"login_start", "disconnect"}
          => c.action \in ApprovedActions(c.tool)
    BY DEF ApprovedActions
  <1>3. c.tool = "github.actions" /\ c.action = "rerun_failed"
          => c.action \in ApprovedActions(c.tool)
    BY DEF ApprovedActions
  <1>4. c.tool = "github.branches" /\ c.action # "list"
          => c.action \in ApprovedActions(c.tool)
    BY <1>1 DEF ApprovedActions, Actions
  <1>5. c.tool = "github.pull_requests" /\ c.action # "list"
          => c.action \in ApprovedActions(c.tool)
    BY <1>1 DEF ApprovedActions, Actions
  <1>6. c.tool = "github.issues" /\ c.action # "list"
          => c.action \in ApprovedActions(c.tool)
    BY <1>1 DEF ApprovedActions, Actions
  <1> QED
    BY <1>2, <1>3, <1>4, <1>5, <1>6

LEMMA GitHubHonest ==
  ASSUME NEW c \in AllCalls, Valid(c), c.tool \in GitHubTools
  PROVE  Honest(c, GitHub(c))
  <1>1. c.tool = "github.sync" => Honest(c, GitHubSync(c))
    BY GitHubSyncHonest
  <1>2. c.tool # "github.sync" => c.preview # "yes"
    BY NoPreview DEF GitHubTools, Previewable, Installs
  <1>3. c.preview # "yes" /\ c.action \in ApprovedActions(c.tool)
          => Honest(c, Does("account")) /\ Honest(c, Does("remote"))
    BY Guarded, HonestDoes DEF Effects
  <1>4. CASE c.tool = "github.sync"
    BY <1>1, <1>4 DEF GitHub
  <1>5. CASE c.tool = "github.auth"
    BY <1>2, <1>3, <1>5, GitHubActions, HonestAnswers DEF GitHub
  <1>6. CASE c.tool = "github.actions"
    BY <1>2, <1>3, <1>6, GitHubActions, HonestAnswers DEF GitHub
  <1>7. CASE c.tool \in {"github.branches", "github.pull_requests", "github.issues"}
    BY <1>2, <1>3, <1>7, GitHubActions, HonestAnswers DEF GitHub
  <1>8. CASE c.tool = "github.repositories"
    BY <1>8, HonestAnswers DEF GitHub
  <1> QED
    BY <1>4, <1>5, <1>6, <1>7, <1>8 DEF GitHubTools

LEMMA ContextHonest ==
  ASSUME NEW c \in AllCalls, Valid(c), c.tool \in {"context.get", "context.checkpoint"}
  PROVE  Honest(c, Context(c))
  <1>1. c.tool \notin Previewable
    BY DEF Previewable, Installs
  <1>2. Honest(c, Does("notes"))
    BY <1>1, NoPreview, Free, HonestDoes DEF Unguarded
  <1>3. c.tool # "context.checkpoint" => Honest(c, ShowsRecords)
    BY HonestRecords DEF RecordReads
  <1> QED
    BY <1>2, <1>3 DEF Context

LEMMA ReadManyHonest ==
  ASSUME NEW c \in AllCalls
  PROVE  Honest(c, ReadMany(c))
  <1>1. c.tool = "workspace.find_references" => Honest(c, Optional(c, Searched))
    BY HonestSearch, HonestOptional DEF Searches
  <1> QED
    BY <1>1, HonestPath, HonestOptional, HonestAnswers DEF ReadMany

LEMMA PatchOrRenameHonest ==
  ASSUME NEW c \in AllCalls, c.tool \in {"workspace.apply_patch", "workspace.rename"}
  PROVE  Honest(c, PatchOrRename(c))
  <1>1. c.tool \in AlwaysApproved
    BY DEF AlwaysApproved
  <1>2. Honest(c, OnlyPreview(c, "files"))
    BY <1>1, Guarded, HonestOnlyPreview DEF Effects
  <1> QED
    BY <1>2, HonestResolved, HonestNeeding DEF PatchOrRename

LEMMA ProcessHonest ==
  ASSUME NEW c \in AllCalls, Valid(c), c.tool \in Processes
  PROVE  Honest(c, Process(c))
  <1>1. c.preview # "yes"
    BY NoPreview DEF Processes, Previewable, Installs
  <1>2. CASE c.tool = "terminal.run_parallel"
    <2>1. c.tool \in AlwaysApproved
      BY <1>2 DEF AlwaysApproved
    <2>2. Honest(c, Does("command"))
      BY <1>1, <2>1, Guarded, HonestDoes DEF Effects
    <2>3. Honest(c, Needing({"run_build"}, Optional(c, Does("command"))))
      BY <2>2, HonestOptional, HonestNeeding
    <2> QED
      BY <1>2, <2>3, HonestAnswers, HonestUnion DEF Process
  <1>3. CASE c.tool = "terminal.output"
    <2>1. c.action = "unset"
      BY <1>3 DEF Valid, Actions
    <2> QED
      BY <1>3, <2>1, HonestAnswers DEF Process
  <1>4. CASE c.tool = "terminal.process"
    <2>1. c.action = "status" \/ c.action \in ApprovedActions(c.tool)
      BY <1>4 DEF Valid, Actions, ApprovedActions
    <2>2. c.action # "status" => Honest(c, Does("command"))
      BY <1>1, <2>1, Guarded, HonestDoes DEF Effects
    <2>3. c.action # "status" => Honest(c, Needing({"run_build"}, Optional(c, Does("command"))))
      BY <2>2, HonestOptional, HonestNeeding
    <2> QED
      BY <1>4, <2>2, <2>3, HonestAnswers DEF Process
  <1> QED
    BY <1>2, <1>3, <1>4 DEF Processes

LEMMA RunTestHonest ==
  ASSUME NEW c \in AllCalls, c.tool = "test.run"
  PROVE  Honest(c, RunTest(c))
  <1>1. c.tool \in AlwaysApproved
    BY DEF AlwaysApproved
  <1>2. c.preview # "yes" => Honest(c, Does("command"))
    BY <1>1, Guarded, HonestDoes DEF Effects
  <1>3. c.preview # "yes" => Honest(c, Needing({"run_tests"}, Optional(c, Does("command"))))
    BY <1>2, HonestOptional, HonestNeeding
  <1> QED
    BY <1>3, HonestAnswers DEF RunTest, Dry

LEMMA AnalyzeDebugHonest ==
  ASSUME NEW c \in AllCalls
  PROVE  Honest(c, AnalyzeDebug(c))
  BY HonestPath, HonestAnswers DEF AnalyzeDebug

LEMMA GitHistoryHonest ==
  ASSUME NEW c \in AllCalls, Valid(c), c.tool \in GitTools
  PROVE  Honest(c, GitHistory(c))
  <1>1. CASE c.tool \in {"git.log", "git.show"}
    <2>1. c.action = "unset"
      BY <1>1 DEF Valid, Actions
    <2>2. c.tool = "git.show" => Honest(c, ShowsChanges(c))
      BY ShowsChangesHonest
    <2> QED
      BY <1>1, <2>1, <2>2, HonestAnswers, HonestOptional DEF GitHistory
  <1>2. CASE c.tool \in {"git.branch", "git.stash"}
    <2>1. c.action = "list" \/ c.action \in ApprovedActions(c.tool)
      BY <1>2 DEF Valid, Actions, ApprovedActions
    <2>2. c.action # "list" => Honest(c, OnlyPreview(c, "history"))
      BY <2>1, Guarded, HonestOnlyPreview DEF Effects
    <2> QED
      BY <1>2, <2>2, HonestAnswers DEF GitHistory
  <1> QED
    BY <1>1, <1>2 DEF GitTools

LEMMA HTTPRequestHonest ==
  ASSUME NEW c \in AllCalls, Valid(c), c.tool = "http.request"
  PROVE  Honest(c, HTTPRequest(c))
  <1>1. c.preview # "yes"
    BY NoPreview DEF Previewable, Installs
  <1>2. c.action \in {"GET", "HEAD"} \/ c.action \in ApprovedActions(c.tool)
    BY DEF Valid, Actions, ApprovedActions
  <1>3. c.action \notin {"GET", "HEAD"} => Honest(c, Does("remote"))
    BY <1>1, <1>2, Guarded, HonestDoes DEF Effects
  <1> QED
    BY <1>3, HonestAnswers DEF HTTPRequest

LEMMA DatabaseHonest ==
  ASSUME NEW c \in AllCalls, c.tool \in Databases
  PROVE  Honest(c, Database(c))
  <1>1. Honest(c, Resolved(c, Answers)) /\ Honest(c, Resolved(c, Shows(c.path)))
    BY HonestPath, HonestResolved, HonestAnswers
  <1> QED
    BY <1>1, HonestAnswers DEF Database, Databases

LEMMA PackageHonest ==
  ASSUME NEW c \in AllCalls, Valid(c), c.tool \in Packages
  PROVE  Honest(c, Package(c))
  <1>1. CASE c.tool = "package.inspect"
    BY <1>1, HonestAnswers DEF Package
  <1>2. CASE c.tool = "package.audit"
    <2>1. c.tool \notin Previewable
      BY <1>2 DEF Previewable, Installs
    <2>2. Honest(c, Needing({"network_access"}, Does("check")))
      BY <2>1, NoPreview, Free, HonestDoes, HonestNeeding DEF Unguarded
    <2> QED
      BY <1>2, <2>2, HonestAnswers, HonestUnion, HonestNeeding DEF Package
  <1>3. CASE c.tool \in Installs
    <2>1. c.tool \in AlwaysApproved
      BY <1>3 DEF AlwaysApproved
    <2>2. c.preview # "yes" => Honest(c, Needing({"network_access"}, Does("packages")))
      BY <2>1, Guarded, HonestDoes, HonestNeeding DEF Effects
    <2>3. Honest(c, IF Dry(c, FALSE) THEN Answers
                    ELSE Needing({"network_access"}, Does("packages")))
      BY <2>2, HonestAnswers DEF Dry
    <2> QED
      BY <1>3, <2>3, HonestNeeding DEF Package, Installs
  <1> QED
    BY <1>1, <1>2, <1>3 DEF Packages

LEMMA SearchDocsHonest ==
  ASSUME NEW c \in AllCalls
  PROVE  Honest(c, SearchDocs(c))
  BY HonestPath, HonestOptional DEF SearchDocs

LEMMA DocsGenerateHonest ==
  ASSUME NEW c \in AllCalls, c.tool = "docs.generate"
  PROVE  Honest(c, DocsGenerate(c))
  <1>1. c.tool \in AlwaysApproved
    BY DEF AlwaysApproved
  <1>2. Honest(c, OnlyPreview(c, "files"))
    BY <1>1, Guarded, HonestOnlyPreview DEF Effects
  <1> QED
    BY <1>2, HonestResolved, HonestNeeding DEF DocsGenerate

LEMMA BuildHonest ==
  ASSUME NEW c \in AllCalls, c.tool \in Builds
  PROVE  Honest(c, Build(c))
  <1>1. CASE c.tool = "build.inspect"
    BY <1>1, HonestAnswers DEF Build
  <1>2. CASE c.tool = "build.run"
    <2>1. c.tool \in AlwaysApproved
      BY <1>2 DEF AlwaysApproved
    <2>2. Honest(c, OnlyPreview(c, "command"))
      BY <2>1, Guarded, HonestOnlyPreview DEF Effects
    <2> QED
      BY <1>2, <2>2, HonestNeeding DEF Build
  <1>3. CASE c.tool = "api.inspect"
    BY <1>3, HonestPath, HonestOptional DEF Build
  <1> QED
    BY <1>1, <1>2, <1>3 DEF Builds

LEMMA MigrateHonest ==
  ASSUME NEW c \in AllCalls, c.tool = "database.migrate"
  PROVE  Honest(c, Migrate(c))
  <1>1. c.tool \in AlwaysApproved
    BY DEF AlwaysApproved
  <1>2. Honest(c, OnlyPreview(c, "database"))
    BY <1>1, Guarded, HonestOnlyPreview DEF Effects
  <1> QED
    BY <1>2, HonestResolved, HonestNeeding DEF Migrate

LEMMA ContainerHonest ==
  ASSUME NEW c \in AllCalls, c.tool \in Containers
  PROVE  Honest(c, Container(c))
  <1>1. c.tool # "container.inspect" => c.tool \in AlwaysApproved
    BY DEF AlwaysApproved, Containers
  <1>2. c.preview # "yes" /\ c.tool # "container.inspect"
          => Honest(c, Needing({"network_access"}, Does("container")))
    BY <1>1, Guarded, HonestDoes, HonestNeeding DEF Effects
  <1>3. Honest(c, IF c.tool = "container.inspect" \/ Dry(c, FALSE) THEN Answers
                  ELSE Needing({"network_access"}, Does("container")))
    BY <1>2, HonestAnswers DEF Dry
  <1> QED
    BY <1>3, HonestNeeding DEF Container

LEMMA InspectImageHonest ==
  ASSUME NEW c \in AllCalls
  PROVE  Honest(c, InspectImage(c))
  BY HonestAnswers, HonestResolved DEF InspectImage

LEMMA OpenPageHonest ==
  ASSUME NEW c \in AllCalls, Valid(c), c.tool = "browser.open"
  PROVE  Honest(c, OpenPage(c))
  <1>1. c.preview # "yes"
    BY NoPreview DEF Previewable, Installs
  <1> QED
    BY <1>1, Free, HonestDoes, HonestNeeding DEF OpenPage, Unguarded

LEMMA ActOnPageHonest ==
  ASSUME NEW c \in AllCalls, Valid(c), c.tool \in PageActions
  PROVE  Honest(c, ActOnPage(c))
  <1>1. c.preview # "yes"
    BY NoPreview DEF PageActions, Previewable, Installs
  <1>2. c.tool \in AlwaysApproved
    BY DEF AlwaysApproved
  <1> QED
    BY <1>1, <1>2, Guarded, HonestDoes DEF ActOnPage, Effects

LEMMA ScreenshotHonest ==
  ASSUME NEW c \in AllCalls, Valid(c), c.tool = "browser.screenshot"
  PROVE  Honest(c, Screenshot(c))
  <1>1. c.preview # "yes"
    BY NoPreview DEF Previewable, Installs
  <1>2. c.path # "unset" => Honest(c, Does("files"))
    BY <1>1, HonestDoes DEF MayDo, RequiresApproval, Effects
  <1>3. c.path # "unset" => Honest(c, Needing({"write_workspace"}, Resolved(c, Does("files"))))
    BY <1>2, HonestResolved, HonestNeeding
  <1> QED
    BY <1>3, HonestAnswers DEF Screenshot

LEMMA DeployHonest ==
  ASSUME NEW c \in AllCalls, c.tool \in Deployments
  PROVE  Honest(c, Deploy(c))
  <1>1. c.tool # "deploy.inspect" => c.tool \in AlwaysApproved
    BY DEF AlwaysApproved, Deployments
  <1>2. c.preview # "yes" /\ c.tool # "deploy.inspect"
          => Honest(c, Needing({"run_build", "network_access"}, Does("deploy")))
    BY <1>1, Guarded, HonestDoes, HonestNeeding DEF Effects
  <1>3. c.tool # "deploy.inspect"
          => Honest(c, IF Dry(c, FALSE) THEN Answers
                       ELSE Needing({"run_build", "network_access"}, Does("deploy")))
    BY <1>2, HonestAnswers DEF Dry
  <1> QED
    BY <1>3, HonestAnswers, HonestOptional DEF Deploy

LEMMA MemoryHonest ==
  ASSUME NEW c \in AllCalls, Valid(c), c.tool \in Memories
  PROVE  Honest(c, Memory(c))
  <1>1. CASE c.tool = "memory.forget"
    <2>1. c.preview # "yes" => MayDo(c, IF c.ids \in 1 .. 5 THEN "notes" ELSE "erase")
      BY <1>1 DEF MayDo, RequiresApproval, Effects, Unguarded
    <2>2. c.preview # "yes" => Honest(c, Does(IF c.ids \in 1 .. 5 THEN "notes" ELSE "erase"))
      BY <2>1, HonestDoes
    <2>3. Honest(c, Forget(c))
      BY <2>2, HonestAnswers, HonestRefused DEF Forget, Dry
    <2> QED
      BY <1>1, <2>3 DEF Memory
  <1>2. CASE c.tool # "memory.forget"
    <2>1. c.preview # "yes"
      BY <1>2, NoPreview DEF Memories, Previewable, Installs
    <2>2. Honest(c, Does("notes"))
      BY <2>1, Free, HonestDoes DEF Unguarded
    <2>3. c.tool \notin {"memory.remember", "memory.update"} => Honest(c, ShowsRecords)
      BY <1>2, HonestRecords DEF Memories, RecordReads
    <2> QED
      BY <1>2, <2>2, <2>3 DEF Memory
  <1> QED
    BY <1>1, <1>2

LEMMA ProfileHonest ==
  ASSUME NEW c \in AllCalls, Valid(c), c.tool \in Profiles
  PROVE  Honest(c, Profile(c))
  <1>1. CASE c.tool = "profile.reset"
    <2>1. c.preview = "no" => MayDo(c, "erase")
      BY <1>1 DEF MayDo, RequiresApproval, Effects
    <2>2. c.preview = "no" => Honest(c, Does("erase"))
      BY <2>1, HonestDoes
    <2>3. Dry(c, TRUE) \/ c.preview = "no"
      BY DEF Dry, AllCalls, Call
    <2> QED
      BY <1>1, <2>2, <2>3, HonestAnswers, HonestRefused DEF Profile
  <1>2. CASE c.tool # "profile.reset"
    <2>1. c.preview # "yes"
      BY <1>2, NoPreview DEF Profiles, Previewable, Installs
    <2>2. Honest(c, Does("notes")) /\ Honest(c, Does("profile"))
      BY <2>1, Free, HonestDoes DEF Unguarded
    <2>3. c.tool = "profile.get" => Honest(c, ShowsRecords)
      BY HonestRecords DEF RecordReads
    <2>4. c.tool = "profile.update"
            => Honest(c, {Outcome(TRUE, {"profile"}, {"protected"})})
      BY <2>1 DEF Honest, HonestOutcome, Outcome, RecordReads, MayShow, Effects,
                  Unguarded, PathKinds
    <2>5. c.tool = "profile.update"
            => Honest(c, Does("profile") \cup {Outcome(TRUE, {"profile"}, {"protected"})})
      BY <2>2, <2>4, HonestUnion
    <2> QED
      BY <1>2, <2>2, <2>3, <2>5 DEF Profile
  <1> QED
    BY <1>1, <1>2

-----------------------------------------------------------------------------
(* Dispatch.                                                               *)

\* Web searches, page reads and tools that only answer.
LEMMA SearchesHonest ==
  ASSUME NEW c \in AllCalls
  PROVE  Honest(c, OpenWeb(c)) /\ Honest(c, SearchWeb(c)) /\ Honest(c, ReadPage(c))
  BY HonestAnswers, HonestNeeding DEF OpenWeb, SearchWeb, ReadPage

Tier1Tools == UNION {ManyReads, Processes, GitTools, WebReads, Databases, GitHubReads,
  {"workspace.apply_patch", "workspace.rename", "test.run", "test.list",
   "debug.analyze", "http.request", "environment.inspect"}}

LEMMA Tier1Honest ==
  ASSUME NEW c \in AllCalls, Valid(c), c.tool \in Tier1Tools
  PROVE  Honest(c, Tier1(c))
  <1>1. Honest(c, ReadMany(c)) /\ Honest(c, AnalyzeDebug(c)) /\ Honest(c, Optional(c, Answers))
    BY ReadManyHonest, AnalyzeDebugHonest, HonestAnswers, HonestOptional
  <1>2. c.tool \in {"workspace.apply_patch", "workspace.rename"} => Honest(c, PatchOrRename(c))
    BY PatchOrRenameHonest
  <1>3. c.tool \in Processes => Honest(c, Process(c))
    BY ProcessHonest
  <1>4. c.tool = "test.run" => Honest(c, RunTest(c))
    BY RunTestHonest
  <1>5. c.tool \in GitTools => Honest(c, GitHistory(c))
    BY GitHistoryHonest
  <1>6. c.tool = "http.request" => Honest(c, HTTPRequest(c))
    BY HTTPRequestHonest
  <1>7. c.tool \in Databases => Honest(c, Database(c))
    BY DatabaseHonest
  <1>8. \/ c.tool \in ManyReads \/ c.tool \in {"workspace.apply_patch", "workspace.rename"}
        \/ c.tool \in Processes \/ c.tool = "test.run" \/ c.tool = "debug.analyze"
        \/ c.tool = "test.list" \/ c.tool \in GitTools \/ c.tool \in WebReads
        \/ c.tool = "http.request" \/ c.tool \in Databases
        \/ c.tool \in GitHubReads \cup {"environment.inspect"}
    BY DEF Tier1Tools
  <1> QED
    BY <1>1, <1>2, <1>3, <1>4, <1>5, <1>6, <1>7, <1>8, SearchesHonest, HonestAnswers
    DEF Tier1

LEMMA Tier2Honest ==
  ASSUME NEW c \in AllCalls, Valid(c), c.tool \in Tier2Tools
  PROVE  Honest(c, Tier2(c))
  <1>1. c.tool \in Packages => Honest(c, Package(c))
    BY PackageHonest
  <1>2. Honest(c, SearchDocs(c))
    BY SearchDocsHonest
  <1>3. c.tool = "docs.generate" => Honest(c, DocsGenerate(c))
    BY DocsGenerateHonest
  <1>4. c.tool \in Builds => Honest(c, Build(c))
    BY BuildHonest
  <1>5. c.tool = "database.migrate" => Honest(c, Migrate(c))
    BY MigrateHonest
  <1>6. c.tool \in Containers => Honest(c, Container(c))
    BY ContainerHonest
  <1>7. \/ c.tool \in Packages \/ c.tool = "docs.search" \/ c.tool = "docs.generate"
        \/ c.tool \in Builds \/ c.tool = "database.migrate" \/ c.tool \in Containers
    BY DEF Tier2Tools
  <1> QED
    BY <1>1, <1>2, <1>3, <1>4, <1>5, <1>6, <1>7 DEF Tier2

LEMMA Tier3Honest ==
  ASSUME NEW c \in AllCalls, Valid(c), c.tool \in Tier3Tools
  PROVE  Honest(c, Tier3(c))
  <1>1. Honest(c, InspectImage(c))
    BY InspectImageHonest
  <1>2. c.tool = "browser.open" => Honest(c, OpenPage(c))
    BY OpenPageHonest
  <1>3. c.tool \in PageActions => Honest(c, ActOnPage(c))
    BY ActOnPageHonest
  <1>4. c.tool = "browser.screenshot" => Honest(c, Screenshot(c))
    BY ScreenshotHonest
  <1>5. c.tool \in Deployments => Honest(c, Deploy(c))
    BY DeployHonest
  <1>6. \/ c.tool \in {"image.inspect", "image.compare"} \/ c.tool = "browser.open"
        \/ c.tool \in PageActions \/ c.tool = "browser.screenshot"
        \/ c.tool \in PageReads \/ c.tool \in Deployments
    BY DEF Tier3Tools
  <1> QED
    BY <1>1, <1>2, <1>3, <1>4, <1>5, <1>6, SearchesHonest DEF Tier3

LEMMA Tier4Honest ==
  ASSUME NEW c \in AllCalls, Valid(c), c.tool \in Tier4Tools
  PROVE  Honest(c, Tier4(c))
  <1>1. c.tool \in Memories => Honest(c, Memory(c))
    BY MemoryHonest
  <1>2. c.tool \in Profiles => Honest(c, Profile(c))
    BY ProfileHonest
  <1>3. \/ c.tool \in Research \/ c.tool \in Memories \/ c.tool \in Profiles
        \/ c.tool \in {"language.detect", "interaction.search"}
    BY DEF Tier4Tools
  <1> QED
    BY <1>1, <1>2, <1>3, SearchesHonest, HonestAnswers DEF Tier4

\* What Dispatch does not name falls to the first tier.
LEMMA Dispatched ==
  ASSUME NEW t \in Tools
  PROVE  \/ t \in WorkspaceReads \/ t = "workspace.apply_edits" \/ t = "terminal.run"
         \/ t = "verify.run" \/ t = "git.diff" \/ t = "git.commit" \/ t \in GitHubTools
         \/ t \in {"context.get", "context.checkpoint"}
         \/ t \in {"project.health", "git.status"}
         \/ t \in Tier2Tools \/ t \in Tier3Tools \/ t \in Tier4Tools \/ t \in Tier1Tools
  <1>1. \/ t \in Tier1Tools \/ t \in Tier2Tools \/ t \in Tier3Tools \/ t \in Tier4Tools
        \/ t \in WorkspaceReads \cup GitHubTools \cup Tests \cup Previewable
        \/ t \in {"project.health", "terminal.run", "git.status", "git.diff", "context.get",
                  "context.checkpoint", "http.request", "docs.search", "image.inspect",
                  "image.compare", "browser.open", "browser.screenshot",
                  "language.detect", "interaction.search"}
    BY DEF Tools, Tier1Tools, Tier2Tools, Tier3Tools, Tier4Tools
  <1>2. CASE t \in Tests
    BY <1>2 DEF Tests, Tier1Tools
  <1>3. CASE t \in Installs
    BY <1>3 DEF Packages, Tier2Tools
  <1>4. CASE t \in {"workspace.apply_patch", "workspace.rename", "http.request", "test.run"}
    BY <1>4 DEF Tier1Tools
  <1>5. CASE t \in {"git.branch", "git.stash"}
    BY <1>5 DEF GitTools, Tier1Tools
  <1>6. CASE t \in {"docs.generate", "docs.search", "database.migrate"}
    BY <1>6 DEF Tier2Tools
  <1>7. CASE t \in {"build.run", "container.run"}
    BY <1>7 DEF Builds, Containers, Tier2Tools
  <1>8. CASE t \in {"image.inspect", "image.compare", "browser.open", "browser.screenshot"}
    BY <1>8 DEF Tier3Tools
  <1>9. CASE t = "deploy.run"
    BY <1>9 DEF Deployments, Tier3Tools
  <1>10. CASE t \in {"memory.forget", "profile.reset", "language.detect", "interaction.search"}
    BY <1>10 DEF Memories, Profiles, Tier4Tools
  <1>11. CASE t = "github.sync"
    BY <1>11 DEF GitHubTools
  <1> QED
    BY <1>1, <1>2, <1>3, <1>4, <1>5, <1>6, <1>7, <1>8, <1>9, <1>10, <1>11 DEF Previewable

\* Every handler keeps to the approval table, to the preview and to the
\* ignore policy.
LEMMA DispatchHonest ==
  ASSUME NEW c \in AllCalls, Valid(c)
  PROVE  Honest(c, Dispatch(c))
  <1>1. Honest(c, ReadWorkspace(c)) /\ Honest(c, VerifyRun(c)) /\ Honest(c, Answers)
    BY ReadWorkspaceHonest, VerifyRunHonest, HonestAnswers
  <1>2. c.tool = "workspace.apply_edits" => Honest(c, ApplyEdits(c))
    BY ApplyEditsHonest
  <1>3. c.tool = "terminal.run" => Honest(c, TerminalRun(c))
    BY TerminalRunHonest
  <1>4. c.tool = "git.diff" => Honest(c, ShowsChanges(c))
    BY ShowsChangesHonest
  <1>5. c.tool = "git.commit" => Honest(c, GitCommit(c))
    BY GitCommitHonest
  <1>6. c.tool \in GitHubTools => Honest(c, GitHub(c))
    BY GitHubHonest
  <1>7. c.tool \in {"context.get", "context.checkpoint"} => Honest(c, Context(c))
    BY ContextHonest
  <1>8. /\ c.tool \in Tier2Tools => Honest(c, Tier2(c))
        /\ c.tool \in Tier3Tools => Honest(c, Tier3(c))
        /\ c.tool \in Tier4Tools => Honest(c, Tier4(c))
        /\ c.tool \in Tier1Tools => Honest(c, Tier1(c))
    BY Tier1Honest, Tier2Honest, Tier3Honest, Tier4Honest
  <1>9. c.tool \in Tools
    BY DEF AllCalls, Call
  <1> QED
    BY <1>1, <1>2, <1>3, <1>4, <1>5, <1>6, <1>7, <1>8, <1>9, Dispatched DEF Dispatch

LEMMA HandleHonest ==
  ASSUME NEW c \in AllCalls, Valid(c)
  PROVE  Honest(c, Handle(c))
  BY DispatchHonest, HonestNeeding DEF Handle

-----------------------------------------------------------------------------
(* The invariant of Execute.                                               *)

\* Up to its handler a call has changed and shown nothing.
Untouched == did = {} /\ shows = {}

\* A handler runs for a valid call that is approved if the table says so.
Admitted == Valid(call) /\ (RequiresApproval(call) => approved)

Stages ==
  /\ pc \in {"decode", "normalize", "authorize", "handle"} => Untouched /\ lost = {}
  /\ pc = "act" => Untouched /\ Acts(call) /\ call.tool # "git.commit"
  /\ pc \in {"add", "commit"} => /\ Acts(call) /\ call.tool = "git.commit"
                                 /\ "selected" \notin indexSeen
  /\ pc = "authorize" => Valid(call)
  /\ pc \in {"handle", "act", "add", "commit"} => Admitted

IInv == /\ TypeOK /\ call \in AllCalls /\ Stages
        /\ ChangesApproved /\ OnlyVisibleShown
        /\ CreatesNeverOverwrite /\ StagedStays

\* The handlers that take several steps act under approval, and never for a
\* preview.
LEMMA StepwiseApproved ==
  ASSUME NEW c \in AllCalls, Acts(c)
  PROVE  RequiresApproval(c) /\ c.preview # "yes"
  BY DEF Acts, Stepwise, Creates, Dry, RequiresApproval, AlwaysApproved

LEMMA Normalized ==
  ASSUME NEW c \in AllCalls
  PROVE  Normalize(c) \in AllCalls
  BY DEF AllCalls, Call, Normalize

LEMMA Initially == Init => IInv
  <1> SUFFICES ASSUME Init  PROVE IInv
    OBVIOUS
  <1>1. TypeOK
    <2>1. disk \in [Files -> Writers]
      <3>1. disk \in [Files -> {"absent", "before"}]
        BY DEF Init
      <3> QED
        BY <3>1 DEF Writers
    <2>2. approved \in BOOLEAN /\ cancelled \in BOOLEAN
      BY DEF Init
    <2>3. pc \in PC /\ seen \in Writers
      BY DEF Init, PC, Writers
    <2>4. moves \in 0 .. MaxMoves
      BY MoveAssumption DEF Init
    <2>5. /\ result \in {"none", "ok", "error"} /\ authorizer \in {"none", "asks"}
          /\ did \subseteq Effects /\ shows \subseteq PathKinds /\ lost \subseteq Files
          /\ index \subseteq StagePaths /\ staged \subseteq StagePaths
          /\ indexSeen \subseteq StagePaths
      BY DEF Init
    <2> QED
      BY <2>1, <2>2, <2>3, <2>4, <2>5 DEF TypeOK
  <1>2. call \in AllCalls
    BY CallAssumption DEF Init, AllCalls
  <1>3. Stages
    BY DEF Init, Stages, Untouched
  <1> QED
    BY <1>1, <1>2, <1>3
    DEF Init, IInv, ChangesApproved, OnlyVisibleShown, CreatesNeverOverwrite,
        StagedStays

LEMMA DecodeKeeps == IInv /\ Decode => IInv'
  BY DEF IInv, TypeOK, PC, Stages, Untouched, Admitted, Decode, End, user, ledger, looked,
         ChangesApproved, OnlyVisibleShown, CreatesNeverOverwrite, StagedStays,
         Creates, Acts, Stepwise

LEMMA CheckKeeps == IInv /\ Check => IInv'
  <1> SUFFICES ASSUME IInv, Check  PROVE IInv'
    OBVIOUS
  <1>1. /\ pc = "normalize" /\ call' = Normalize(call)
        /\ \/ pc' = "authorize" /\ Valid(call') /\ result' = result
           \/ pc' = "done" /\ result' = "error"
        /\ UNCHANGED <<authorizer, approved, ledger, cancelled, looked, user>>
    BY DEF Check, End
  <1>2. Untouched /\ lost = {}
    BY <1>1 DEF IInv, Stages
  <1>3. TypeOK'
    BY <1>1 DEF IInv, TypeOK, PC, user, ledger, looked
  <1>4. call' \in AllCalls
    BY <1>1, Normalized DEF IInv
  <1>5. Stages'
    BY <1>1, <1>2 DEF Stages, Untouched, user, ledger, looked
  <1> QED
    BY <1>1, <1>2, <1>3, <1>4, <1>5
    DEF IInv, Untouched, user, ledger, looked, ChangesApproved, OnlyVisibleShown,
        CreatesNeverOverwrite, StagedStays

LEMMA AuthorizeKeeps == IInv /\ Authorize => IInv'
  <1> SUFFICES ASSUME IInv, Authorize  PROVE IInv'
    OBVIOUS
  <1>1. /\ pc = "authorize"
        /\ UNCHANGED <<call, authorizer, ledger, cancelled, looked, user>>
    BY DEF Authorize
  <1>2. Untouched /\ lost = {} /\ Valid(call)
    BY <1>1 DEF IInv, Stages
  <1>3. \/ pc' = "handle" /\ result' = result /\ approved' = RequiresApproval(call)
        \/ pc' = "done" /\ result' = "error" /\ approved' = approved
    BY DEF Authorize, End
  <1>4. RequiresApproval(call) \in BOOLEAN
    BY DEF RequiresApproval
  <1>5. TypeOK'
    BY <1>1, <1>3, <1>4 DEF IInv, TypeOK, PC, user, ledger, looked
  <1>6. pc' = "handle" => Admitted'
    BY <1>1, <1>2, <1>3 DEF Admitted
  <1>7. Stages'
    BY <1>1, <1>2, <1>3, <1>6 DEF Stages, Untouched, user, ledger, looked
  <1> QED
    BY <1>1, <1>2, <1>5, <1>7
    DEF IInv, Untouched, user, ledger, looked, ChangesApproved, OnlyVisibleShown,
        CreatesNeverOverwrite, StagedStays

LEMMA HandleAtOnceKeeps == IInv /\ HandleAtOnce => IInv'
  <1> SUFFICES ASSUME IInv, HandleAtOnce  PROVE IInv'
    OBVIOUS
  <1>1. PICK o \in Handle(call) :
          /\ did' = did \cup o.did /\ shows' = shows \cup o.shows
          /\ pc' = "done" /\ result' \in {"ok", "error"}
    BY DEF HandleAtOnce, End
  <1>2. /\ pc = "handle"
        /\ UNCHANGED <<call, authorizer, approved, cancelled, looked, user>>
    BY DEF HandleAtOnce
  <1>3. HonestOutcome(call, o) /\ Admitted
    BY <1>2, HandleHonest DEF IInv, Stages, Admitted, Honest
  <1>4. Untouched /\ lost = {}
    BY <1>2 DEF IInv, Stages
  <1>5. did' = o.did /\ shows' = o.shows
    BY <1>1, <1>4 DEF Untouched
  <1>6. TypeOK'
    BY <1>1, <1>2, <1>3, <1>5 DEF IInv, TypeOK, PC, HonestOutcome, user, looked
  <1>7. ChangesApproved' /\ OnlyVisibleShown'
    BY <1>2, <1>3, <1>5 DEF HonestOutcome, Admitted, ChangesApproved, OnlyVisibleShown
  <1>8. CreatesNeverOverwrite' /\ StagedStays'
    BY <1>2, <1>4 DEF IInv, CreatesNeverOverwrite, StagedStays, user, looked
  <1> QED
    BY <1>1, <1>2, <1>6, <1>7, <1>8 DEF IInv, Stages

LEMMA RefuseKeeps == IInv /\ Refuse => IInv'
  BY DEF IInv, TypeOK, PC, Stages, Untouched, Refuse, End, user, ledger, looked,
         ChangesApproved, OnlyVisibleShown, CreatesNeverOverwrite, StagedStays

LEMMA LookKeeps == IInv /\ Look => IInv'
  <1> SUFFICES ASSUME IInv, Look  PROVE IInv'
    OBVIOUS
  <1>1. /\ pc = "handle" /\ pc' = "act" /\ Acts(call) /\ call.tool # "git.commit"
        /\ UNCHANGED <<call, result, authorizer, approved, ledger, cancelled, indexSeen, user>>
    BY DEF Look
  <1>2. seen' \in Writers
    BY DEF Look, IInv, TypeOK, Files, Writers
  <1>3. TypeOK'
    BY <1>1, <1>2 DEF IInv, TypeOK, PC, user, ledger, looked
  <1> QED
    BY <1>1, <1>3
    DEF IInv, Stages, Untouched, Admitted, user, ledger, looked, ChangesApproved,
        OnlyVisibleShown, CreatesNeverOverwrite, StagedStays

\* What the second step of a handler may do to the files.
LEMMA Moved ==
  ASSUME IInv, Act
  PROVE  /\ disk' \in [Files -> Writers] /\ lost' \subseteq Files
         /\ Creates(call) => lost' = lost
  <1>1. /\ disk \in [Files -> Writers] /\ lost \subseteq Files
        /\ "path" \in Files /\ "destination" \in Files /\ "tool" \in Writers
        /\ "absent" \in Writers
    BY DEF IInv, TypeOK, Files, Writers
  <1>2. Replace("path") => disk' \in [Files -> Writers] /\ lost' \subseteq Files
    BY <1>1 DEF Replace
  <1>3. MoveOver => disk' \in [Files -> Writers] /\ lost' \subseteq Files
    BY <1>1 DEF MoveOver
  <1>4. CreateNew => /\ disk' \in [Files -> Writers] /\ lost' \subseteq Files
                     /\ lost' = lost
    BY <1>1, <1>2 DEF CreateNew, Replace
  <1>5. Creates(call) => call.tool # "workspace.rename"
    BY DEF Creates
  <1>6. CASE Creates(call)
    BY <1>4, <1>5, <1>6 DEF Act
  <1>7. CASE ~Creates(call) /\ call.tool = "workspace.rename"
    BY <1>3, <1>7 DEF Act
  <1>8. CASE ~Creates(call) /\ call.tool # "workspace.rename"
    BY <1>1, <1>2, <1>8 DEF Act
  <1> QED
    BY <1>6, <1>7, <1>8

LEMMA ActKeeps == IInv /\ Act => IInv'
  <1> SUFFICES ASSUME IInv, Act  PROVE IInv'
    OBVIOUS
  <1>1. /\ pc = "act" /\ pc' = "done" /\ result' \in {"ok", "error"}
        /\ did' = did \/ did' = did \cup {"files"}
        /\ UNCHANGED <<call, authorizer, approved, cancelled, looked, shows, index,
                       staged, moves>>
    BY DEF Act, End
  <1>2. approved /\ call.preview # "yes" /\ Untouched
    BY <1>1, StepwiseApproved DEF IInv, Stages, Admitted
  <1>3. did' \subseteq Effects
    BY <1>1 DEF IInv, TypeOK, Effects
  <1>4. TypeOK'
    BY <1>1, <1>3, Moved DEF IInv, TypeOK, PC, looked
  <1>5. ChangesApproved' /\ OnlyVisibleShown' /\ StagedStays'
    BY <1>1, <1>2 DEF IInv, ChangesApproved, OnlyVisibleShown, StagedStays, looked
  <1>6. CreatesNeverOverwrite'
    BY <1>1, Moved DEF IInv, CreatesNeverOverwrite, Creates
  <1> QED
    BY <1>1, <1>4, <1>5, <1>6 DEF IInv, Stages

LEMMA LookAtIndexKeeps == IInv /\ LookAtIndex => IInv'
  <1> SUFFICES ASSUME IInv, LookAtIndex  PROVE IInv'
    OBVIOUS
  <1>1. /\ pc = "handle" /\ Acts(call) /\ call.tool = "git.commit" /\ indexSeen' = index
        /\ \/ pc' = "done" /\ result' = "error"
           \/ pc' = "add" /\ result' = result /\ "selected" \notin index
        /\ UNCHANGED <<call, authorizer, approved, ledger, cancelled, seen, user>>
    BY DEF LookAtIndex, End
  <1>2. TypeOK'
    BY <1>1 DEF IInv, TypeOK, PC, user, ledger, looked
  <1>3. Stages'
    BY <1>1 DEF IInv, Stages, Admitted
  <1>4. StagedStays'
    BY <1>1 DEF IInv, StagedStays, user
  <1> QED
    BY <1>1, <1>2, <1>3, <1>4
    DEF IInv, user, ledger, looked, ChangesApproved, OnlyVisibleShown, CreatesNeverOverwrite

LEMMA AddKeeps == IInv /\ Add => IInv'
  <1> SUFFICES ASSUME IInv, Add  PROVE IInv'
    OBVIOUS
  <1>1. /\ pc = "add" /\ pc' \in {"commit", "done"} /\ result' \in {result, "error"}
        /\ index \subseteq index' /\ index' \subseteq index \cup {"selected"}
        /\ did' \subseteq did \cup {"history"}
        /\ UNCHANGED <<call, authorizer, approved, cancelled, looked, shows, disk,
                       staged, lost, moves>>
    BY DEF Add, End
  <1>2. Acts(call) /\ call.tool = "git.commit" /\ Admitted /\ "selected" \notin indexSeen
    BY <1>1 DEF IInv, Stages
  <1>3. approved /\ call.preview # "yes"
    BY <1>2, StepwiseApproved DEF IInv, Admitted
  <1>4. TypeOK'
    BY <1>1 DEF IInv, TypeOK, PC, Effects, StagePaths, looked
  <1>5. Stages'
    BY <1>1, <1>2 DEF Stages, Admitted, looked
  <1>6. StagedStays'
    BY <1>1 DEF IInv, StagedStays, looked
  <1> QED
    BY <1>1, <1>3, <1>4, <1>5, <1>6
    DEF IInv, ChangesApproved, OnlyVisibleShown, CreatesNeverOverwrite

\* Only a path that was not staged when the handler looked leaves the index.
LEMMA CommitKeeps == IInv /\ Commit => IInv'
  <1> SUFFICES ASSUME IInv, Commit  PROVE IInv'
    OBVIOUS
  <1>1. /\ pc = "commit" /\ pc' = "done" /\ result' \in {"ok", "error"}
        /\ index' \subseteq index /\ index \ {"selected"} \subseteq index'
        /\ UNCHANGED <<call, authorizer, approved, cancelled, looked, did, shows, disk,
                       staged, lost, moves>>
    BY DEF Commit, CommitsPaths, End
  <1>2. "selected" \notin indexSeen
    BY <1>1 DEF IInv, Stages
  <1>3. TypeOK'
    BY <1>1 DEF IInv, TypeOK, PC, looked
  <1>4. StagedStays'
    BY <1>1, <1>2 DEF IInv, StagedStays, looked
  <1> QED
    BY <1>1, <1>3, <1>4
    DEF IInv, Stages, ChangesApproved, OnlyVisibleShown, CreatesNeverOverwrite

LEMMA CancelKeeps == IInv /\ Cancel => IInv'
  BY DEF IInv, TypeOK, Stages, Untouched, Admitted, Cancel, user, ledger, looked,
         ChangesApproved, OnlyVisibleShown, CreatesNeverOverwrite, StagedStays

LEMMA UserKeeps == IInv /\ (UserSaves \/ UserStages) => IInv'
  <1> SUFFICES ASSUME IInv, UserSaves \/ UserStages  PROVE IInv'
    OBVIOUS
  <1>1. /\ moves' \in 0 .. MaxMoves
        /\ UNCHANGED <<pc, call, result, authorizer, approved, ledger, cancelled, looked, lost>>
    BY MoveAssumption DEF UserSaves, UserStages, IInv, TypeOK
  <1>2. disk' \in [Files -> Writers] /\ index' \subseteq StagePaths
        /\ staged' \subseteq StagePaths
    BY DEF UserSaves, UserStages, IInv, TypeOK, Writers
  <1>3. TypeOK'
    BY <1>1, <1>2 DEF IInv, TypeOK, ledger, looked
  <1>4. StagedStays'
    BY DEF UserSaves, UserStages, IInv, StagedStays, looked
  <1> QED
    BY <1>1, <1>3, <1>4
    DEF IInv, Stages, Untouched, Admitted, ledger, looked, ChangesApproved,
        OnlyVisibleShown, CreatesNeverOverwrite

LEMMA Inductive == IInv /\ [Next]_vars => IInv'
  <1>1. IInv /\ UNCHANGED vars => IInv'
    BY DEF IInv, TypeOK, Stages, Untouched, Admitted, vars, user, ledger, looked,
           ChangesApproved, OnlyVisibleShown, CreatesNeverOverwrite, StagedStays
  <1> QED
    BY <1>1, DecodeKeeps, CheckKeeps, AuthorizeKeeps, HandleAtOnceKeeps, RefuseKeeps,
       LookKeeps, ActKeeps, LookAtIndexKeeps, AddKeeps, CommitKeeps, CancelKeeps, UserKeeps
    DEF Next

LEMMA Invariant == Spec => []IInv
  BY Initially, Inductive, PTL DEF Spec

-----------------------------------------------------------------------------
(* The theorems.                                                           *)

\* A call, what it did and what it showed keep their types: the handlers have
\* no effect and no kind of path but those listed (tool_registry.go, Execute).
THEOREM TypeCorrect == Spec => []TypeOK
  <1>1. IInv => TypeOK
    BY DEF IInv
  <1> QED
    BY <1>1, Invariant, PTL

\* Nothing of the project, its history, a remote, a page or an account changes
\* but under the user's approval of this call, and a preview changes nothing:
\* toolRequiresApproval and all the handlers agree, for every tool and all its
\* arguments.  Free are FuzeCLI's own records (profile.update among them), the
\* project's checks and the visit of a page.
THEOREM AllChangesApproved == Spec => []ChangesApproved
  <1>1. IInv => ChangesApproved
    BY DEF IInv
  <1> QED
    BY <1>1, Invariant, PTL

\* What a call shows is what its tool may show: a tool that looks its paths up
\* with ToolRuntime.resolve returns nothing of a file that the ignore policy
\* hides, of .git or .aicli or of anything outside, unless the path leads below
\* a symbolic link; a diff nothing from outside.
THEOREM HiddenStaysHidden == Spec => []OnlyVisibleShown
  <1>1. IInv => OnlyVisibleShown
    BY DEF IInv
  <1> QED
    BY <1>1, Invariant, PTL

\* A tool that creates a file does not write over one that the user saved
\* between its look and its write (docsGenerate, browserScreenshot).
THEOREM CreationsKeepFiles == Spec => []CreatesNeverOverwrite
  <1>1. IInv => CreatesNeverOverwrite
    BY DEF IInv
  <1> QED
    BY <1>1, Invariant, PTL

\* git.commit takes nothing out of the index that the user put there, but a
\* selected path staged after the handler has read the index (gitCommit).
THEOREM CommitsKeepTheIndex == Spec => []StagedStays
  <1>1. IInv => StagedStays
    BY DEF IInv
  <1> QED
    BY <1>1, Invariant, PTL
=============================================================================
