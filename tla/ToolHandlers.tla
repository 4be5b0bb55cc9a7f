---------------------------- MODULE ToolHandlers ----------------------------
(***************************************************************************)
(* The agent's tools as operators (internal/agent): their definitions, the *)
(* normalisation and validation of a call's arguments, the table that says *)
(* which calls need the user's approval, and, for every tool, what its     *)
(* handler may do: the kinds of state it changes, the kinds of path whose  *)
(* content it returns, and whether it answers with an error.               *)
(***************************************************************************)
EXTENDS Integers

CONSTANT Capabilities   \* ToolRuntime.Capabilities

\* What a file is: the workspace's, one the ignore policy hides, of .git or
\* .aicli, or outside.
PathKinds == {"source", "ignored", "protected", "outside"}
\* A path argument names one of these, or a file somewhere below a directory
\* that is a symbolic link.
PathArguments == PathKinds \cup {"linked"}

\* A call's arguments, as far as the handlers' control depends on them.
\* "alias" says that the call spells its wish for a preview an older way
\* (operation: "prepare_...", commit: false, sync: false, run: false);
\* "ids" is how many memories it names.
Call(tools) ==
  [tool : tools, action : {"unset", "list", "get", "status", "create", "modify",
     "delete", "switch", "push", "pull", "apply", "pop", "drop", "start", "stop",
     "restart", "review", "comment", "merge", "update", "login_start",
     "login_status", "disconnect", "list_runs", "list_jobs", "job_logs",
     "rerun_failed", "GET", "HEAD", "POST", "PUT", "PATCH", "DELETE"},
   preview : {"unset", "yes", "no"}, alias : BOOLEAN,
   path : PathArguments \cup {"unset"}, ids : {0, 5, 6}, confirm : BOOLEAN]

-----------------------------------------------------------------------------
(* FuzeCLIToolDefinitions.  The tools whose handlers differ only in the    *)
(* data they return share a line.                                          *)

WorkspaceReads == {"workspace.list_files", "workspace.read_file",
  "workspace.search_code", "workspace.find_symbols"}
GitHubReads == {"github.search_code", "github.read_file"}
GitHubTools == {"github.auth", "github.repositories", "github.branches",
  "github.sync", "github.pull_requests", "github.issues", "github.actions"}
ManyReads == {"workspace.read_files", "workspace.find_references",
  "workspace.file_info", "workspace.tree"}
Processes == {"terminal.run_parallel", "terminal.process", "terminal.output"}
Tests == {"test.list", "test.run", "environment.inspect", "debug.analyze"}
GitTools == {"git.log", "git.show", "git.branch", "git.stash"}
Databases == {"database.inspect", "database.schema", "database.query"}
WebReads == {"web.search", "web.open"}
Installs == {"package.install", "package.update"}
Packages == Installs \cup {"package.inspect", "package.audit"}
Builds == {"build.inspect", "build.run", "api.inspect"}
Containers == {"container.inspect", "container.run"}
PageReads == {"browser.inspect", "browser.console", "browser.network"}
PageActions == {"browser.click", "browser.type", "browser.select"}
Deployments == {"deploy.inspect", "deploy.run"}
Research == {"web.search_google", "web.search_bing", "web.search_multi",
  "web.search_news", "web.search_searxng", "web.wikipedia", "web.stackexchange",
  "web.scholar", "research.learn_topic", "weather.current", "weather.forecast"}
Memories == {"memory.remember", "memory.recall", "memory.list", "memory.update",
  "memory.forget"}
Profiles == {"profile.get", "profile.update", "profile.reset", "feedback.record"}

\* The tools with a dry_run argument; every schema forbids other keys.
Previewable == Installs \cup {"workspace.apply_edits", "workspace.apply_patch",
  "workspace.rename", "verify.run", "git.commit", "git.branch", "git.stash",
  "github.sync", "test.run", "docs.generate", "build.run", "database.migrate",
  "container.run", "deploy.run", "memory.forget", "profile.reset"}

Tools == UNION {WorkspaceReads, GitHubReads, GitHubTools, ManyReads, Processes,
  Tests, GitTools, Databases, WebReads, Packages, Builds, Containers, PageReads,
  PageActions, Deployments, Research, Memories, Profiles, Previewable,
  {"project.health", "terminal.run", "git.status", "git.diff", "context.get",
   "context.checkpoint", "http.request", "docs.search", "image.inspect",
   "image.compare", "browser.open", "browser.screenshot", "language.detect",
   "interaction.search"}}

\* The values of a tool's action, operation, method or file action.
Actions(tool) ==
  CASE tool = "workspace.apply_edits" -> {"create", "modify", "delete"}
    [] tool = "github.auth" -> {"status", "login_start", "login_status", "disconnect"}
    [] tool = "github.repositories" -> {"list", "get"}
    [] tool = "github.branches" -> {"list", "create"}
    [] tool = "github.sync" -> {"pull", "push"}
    [] tool = "github.pull_requests" -> {"list", "create", "review", "comment", "merge"}
    [] tool = "github.issues" -> {"list", "create", "update", "comment"}
    [] tool = "github.actions" -> {"list_runs", "list_jobs", "job_logs", "rerun_failed"}
    [] tool = "terminal.process" -> {"start", "status", "stop", "restart"}
    [] tool = "git.branch" -> {"list", "create", "switch", "delete"}
    [] tool = "git.stash" -> {"list", "push", "apply", "pop", "drop"}
    [] tool = "http.request" -> {"GET", "HEAD", "POST", "PUT", "PATCH", "DELETE"}
    [] OTHER -> {"unset"}

NeedsPath == {"workspace.read_file", "workspace.file_info", "image.inspect",
  "image.compare", "database.schema", "database.query", "workspace.apply_edits",
  "workspace.apply_patch", "workspace.rename", "docs.generate", "database.migrate"}

-----------------------------------------------------------------------------
(* normalizeToolArguments, ValidateToolArguments                           *)

Aliased == {"workspace.apply_edits", "git.commit", "github.sync", "verify.run"}
ListsByDefault == {"github.repositories", "github.branches",
                   "github.pull_requests", "github.issues"}

Normalize(c) ==
  [c EXCEPT !.preview = IF c.alias /\ c.tool \in Aliased THEN "yes" ELSE @,
            !.alias = @ /\ c.tool \notin Aliased,
            !.action = IF @ = "unset" /\ c.tool \in ListsByDefault
                       THEN "list" ELSE @]

\* Keys that are not in the schema, a value outside its enumeration and a
\* missing required key are refused, with the action-specific rules.
Valid(c) ==
  /\ ~c.alias
  /\ c.action \in Actions(c.tool)
  /\ c.preview # "unset" => c.tool \in Previewable
  /\ c.tool \in NeedsPath => c.path # "unset"
  /\ c.tool = "git.commit" /\ c.preview # "yes" => c.path # "unset"

-----------------------------------------------------------------------------
(* toolRequiresApproval                                                    *)

AlwaysApproved == UNION {Installs, PageActions,
  {"workspace.apply_edits", "workspace.apply_patch", "workspace.rename",
   "terminal.run", "terminal.run_parallel",
   "test.run", "git.commit", "github.sync", "docs.generate", "build.run",
   "database.migrate", "container.run", "deploy.run"}}

ApprovedActions(tool) ==
  CASE tool = "terminal.process" -> {"start", "stop", "restart"}
    [] tool = "git.branch" -> {"create", "switch", "delete"}
    [] tool = "git.stash" -> Actions(tool) \ {"list"}
    [] tool = "http.request" -> Actions(tool) \ {"GET", "HEAD"}
    [] tool = "github.branches" -> {"create"}
    [] tool = "github.pull_requests" -> {"create", "review", "comment", "merge"}
    [] tool = "github.issues" -> {"create", "update", "comment"}
    [] tool = "github.actions" -> {"rerun_failed"}
    [] tool = "github.auth" -> {"login_start", "disconnect"}
    [] OTHER -> {}

\* The table as it would be without the line about a restart.
RequiresButRestart(c) ==
  /\ c.preview # "yes"
  /\ \/ c.tool \in AlwaysApproved
     \/ c.action \in ApprovedActions(c.tool) \ {"restart"}
     \/ c.tool = "browser.screenshot" /\ c.path # "unset"
     \/ c.tool = "memory.forget" /\ c.ids \notin 1 .. 5
     \/ c.tool = "profile.reset" /\ c.preview = "no"

RequiresApproval(c) ==
  /\ c.preview # "yes"
  /\ \/ c.tool \in AlwaysApproved
     \/ c.action \in ApprovedActions(c.tool)
     \/ c.tool = "browser.screenshot" /\ c.path # "unset"
     \/ c.tool = "memory.forget" /\ c.ids \notin 1 .. 5
     \/ c.tool = "profile.reset" /\ c.preview = "no"

-----------------------------------------------------------------------------
(* The handlers.  An outcome says whether the tool answered without error, *)
(* what it changed and the kinds of path whose content it returned.        *)

Outcome(ok, did, shows) == [ok |-> ok, did |-> did, shows |-> shows]
Refused == {Outcome(FALSE, {}, {})}
Answers == Refused \cup {Outcome(TRUE, {}, {})}
Content(p) == IF p = "linked" THEN PathKinds ELSE {p}
Shows(p) == Refused \cup {Outcome(TRUE, {}, {k}) : k \in Content(p)}
\* A change that happens, fails, or fails after some of it happened.
Does(e) == Refused \cup {Outcome(b, {e}, {}) : b \in BOOLEAN}

Dry(c, default) == IF c.preview = "unset" THEN default ELSE c.preview = "yes"
OnlyPreview(c, e) == IF Dry(c, FALSE) THEN Answers ELSE Does(e)
Needing(capabilities, outcomes) ==
  IF capabilities \subseteq Capabilities THEN outcomes ELSE Refused

\* ToolRuntime.resolve; first, the same without the ignore policy.
\* generation.Resolve refuses a path that is a link itself and one whose parent
\* is a link out of the workspace (kind "outside"); below any other link, and
\* deeper below that one, a path passes whatever it leads to.
ResolvesHidden(p) == p \in {"source", "linked", "ignored"}
Resolves(p) == p \in {"source", "linked"}
Resolved(c, outcomes) == IF Resolves(c.path) THEN outcomes ELSE Refused
\* An optional path is resolved when it is there.
Optional(c, outcomes) == IF c.path = "unset" THEN outcomes ELSE Resolved(c, outcomes)

-----------------------------------------------------------------------------
(* tool_runtime.go                                                         *)

\* listFiles names files and findSymbols what they declare.  searchCode walks
\* past .git, .aicli and what the policy hides, but reads what it meets without
\* resolving it: a file that is a link, or the file .git of a worktree.
Searched == UNION {Shows(k) : k \in PathKinds}

ReadWorkspace(c) ==
  CASE c.tool = "workspace.read_file" -> Resolved(c, Shows(c.path))
    [] c.tool = "workspace.search_code" -> Optional(c, Searched)
    [] OTHER -> Optional(c, Answers)

ApplyEdits(c) ==
  Resolved(c, IF Dry(c, FALSE) THEN Answers
              ELSE Needing({"write_workspace"}, Does("files")))

TerminalRun(c) == Optional(c, Does("command"))

\* Checks run without the user's approval: their commands are the project's.
VerifyRun(c) ==
  IF Dry(c, FALSE) THEN Answers ELSE Optional(c, Answers \cup Does("check"))

\* Without a path git shows every change, those of hidden files too; of a path
\* below a link it knows nothing.
ShowsChanges(c) ==
  CASE c.path = "unset" -> UNION {Shows(k) : k \in PathKinds \ {"outside"}}
    [] c.path = "linked" -> Answers
    [] OTHER -> Resolved(c, Shows(c.path))

GitCommit(c) == IF Dry(c, FALSE) THEN Answers
                ELSE Needing({"run_git"}, Resolved(c, Does("history")))

GitHubSync(c) ==
  IF Dry(c, FALSE) THEN Answers
  ELSE Needing({"run_git"}, Does(IF c.action = "push" THEN "remote" ELSE "history"))

\* Each needs a token or the GitHub CLI.
GitHub(c) ==
  CASE c.tool = "github.sync" -> GitHubSync(c)
    [] c.tool = "github.auth" ->
         IF c.action \in {"login_start", "disconnect"} THEN Does("account") ELSE Answers
    [] c.tool = "github.actions" ->
         IF c.action = "rerun_failed" THEN Does("remote") ELSE Answers
    [] c.tool \in {"github.branches", "github.pull_requests", "github.issues"} ->
         IF c.action = "list" THEN Answers ELSE Does("remote")
    [] OTHER -> Answers

\* FuzeCLI's own records under .aicli: checkpoints and the conversation here,
\* memories, profile and feedback below.
ShowsRecords == Answers \cup Shows("protected")

Context(c) == IF c.tool = "context.checkpoint" THEN Does("notes") ELSE ShowsRecords

-----------------------------------------------------------------------------
(* tier1_runtime.go                                                        *)

\* A file that cannot be read is an entry of the answer, not an error.
ReadMany(c) ==
  CASE c.tool = "workspace.read_files" ->
         IF Resolves(c.path) THEN Shows(c.path) ELSE Answers
    [] c.tool = "workspace.find_references" -> Optional(c, Searched)
    [] OTHER -> Optional(c, Answers)

PatchOrRename(c) ==
  Needing({"write_workspace"}, Resolved(c, OnlyPreview(c, "files")))

\* A parallel command that may not run is an entry of the answer.  A restart
\* stops the process before it asks whether it may start one.
Process(c) ==
  CASE c.tool = "terminal.run_parallel" ->
         Answers \cup Needing({"run_build"}, Optional(c, Does("command")))
    [] c.tool = "terminal.output" \/ c.action = "status" -> Answers
    [] c.action = "start" -> Needing({"run_build"}, Optional(c, Does("command")))
    [] OTHER -> Does("command")

RunTest(c) == IF Dry(c, FALSE) THEN Answers
              ELSE Needing({"run_tests"}, Optional(c, Does("command")))

\* A path that does not resolve, given or read in the error text, only drops
\* the excerpt.
AnalyzeDebug(c) == IF Resolves(c.path) THEN Shows(c.path) ELSE Answers

GitHistory(c) ==
  CASE c.tool = "git.log" -> Optional(c, Answers)
    [] c.tool = "git.show" -> ShowsChanges(c)
    [] c.action = "list" -> Answers
    [] OTHER -> OnlyPreview(c, "history")

OpenWeb(c) == Needing({"network_access"}, Answers)

\* A local address needs no network capability.
HTTPRequest(c) == IF c.action \in {"GET", "HEAD"} THEN Answers ELSE Does("remote")

\* Opened read-only; a query may be a SELECT or one of a list of PRAGMAs.
Database(c) ==
  CASE c.tool = "database.inspect" -> Answers
    [] c.tool = "database.schema" -> Resolved(c, Answers)
    [] c.tool = "database.query" -> Resolved(c, Shows(c.path))

-----------------------------------------------------------------------------
(* tier2_runtime.go                                                        *)

Package(c) ==
  CASE c.tool = "package.inspect" -> Answers
    [] c.tool = "package.audit" ->
         Needing({"run_build"}, Answers \cup Needing({"network_access"}, Does("check")))
    [] OTHER -> Needing({"run_build", "install_dependency"},
                  IF Dry(c, FALSE) THEN Answers
                  ELSE Needing({"network_access"}, Does("packages")))

\* What the walk meets is resolved, and the walk goes below no link.
SearchDocs(c) == Optional(c, Shows("source"))

DocsGenerate(c) ==
  Needing({"write_workspace"}, Resolved(c, OnlyPreview(c, "files")))

Build(c) ==
  CASE c.tool = "build.inspect" -> Answers
    [] c.tool = "build.run" -> Needing({"run_build"}, OnlyPreview(c, "command"))
    [] c.tool = "api.inspect" ->
         IF c.path = "unset" THEN Shows("source") ELSE Resolved(c, Shows(c.path))

\* An error rolls the transaction back, unless the SQL has ended it with a
\* COMMIT of its own.
Migrate(c) ==
  Needing({"write_workspace"}, Resolved(c, OnlyPreview(c, "database")))

Container(c) ==
  Needing({"run_build"},
    IF c.tool = "container.inspect" \/ Dry(c, FALSE) THEN Answers
    ELSE Needing({"network_access"}, Does("container")))

-----------------------------------------------------------------------------
(* tier3_runtime.go                                                        *)

InspectImage(c) == Resolved(c, Answers)

OpenPage(c) == Needing({"network_access"}, Does("visit"))
ActOnPage(c) == Does("page")
ReadPage(c) == Answers

Screenshot(c) ==
  IF c.path = "unset" THEN Answers
  ELSE Needing({"write_workspace"}, Resolved(c, Does("files")))

Deploy(c) ==
  IF c.tool = "deploy.inspect" THEN Answers
  ELSE Optional(c, IF Dry(c, FALSE) THEN Answers
                   ELSE Needing({"run_build", "network_access"}, Does("deploy")))

-----------------------------------------------------------------------------
(* tier4_runtime.go                                                        *)

SearchWeb(c) == Needing({"network_access"}, Answers)

\* What to forget is first only shown; at most five named memories go without
\* the user's approval.
Forget(c) ==
  IF Dry(c, TRUE) THEN Answers
  ELSE IF ~c.confirm THEN Refused
  ELSE Does(IF c.ids \in 1 .. 5 THEN "notes" ELSE "erase")

Memory(c) ==
  CASE c.tool = "memory.forget" -> Forget(c)
    [] c.tool \in {"memory.remember", "memory.update"} -> Does("notes")
    [] OTHER -> ShowsRecords

Profile(c) ==
  CASE c.tool = "profile.get" -> ShowsRecords
    [] c.tool = "profile.update" ->
         Does("profile") \cup {Outcome(TRUE, {"profile"}, {"protected"})}
    [] c.tool = "profile.reset" ->
         IF Dry(c, TRUE) THEN Answers ELSE IF c.confirm THEN Does("erase") ELSE Refused
    [] OTHER -> Does("notes")

-----------------------------------------------------------------------------
ReadCapability == {"workspace.read_files", "workspace.find_references",
  "workspace.file_info", "workspace.tree", "test.list", "debug.analyze",
  "docs.search", "api.inspect", "image.inspect", "image.compare",
  "database.inspect", "database.schema", "database.query", "package.inspect",
  "build.inspect", "deploy.inspect"}
GitCapability == {"git.log", "git.show", "git.branch", "git.stash"}
Required(c) == (IF c.tool \in ReadCapability THEN {"read_workspace"} ELSE {})
                 \cup (IF c.tool \in GitCapability THEN {"run_git"} ELSE {})

\* executeTier1 .. executeTier4
Tier1(c) ==
  CASE c.tool \in ManyReads -> ReadMany(c)
    [] c.tool \in {"workspace.apply_patch", "workspace.rename"} -> PatchOrRename(c)
    [] c.tool \in Processes -> Process(c)
    [] c.tool = "test.run" -> RunTest(c)
    [] c.tool = "debug.analyze" -> AnalyzeDebug(c)
    [] c.tool = "test.list" -> Optional(c, Answers)
    [] c.tool \in GitTools -> GitHistory(c)
    [] c.tool \in WebReads -> OpenWeb(c)
    [] c.tool = "http.request" -> HTTPRequest(c)
    [] c.tool \in Databases -> Database(c)
    [] c.tool \in GitHubReads \cup {"environment.inspect"} -> Answers
Tier2(c) ==
  CASE c.tool \in Packages -> Package(c)
    [] c.tool = "docs.search" -> SearchDocs(c)
    [] c.tool = "docs.generate" -> DocsGenerate(c)
    [] c.tool \in Builds -> Build(c)
    [] c.tool = "database.migrate" -> Migrate(c)
    [] c.tool \in Containers -> Container(c)
Tier3(c) ==
  CASE c.tool \in {"image.inspect", "image.compare"} -> InspectImage(c)
    [] c.tool = "browser.open" -> OpenPage(c)
    [] c.tool \in PageActions -> ActOnPage(c)
    [] c.tool = "browser.screenshot" -> Screenshot(c)
    [] c.tool \in PageReads -> ReadPage(c)
    [] c.tool \in Deployments -> Deploy(c)
Tier4(c) ==
  CASE c.tool \in Research -> SearchWeb(c)
    [] c.tool \in Memories -> Memory(c)
    [] c.tool \in Profiles -> Profile(c)
    [] c.tool \in {"language.detect", "interaction.search"} -> Answers

Tier2Tools == UNION {Packages, Builds, Containers,
  {"docs.search", "docs.generate", "database.migrate"}}
Tier3Tools == UNION {PageReads, PageActions, Deployments,
  {"image.inspect", "image.compare", "browser.open", "browser.screenshot"}}
Tier4Tools == UNION {Research, Memories, Profiles,
  {"language.detect", "interaction.search"}}

\* ToolRuntime.execute
Dispatch(c) ==
  CASE c.tool \in WorkspaceReads -> ReadWorkspace(c)
    [] c.tool = "workspace.apply_edits" -> ApplyEdits(c)
    [] c.tool = "terminal.run" -> TerminalRun(c)
    [] c.tool = "verify.run" -> VerifyRun(c)
    [] c.tool = "git.diff" -> ShowsChanges(c)
    [] c.tool = "git.commit" -> GitCommit(c)
    [] c.tool \in GitHubTools -> GitHub(c)
    [] c.tool \in {"context.get", "context.checkpoint"} -> Context(c)
    [] c.tool \in {"project.health", "git.status"} -> Answers
    [] c.tool \in Tier2Tools -> Tier2(c)
    [] c.tool \in Tier3Tools -> Tier3(c)
    [] c.tool \in Tier4Tools -> Tier4(c)
    [] OTHER -> Tier1(c)

\* With the capability a handler asks for first.
Handle(c) == Needing(Required(c), Dispatch(c))
=============================================================================
