----------------------------- MODULE Processes -----------------------------
(***************************************************************************)
(* The child processes of the Studio server and of the agent's tools:      *)
(* runtime previews (internal/api/runtime_preview.go), project runs and    *)
(* installers (run.go, runtime_install.go), terminals, language servers    *)
(* and debug adapters (workbench.go), the GitHub CLI sign-in (github.go)   *)
(* and managed processes (internal/agent/tier1_runtime.go).                *)
(*                                                                         *)
(* A request is one HTTP call, WebSocket or tool call, with the process    *)
(* its handler starts.  A process may leave a child of its own behind that *)
(* keeps its output pipes open: killing the process does not end the       *)
(* child, and Wait, or a reader of the pipes, waits for the child too.     *)
(***************************************************************************)
EXTENDS Naturals, Sequences, FiniteSets

CONSTANTS
  MaxRequests,  \* bound: requests of a behaviour
  Kinds,        \* the kinds of request made
  Projects,     \* the project roots a preview may find
  Languages     \* the languages of the files that are run

AllKinds == {"preview", "stop-preview", "run", "install", "terminal", "lsp", "dap",
             "managed", "status", "stop", "restart", "sign-in", "github", "disconnect"}

\* sources that are nothing but an extension
Nameless == {".cob", ".f90"}

\* the cases of runSpec that differ in their arguments
AllLanguages == Nameless \cup
  {"script", "go", "rust", "c", "kotlin", "csharp", "csproj", "cobol", "fortran",
   "pascal", "uncompiled"}

ASSUME ProcessesAssumption ==
  MaxRequests \in Nat /\ Kinds \subseteq AllKinds /\ Languages \subseteq AllLanguages

Requests == 1 .. MaxRequests
Nobody == 0

VARIABLES
  asked,    \* how many requests have arrived
  req,      \* request -> its handler, its answer and its process
  lock,     \* holder of runtimePreviewManager.mu
  current,  \* runtimePreviewManager.cmd
  sessions, \* terminalManager.sessions
  items,    \* processManager.items
  codes,    \* managed processes whose exit code is recorded
  done,     \* managed processes whose done channel is closed
  signing,  \* Server.githubAuthRunning
  token,    \* github_token of the configuration
  gh        \* the GitHub CLI has a session

previewVars == <<lock, current>>
managedVars == <<items, codes, done>>
gitHubVars == <<signing, token, gh>>
vars == <<asked, req, previewVars, sessions, managedVars, gitHubVars>>

Directories == {"rust", "native", "kotlin", "csharp", "cobol", "compile", "pascal"}

Places == {"begin", "detect", "waiting", "launch", "missing", "building", "running",
           "connecting", "serving", "leaving", "reading", "stopping", "client", "ask",
           "login", "end"}

Answers == {"none", "ok", "failed", "rejected", "runtime missing", "timed out", "error",
            "started", "blocked", "unknown", "with code", "without code",
            "already exited", "stopped", "still running", "authenticated", "anonymous",
            "already running", "gh missing", "finished", "busy"}

\* a handler with its process, the temporary directory it made and the one its deferred
\* call removes, and what it has read so far
Request ==
  [kind : AllKinds \cup {"none"}, at : Places, of : 0 .. MaxRequests, answer : Answers,
   proc : {"none", "running", "exited", "reaped"},
   killed : BOOLEAN, child : BOOLEAN, late : BOOLEAN,
   temp : Directories \cup {"none"}, cleans : Directories \cup {"none"},
   seen : AllLanguages \cup {"none", "running", "exited", "personal", "disconnected"}]

Unused == [kind |-> "none", at |-> "end", of |-> Nobody, answer |-> "none", proc |-> "none",
           killed |-> FALSE, child |-> FALSE, late |-> FALSE, temp |-> "none",
           cleans |-> "none", seen |-> "none"]

TypeOK ==
  /\ asked \in 0 .. MaxRequests
  /\ req \in [Requests -> Request]
  /\ lock \in Requests \cup {Nobody} /\ current \in Requests \cup {Nobody}
  /\ sessions \subseteq Requests /\ items \subseteq Requests
  /\ done \subseteq items /\ codes \subseteq items
  /\ signing \in BOOLEAN /\ gh \in BOOLEAN
  /\ token \in {"none", "personal", "disconnected"}

Init ==
  /\ asked = 0
  /\ req = [r \in Requests |-> Unused]
  /\ lock = Nobody /\ current = Nobody
  /\ sessions = {} /\ items = {} /\ codes = {} /\ done = {}
  /\ signing = FALSE /\ gh \in BOOLEAN
  /\ token \in {"none", "personal"}

-----------------------------------------------------------------------------
(* Processes of the operating system *)

At(r, kind, step) == r <= asked /\ req[r].kind = kind /\ req[r].at = step

\* a process of r runs; whether it will leave a child behind is its own affair
Started(record, next, child) ==
  [record EXCEPT !.at = next, !.proc = "running", !.killed = FALSE, !.child = child]

Kill(p, requests) ==
  [r \in Requests |-> IF r = p /\ requests[r].proc = "running"
                      THEN [requests[r] EXCEPT !.killed = TRUE] ELSE requests[r]]

Exited(r) == req[r].proc \in {"exited", "reaped"}
PipesClosed(r) == Exited(r) /\ ~req[r].child

\* Cmd.Wait has returned, having read the output to its end
Reaped(record, next) == [record EXCEPT !.at = next, !.proc = "reaped"]

\* the process ends, by itself or because it was killed
Exit(r) ==
  /\ req[r].proc = "running"
  /\ req' = [req EXCEPT ![r].proc = "exited"]
  /\ UNCHANGED <<asked, previewVars, sessions, managedVars, gitHubVars>>

ChildExit(r) ==
  /\ req[r].child /\ Exited(r)
  /\ req' = [req EXCEPT ![r].child = FALSE]
  /\ UNCHANGED <<asked, previewVars, sessions, managedVars, gitHubVars>>

Ask(kind, of) ==
  /\ asked < MaxRequests
  /\ asked' = asked + 1
  /\ req' = [req EXCEPT ![asked'] =
               [Unused EXCEPT !.kind = kind, !.at = "begin", !.of = of]]
  /\ UNCHANGED <<previewVars, sessions, managedVars, gitHubVars>>

\* a request whose handler only moves on: nothing but its own record changes
Moves(r, record) ==
  /\ req' = [req EXCEPT ![r] = record]
  /\ UNCHANGED <<asked, previewVars, sessions, managedVars, gitHubVars>>

Answered(r, answer) == [req[r] EXCEPT !.at = "end", !.answer = answer]

-----------------------------------------------------------------------------
(* Runtime previews.  A project has the files detectRuntime looks for, the   *)
(* scripts of its package.json and whether its requirements name a framework. *)

DetectRuntime(project, requested) ==
  IF requested # "auto" THEN (IF requested \in {"php", "node", "python"} THEN requested ELSE "none")
  ELSE IF project.files \cap {"package.json", "server.js"} # {} THEN "node"
  ELSE IF "manage.py" \in project.files THEN "python"
  ELSE IF "requirements.txt" \in project.files /\ project.framework THEN "python"
  ELSE IF "app.py" \in project.files THEN "python"
  ELSE IF "index.php" \in project.files THEN "php"
  ELSE "none"

\* the node package manager: package.json's own choice, then the lock files in order
PreviewNodeManager(project) ==
  IF project.manager # "none" THEN project.manager
  ELSE IF "pnpm-lock.yaml" \in project.files THEN "pnpm" ELSE "npm"

RuntimeCommand(project, kind) ==
  CASE kind = "php" -> "php"
    [] kind = "python" -> "python"
    [] kind = "node" /\ "package.json" \notin project.files ->
         IF "server.js" \in project.files THEN "node" ELSE "none"
    [] kind = "node" /\ "package.json" \in project.files ->
         IF project.scripts # {} THEN PreviewNodeManager(project) ELSE "none"
    [] kind = "none" -> "none"

\* Start: mu is held from here to the return; the previous preview is killed
PreviewBegin(r) ==
  /\ At(r, "preview", "begin") /\ lock = Nobody
  /\ lock' = r /\ current' = Nobody
  /\ req' = [Kill(current, req) EXCEPT ![r].at = "detect"]
  /\ UNCHANGED <<asked, sessions, managedVars, gitHubVars>>

PreviewLaunch(r) ==
  /\ At(r, "preview", "detect")
  /\ \E project \in Projects, requested \in {"auto", "php", "node", "other"},
        started \in BOOLEAN, child \in BOOLEAN :
       IF RuntimeCommand(project, DetectRuntime(project, requested)) # "none" /\ started
       THEN /\ req' = [req EXCEPT ![r] = Started(@, "waiting", child)]
            /\ current' = r /\ lock' = lock
       ELSE /\ req' = [req EXCEPT ![r] = Answered(r, "failed")]
            /\ lock' = Nobody /\ current' = current
  /\ UNCHANGED <<asked, sessions, managedVars, gitHubVars>>

\* waitForPreview: anything that accepts a connection on the port will do
PreviewReady(r) ==
  /\ At(r, "preview", "waiting")
  /\ lock' = Nobody
  /\ req' = [req EXCEPT ![r] = Answered(r, "ok")]
  /\ UNCHANGED <<asked, current, sessions, managedVars, gitHubVars>>

PreviewTimeout(r) ==
  /\ At(r, "preview", "waiting")
  /\ lock' = Nobody /\ current' = Nobody
  /\ req' = [Kill(r, req) EXCEPT ![r] = [@ EXCEPT !.at = "end", !.answer = "failed"]]
  /\ UNCHANGED <<asked, sessions, managedVars, gitHubVars>>

\* the goroutine of Start waits for its process and then forgets it, if it is still the one
ClearsAny(r) == current # Nobody

IsCurrent(r) == current = r

PreviewGone(r) ==
  /\ req[r].kind = "preview" /\ req[r].proc = "exited" /\ PipesClosed(r)
  /\ lock = Nobody
  /\ req' = [req EXCEPT ![r].proc = "reaped"]
  /\ current' = IF IsCurrent(r) THEN Nobody ELSE current
  /\ UNCHANGED <<asked, lock, sessions, managedVars, gitHubVars>>

PreviewStop(r) ==
  /\ At(r, "stop-preview", "begin") /\ lock = Nobody
  /\ current' = Nobody
  /\ req' = [Kill(current, req) EXCEPT ![r] = Answered(r, "ok")]
  /\ UNCHANGED <<asked, lock, sessions, managedVars, gitHubVars>>

-----------------------------------------------------------------------------
(* Project runs and installers.  A path below the system's temporary        *)
(* directory is the sequence of its names.                                   *)

Recipe(command, args, dir) == [command |-> command, args |-> args, dir |-> dir]

\* filepath.Join and filepath.Dir
Join(dir, name) == IF name = "" THEN <<dir>> ELSE <<dir, name>>
Dir(path) == IF Len(path) = 2 THEN path[1] ELSE "temporary root"

RunSpec(language) ==
  CASE language = "script"     -> Recipe("runtime", <<"source">>, "none")
    [] language = "go"         -> Recipe("go", <<"run", "source">>, "none")
    [] language = "rust"       -> Recipe("rustc", <<"source", "-o", Join("rust", "program")>>, "rust")
    [] language = "c"          -> Recipe("cc", <<"source", "-o", Join("native", "program")>>, "native")
    [] language = "kotlin"     -> Recipe("kotlinc", <<"source", "-include-runtime", "-d",
                                                      Join("kotlin", "jar")>>, "kotlin")
    [] language = "csharp"     -> Recipe("dotnet", <<"run", "--project",
                                                     Join("csharp", "project")>>, "csharp")
    [] language = "csproj"     -> Recipe("dotnet", <<"run", "--project",
                                                     Join("workspace", "project")>>, "none")
    [] language = "cobol"      -> Recipe("cobc", <<"-x", "-o", Join("cobol", "stem"), "source">>, "cobol")
    [] language = ".cob"       -> Recipe("cobc", <<"-x", "-o", Join("cobol", ""), "source">>, "cobol")
    [] language = "fortran"    -> Recipe("gfortran", <<"source", "-o", Join("compile", "stem")>>, "compile")
    [] language = ".f90"       -> Recipe("gfortran", <<"source", "-o", Join("compile", "")>>, "compile")
    [] language = "pascal"     -> Recipe("fpc", <<"-FEpascal", "-FUpascal", "-o", "source">>, "pascal")
    [] language = "uncompiled" -> Recipe("", <<>>, "none")   \* no compiler was found

Unbuilt == {"script", "go", "csharp", "csproj", "uncompiled"}

\* the directory temporaryBuildDirectory recognises behind the arguments
DirectoryOf(path, known) == IF Dir(path) \in known THEN Dir(path) ELSE "none"

TemporaryBuildDirectory(args) ==
  CASE Len(args) >= 4 /\ args[1] = "-FEpascal" /\ args[2] = "-FUpascal" -> "pascal"
    [] Len(args) >= 4 /\ args[1] = "-x" /\ args[2] = "-o" -> DirectoryOf(args[3], {"cobol"})
    [] Len(args) >= 3 /\ args[1] # "-x" /\ args[2] = "-o" ->
         DirectoryOf(args[3], {"rust", "native", "compile"})
    [] Len(args) >= 4 /\ args[2] = "-include-runtime" /\ args[3] = "-d" ->
         DirectoryOf(args[4], {"kotlin"})
    [] Len(args) >= 3 /\ args[1] = "run" /\ args[2] = "--project" ->
         DirectoryOf(args[3], {"csharp"})
    [] OTHER -> "none"

\* a deferred call: the handler's last act
CleanUp(record) ==
  [record EXCEPT !.temp = IF record.temp = record.cleans THEN "none" ELSE record.temp]

RunEnds(record, answer) == CleanUp([record EXCEPT !.at = "end", !.answer = answer])

\* runSpec, which may fail to make or fill its directory, and the deferred removal
RunPrepare(r) ==
  /\ At(r, "run", "begin")
  /\ \/ Moves(r, Answered(r, "rejected"))
     \/ \E language \in Languages :
          LET spec == RunSpec(language) IN
          Moves(r, [req[r] EXCEPT !.at = IF spec.command = "" THEN "missing" ELSE "launch",
                                  !.temp = spec.dir,
                                  !.cleans = TemporaryBuildDirectory(spec.args),
                                  !.seen = language])

\* LookPath and Start; an installer is a command without a directory
RunLaunch(r) ==
  \/ /\ At(r, "run", "missing")
     /\ Moves(r, RunEnds(req[r], "runtime missing"))
  \/ /\ At(r, "run", "launch") \/ At(r, "install", "begin")
     /\ \/ Moves(r, RunEnds(req[r], "runtime missing"))
        \/ \E child \in BOOLEAN :
             Moves(r, Started(req[r], IF req[r].kind = "run" /\ req[r].seen \notin Unbuilt
                                      THEN "building" ELSE "running", child))

\* Cmd.Run returns: a failed or late build ends the request, a good one starts the program
RunReturns(r) ==
  /\ req[r].kind \in {"run", "install"} /\ req[r].at \in {"building", "running"}
  /\ PipesClosed(r)
  /\ \/ Moves(r, RunEnds(Reaped(req[r], "end"), IF req[r].late THEN "timed out" ELSE "failed"))
     \/ /\ req[r].at = "running" /\ ~req[r].late
        /\ Moves(r, RunEnds(Reaped(req[r], "end"), "ok"))
     \/ /\ req[r].at = "building" /\ ~req[r].late
        /\ \E child \in BOOLEAN : Moves(r, Started(req[r], "running", child))

Unlimited(r) == FALSE

\* the context of the request: two minutes for a run, ten for an installation, five
\* for a sign-in, or the client that goes away; it kills the process, not its child
Limited(r) == req[r].at \in {"building", "running", "login"} /\ req[r].proc = "running"

Deadline(r) ==
  /\ Limited(r) /\ ~req[r].late
  /\ Moves(r, [req[r] EXCEPT !.late = TRUE, !.killed = TRUE])

-----------------------------------------------------------------------------
(* Terminals, language servers and debug adapters: one WebSocket each *)

Sockets == {"terminal", "lsp", "dap"}

SocketOpen(r) ==
  /\ req[r].kind \in Sockets /\ req[r].at = "begin"
  /\ \/ Moves(r, Answered(r, "error"))
     \/ \E child \in BOOLEAN :
          /\ req' = [req EXCEPT ![r] =
                       Started(@, IF @.kind = "dap" THEN "connecting" ELSE "serving", child)]
          /\ sessions' = IF req[r].kind = "terminal" THEN sessions \cup {r} ELSE sessions
          /\ UNCHANGED <<asked, previewVars, managedVars, gitHubVars>>

\* startDAP: connected, or no listener within five seconds
DebugConnect(r) ==
  /\ At(r, "dap", "connecting")
  /\ \/ Moves(r, [req[r] EXCEPT !.at = "serving"])
     \/ /\ req' = [Kill(r, req) EXCEPT ![r] = [@ EXCEPT !.at = "end", !.answer = "error"]]
        /\ UNCHANGED <<asked, previewVars, sessions, managedVars, gitHubVars>>

\* the client closes its socket, or a write to the process fails
SocketClose(r) ==
  /\ req[r].kind \in Sockets /\ req[r].at = "serving"
  /\ Moves(r, [req[r] EXCEPT !.at = "leaving"])

\* the readers see the end of the output and close the socket; a language server's do not
SocketEnded(r) ==
  /\ req[r].kind \in {"terminal", "dap"} /\ req[r].at = "serving" /\ PipesClosed(r)
  /\ Moves(r, [req[r] EXCEPT !.at = "leaving"])

\* the deferred calls: a terminal is stopped by its context, the others are killed
SocketLeave(r) ==
  /\ req[r].kind \in Sockets /\ req[r].at = "leaving"
  /\ req' = [Kill(r, req) EXCEPT ![r].at = IF req[r].kind = "lsp" THEN "end" ELSE "waiting"]
  /\ UNCHANGED <<asked, previewVars, sessions, managedVars, gitHubVars>>

\* readers.Wait and Cmd.Wait, and the session leaves the map; a language server is never waited for
SocketReap(r) ==
  /\ req[r].kind \in {"terminal", "dap"} /\ req[r].at = "waiting" /\ PipesClosed(r)
  /\ req' = [req EXCEPT ![r] = Reaped(@, "end")]
  /\ sessions' = sessions \ {r}
  /\ UNCHANGED <<asked, previewVars, managedVars, gitHubVars>>

-----------------------------------------------------------------------------
(* Managed processes of the agent.  Every allowlisted command has arguments. *)

AuthorizeManagedProcess(args) == args # <<>>

\* stringArray keeps the strings of a decoded JSON array; p.args is a []string
StringArray(args) == IF args.decoded THEN args.values ELSE <<>>

ManagedLaunch(r, args) ==
  IF AuthorizeManagedProcess(StringArray(args))
  THEN \E child \in BOOLEAN :
         /\ req' = [req EXCEPT ![r] = [Started(@, "end", child) EXCEPT !.answer = "started"]]
         /\ items' = items \cup {r}
         /\ UNCHANGED <<asked, previewVars, sessions, codes, done, gitHubVars>>
  ELSE Moves(r, Answered(r, "blocked"))

ManagedStart(r) ==
  /\ At(r, "managed", "begin")
  /\ \E values \in {<<>>, <<"run", "dev">>} :
       ManagedLaunch(r, [decoded |-> TRUE, values |-> values])

\* the goroutine of a managed process records its exit code ...
ManagedRecord(p) ==
  /\ p \in items /\ PipesClosed(p) /\ p \notin codes
  /\ codes' = codes \cup {p}
  /\ req' = [req EXCEPT ![p].proc = "reaped"]
  /\ UNCHANGED <<asked, previewVars, sessions, items, done, gitHubVars>>

\* ... and then closes done
MayClose(p) == p \in codes

ManagedClose(p) ==
  /\ p \in items /\ p \notin done /\ MayClose(p)
  /\ done' = done \cup {p}
  /\ UNCHANGED <<asked, req, previewVars, sessions, items, codes, gitHubVars>>

\* status: whether done is closed, then under p.mu the exit code
ManagedStatus(r) ==
  /\ At(r, "status", "begin")
  /\ Moves(r, IF req[r].of \in items
              THEN [req[r] EXCEPT !.at = "reading",
                                  !.seen = IF req[r].of \in done THEN "exited" ELSE "running"]
              ELSE Answered(r, "unknown"))

ManagedReport(r) ==
  /\ At(r, "status", "reading")
  /\ Moves(r, Answered(r, IF req[r].of \in codes THEN "with code" ELSE "without code"))

\* stop and restart find the process and kill it unless it has finished ...
ManagedKill(r) ==
  /\ req[r].kind \in {"stop", "restart"} /\ req[r].at = "begin"
  /\ LET p == req[r].of IN
     IF p \notin items THEN Moves(r, Answered(r, "unknown"))
     ELSE IF p \in done /\ req[r].kind = "stop" THEN Moves(r, Answered(r, "already exited"))
     ELSE /\ req' = [Kill(IF p \in done THEN Nobody ELSE p, req) EXCEPT ![r].at = "stopping"]
          /\ UNCHANGED <<asked, previewVars, sessions, managedVars, gitHubVars>>

\* ... and wait three seconds for its end; restart then starts it from what it remembers
ManagedStopped(r) ==
  /\ req[r].kind \in {"stop", "restart"} /\ req[r].at = "stopping"
  /\ req[r].of \in done
  /\ IF req[r].kind = "stop" THEN Moves(r, Answered(r, "stopped"))
     ELSE ManagedLaunch(r, [decoded |-> FALSE, values |-> <<"run", "dev">>])

ManagedLate(r) ==
  /\ req[r].kind \in {"stop", "restart"} /\ req[r].at = "stopping"
  /\ req[r].of \notin done
  /\ Moves(r, Answered(r, "still running"))

-----------------------------------------------------------------------------
(* GitHub identity: Studio's token, its explicit disconnect, and gh's session *)

\* githubClient reads the configuration ...
GitHubRead(r) ==
  /\ req[r].kind \in {"github", "sign-in"} /\ req[r].at = "begin"
  /\ Moves(r, [req[r] EXCEPT !.seen = token, !.at = "client"])

\* ... asks gh, within three seconds, unless Studio is disconnected, and drops a token gh
\* replaces; a sign-in goes on when there is no client, session or profile
ClientAuthenticated(r) == req[r].seen # "disconnected" /\ (gh \/ req[r].seen = "personal")

GitHubClient(r) ==
  /\ req[r].kind \in {"github", "sign-in"} /\ req[r].at = "client"
  /\ \E client \in BOOLEAN, profile \in BOOLEAN :
       LET authenticated == client /\ ClientAuthenticated(r) IN
       /\ token' = IF client /\ req[r].seen = "personal" /\ gh THEN "none" ELSE token
       /\ req' = [req EXCEPT ![r] =
                    IF req[r].kind = "sign-in" /\ ~(authenticated /\ profile)
                    THEN [@ EXCEPT !.at = "ask"]
                    ELSE Answered(r, IF client /\ ~authenticated THEN "anonymous"
                                     ELSE IF client /\ profile THEN "authenticated" ELSE "error")]
  /\ UNCHANGED <<asked, previewVars, sessions, managedVars, signing, gh>>

AlwaysFree == TRUE

\* under githubAuthMu
SignInFree == ~signing

SignInBegin(r) ==
  /\ At(r, "sign-in", "ask")
  /\ \/ Moves(r, Answered(r, IF signing THEN "already running" ELSE "gh missing"))
     \/ /\ SignInFree
        /\ signing' = TRUE
        /\ req' = [req EXCEPT ![r] = Started(@, "login", FALSE)]
        /\ UNCHANGED <<asked, previewVars, sessions, managedVars, token, gh>>

\* runGitHubCLILogin: log in, set up git, clear Studio's token, check the account
SignInEnd(r, session, stored) ==
  /\ req' = [req EXCEPT ![r] = Reaped([@ EXCEPT !.answer = "finished"], "end")]
  /\ signing' = FALSE /\ gh' = session /\ token' = stored
  /\ UNCHANGED <<asked, previewVars, sessions, managedVars>>

SignInReturns(r) ==
  /\ At(r, "sign-in", "login") /\ Exited(r)
  /\ \/ \E session \in {gh, TRUE} : SignInEnd(r, session, token)
     \/ ~req[r].late /\ SignInEnd(r, TRUE, "none")

\* DELETE /v1/github/auth, under githubAuthMu throughout
Disconnect(r) ==
  /\ At(r, "disconnect", "begin")
  /\ token' = IF signing THEN token ELSE "disconnected"
  /\ req' = [req EXCEPT ![r] = Answered(r, IF signing THEN "busy" ELSE "ok")]
  /\ UNCHANGED <<asked, previewVars, sessions, managedVars, signing, gh>>

-----------------------------------------------------------------------------

Handle(r) ==
  \/ PreviewBegin(r) \/ PreviewLaunch(r) \/ PreviewReady(r) \/ PreviewTimeout(r)
  \/ PreviewGone(r) \/ PreviewStop(r)
  \/ RunPrepare(r) \/ RunLaunch(r) \/ RunReturns(r) \/ Deadline(r)
  \/ SocketOpen(r) \/ DebugConnect(r) \/ SocketEnded(r) \/ SocketLeave(r) \/ SocketReap(r)
  \/ ManagedStart(r) \/ ManagedRecord(r) \/ ManagedClose(r) \/ ManagedStatus(r)
  \/ ManagedReport(r) \/ ManagedKill(r) \/ ManagedStopped(r) \/ ManagedLate(r)
  \/ GitHubRead(r) \/ GitHubClient(r) \/ SignInBegin(r) \/ SignInReturns(r) \/ Disconnect(r)

\* a tool call on a managed process names one that was started
NewRequest ==
  \E kind \in Kinds, of \in 0 .. asked :
    /\ IF kind \in {"status", "stop", "restart"}
       THEN of # Nobody /\ req[of].kind = "managed" ELSE of = Nobody
    /\ Ask(kind, of)

Next ==
  \/ NewRequest
  \/ \E r \in Requests : Handle(r) \/ SocketClose(r) \/ Exit(r) \/ ChildExit(r)

Spec == Init /\ [][Next]_vars

\* handlers and goroutines go on, deadlines pass, and what was killed dies; a program
\* ends, a child closes its pipes and a client leaves only if they please
FairSpec ==
  /\ Spec
  /\ \A r \in Requests : WF_vars(Handle(r)) /\ WF_vars(req[r].killed /\ Exit(r))

-----------------------------------------------------------------------------
(* Properties *)

\* A process that runs and has not been told to end has somebody who will end it or
\* wait for it: a handler at work, the preview manager, or the table of managed
\* processes.  Starts, stops and the goroutines that forget a dead preview may
\* interleave (runtime_preview.go:29-93, workbench.go:150-445, tier1_runtime.go:249).
NoStrayProcess ==
  \A r \in Requests :
    req[r].proc = "running" /\ ~req[r].killed => req[r].at # "end" \/ r = current \/ r \in items

\* When a run is over, however it ended, the temporary build directory made for it is
\* gone; only that of a source which is nothing but its extension may stay, for its
\* output is the directory itself and temporaryBuildDirectory looks above it
\* (run.go:106, 150-179 against runSpec 213-340).
NoDirectoryLeft ==
  \A r \in Requests :
    req[r].at = "end" /\ req[r].temp # "none" => req[r].seen \in Nameless

\* Nothing a request started or made outlives everybody who could end or remove it,
\* but for the directories of nameless sources.
NothingLeft == NoStrayProcess /\ NoDirectoryLeft

\* One GitHub CLI sign-in at a time, and login_running says whether there is one
\* (github.go:168-178, 186-192).
OneSignIn ==
  LET logins == {r \in Requests : At(r, "sign-in", "login")} IN
  Cardinality(logins) <= 1 /\ (signing <=> logins # {})

\* Every request is answered, and a closed terminal or debugger is reaped, unless a
\* child of its process keeps the pipes open: the preview's lock is held only for a
\* bounded time and a deadline kills what does not end (run.go:97, runtime_preview.go:75).
RequestsEnd ==
  \A r \in Requests : []<>(req[r].at \in {"end", "serving"} \/ req[r].child)
=============================================================================
