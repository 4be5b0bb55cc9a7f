---------------------------- MODULE Verification ----------------------------
(***************************************************************************)
(* verify.Detect (internal/verify): which commands check a workspace after *)
(* an edit, and what their outcome may be.  Every command passes through   *)
(* security.Authorize (internal/security), which knows the exact forms it  *)
(* allows.                                                                 *)
(*                                                                         *)
(* The workspace is its marker files, its package.json and whether the     *)
(* edit under check is sound: a tool that runs fails an unsound edit, and  *)
(* may fail a sound one too (it is missing, or it times out).              *)
(***************************************************************************)
EXTENDS Sequences, FiniteSets, SequencesExt

CONSTANTS Paths,    \* the workspace files an edit may name
          Ext,      \* the extension of each
          Projects  \* the workspaces

ASSUME PathsAssumption == IsFiniteSet(Paths)
ASSUME ProjectsAssumption ==
  \A w \in Projects : w.manifest \in {"ok", "invalid", "unreadable"}
ASSUME ExtAssumption == Ext \in [Paths -> {"go", "js", "php", "py", "txt"}]

VARIABLE project    \* the workspace the commands run in

Command(name, args) == [name |-> name, args |-> args]

(* security.Authorize, for the commands Detect issues; "FILE" stands for a *)
(* workspace path.                                                         *)
Authorize(c) ==
  \/ c.name = "go" /\ c.args \in {<<"test", "./...">>, <<"vet", "./...">>}
  \/ c.name = "gofmt" /\ c.args = <<"-l", ".">>
  \/ c.name \in {"npm", "pnpm", "bun"}
     /\ c.args \in {<<"run", "test">>, <<"run", "typecheck">>}
  \/ c.name = "yarn" /\ c.args \in {<<"test">>, <<"typecheck">>}
  \/ c.name = "php" /\ c.args = <<"-l", "FILE">>
  \/ c.name = "python" /\ c.args = <<"-m", "py_compile">>

IgnoresExit(c, sound) ==  \* as a bug would
  IF Authorize(c) THEN {"passed", "failed"} ELSE {"failed"}

Run(c, sound) == IF Authorize(c) /\ sound THEN {"passed", "failed"} ELSE {"failed"}

\* The checks run in order and the first that fails is the result.
RunAll(cs, sound) ==
  {IF \A i \in DOMAIN cs : r[i] = "passed" THEN "passed" ELSE "failed" :
     r \in {f \in [DOMAIN cs -> {"passed", "failed"}] :
              \A i \in DOMAIN cs : f[i] \in Run(cs[i], sound)}}

GoChecks == <<Command("gofmt", <<"-l", ".">>), Command("go", <<"test", "./...">>),
              Command("go", <<"vet", "./...">>)>>

(* The declared manager if its lock file is there, else the first lock.    *)
Locks == << <<"package-lock.json", "npm">>, <<"pnpm-lock.yaml", "pnpm">>,
            <<"yarn.lock", "yarn">>, <<"bun.lock", "bun">>, <<"bun.lockb", "bun">> >>

Locked(files) == SelectSeq(Locks, LAMBDA l : l[1] \in files)

DetectNodeManager ==
  LET locked == Locked(project.files)
  IN  IF locked = << >> THEN "none"
      ELSE IF \E i \in DOMAIN locked : locked[i][2] = project.declared THEN project.declared
      ELSE locked[1][2]

NodeManagerCommand(manager, script) ==
  Command(manager, IF manager = "yarn" THEN <<script>> ELSE <<"run", script>>)

NodeScripts == IF "test" \in project.scripts THEN <<"test">>
               ELSE IF {"tsconfig.json"} \subseteq project.files /\ "typecheck" \in project.scripts
               THEN <<"typecheck">> ELSE << >>

NothingToRun == DetectNodeManager = "none" \/ NodeScripts = << >>

VerifyNode(sound) ==
  CASE project.manifest = "unreadable" -> {"error"}
    [] project.manifest = "invalid" -> {"failed"}
    [] project.manifest = "ok" /\ NothingToRun -> {"passed"}
    [] OTHER -> Run(NodeManagerCommand(DetectNodeManager, NodeScripts[1]), sound)

\* The touched files of one extension, each on its own; a file the edit
\* deleted does not lint.
Lint(c, extension, touched, deleted, sound) ==
  LET linted == {p \in touched : Ext[p] = extension}
  IN  IF linted = {} THEN {"passed"}
      ELSE IF linted \cap deleted # {} THEN {"failed"} ELSE Run(c, sound)

\* The first marker file that is there decides.
Toolchain ==
  IF "go.mod" \in project.files THEN "go"
  ELSE IF "package.json" \in project.files THEN "node"
  ELSE IF "composer.json" \in project.files THEN "php"
  ELSE IF {"requirements.txt", "pyproject.toml"} \cap project.files # {} THEN "python"
  ELSE "none"

Detect(touched, deleted, sound) ==
  CASE Toolchain = "go" -> RunAll(GoChecks, sound)
    [] Toolchain = "node" -> VerifyNode(sound)
    [] Toolchain = "php" ->
         Lint(Command("php", <<"-l", "FILE">>), "php", touched, deleted, sound)
    [] Toolchain = "python" ->
         Lint(Command("python", <<"-m", "py_compile", "FILE">>), "py", touched, deleted, sound)
    [] OTHER -> {"passed"}

\* Nothing in the workspace checks these files.
Unchecked(touched) ==
  CASE Toolchain = "go" -> FALSE
    [] Toolchain = "node" -> project.manifest = "ok" /\ NothingToRun
    [] Toolchain = "php" -> \A p \in touched : Ext[p] # "php"
    [] Toolchain = "python" -> \A p \in touched : Ext[p] # "py"
    [] OTHER -> TRUE
=============================================================================
