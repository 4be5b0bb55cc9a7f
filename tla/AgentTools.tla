----------------------------- MODULE AgentTools -----------------------------
(***************************************************************************)
(* One call of a tool from the model's request to its result:              *)
(* ToolRegistry.Execute (internal/agent/tool_registry.go) around the       *)
(* handlers of ToolHandlers.  The handlers that look at a file and then    *)
(* act on it (docs.generate and a saved screenshot, workspace.rename,      *)
(* workspace.apply_patch, git.commit) take their steps one by one, with a  *)
(* user who saves and stages files in between.                             *)
(***************************************************************************)
EXTENDS ToolHandlers

CONSTANTS Calls,       \* the calls the model may ask for
          MaxMoves     \* what the user does meanwhile: the bound

ASSUME CallAssumption == Calls \subseteq Call(Tools)
ASSUME MoveAssumption == MaxMoves \in Nat

VARIABLES pc, call, result,
          authorizer,    \* "none", or a callback that "asks" the user
          approved,      \* the user allowed this call
          did, shows,    \* what the handler changed and returned
          cancelled,     \* the context is done
          disk,          \* who wrote the file at the call's path and at the
                         \*   destination of a rename
          seen,          \* the file as the handler read it
          lost,          \* work of the user a tool wrote over
          index,         \* paths with staged changes, of {"selected", "other"}
          indexSeen,     \* the index as git.commit read it
          staged,        \* paths the user has staged
          moves
user == <<disk, index, staged, lost, moves>>
ledger == <<did, shows>>
looked == <<seen, indexSeen>>
vars == <<pc, call, result, authorizer, approved, ledger, cancelled, looked, user>>

PC == {"decode", "normalize", "authorize", "handle", "act", "add", "commit", "done"}
Files == {"path", "destination"}
Writers == {"absent", "before", "user", "tool"}
StagePaths == {"selected", "other"}
Effects == {"files", "database", "command", "check", "packages", "container",
            "deploy", "history", "remote", "account", "visit", "page", "notes",
            "profile", "erase"}

Init ==
  /\ pc = "decode" /\ call \in Calls /\ result = "none"
  /\ authorizer \in {"none", "asks"} /\ approved = FALSE
  /\ did = {} /\ shows = {} /\ cancelled = FALSE
  /\ disk \in [Files -> {"absent", "before"}] /\ seen = "absent" /\ lost = {}
  /\ index \in SUBSET StagePaths /\ staged = index /\ indexSeen = {} /\ moves = 0

-----------------------------------------------------------------------------
(* ToolRegistry.Execute                                                    *)

End(how) == pc' = "done" /\ result' = how

\* Arguments that are no JSON object, a context that is done, an unknown
\* tool: nothing else is looked at.  Here every call names a tool.
Decode ==
  /\ pc = "decode"
  /\ IF cancelled THEN End("error") ELSE pc' = "normalize" /\ UNCHANGED result
  /\ UNCHANGED <<call, authorizer, approved, ledger, cancelled, looked, user>>

Check ==
  /\ pc = "normalize"
  /\ call' = Normalize(call)
  /\ IF Valid(Normalize(call)) THEN pc' = "authorize" /\ UNCHANGED result
                               ELSE End("error")
  /\ UNCHANGED <<authorizer, approved, ledger, cancelled, looked, user>>

\* The callback of both callers lets a call through that needs no approval and
\* asks the user about the others; without a callback those are refused.
Authorize ==
  /\ pc = "authorize"
  /\ \/ /\ ~cancelled /\ RequiresApproval(call) => authorizer = "asks"
        /\ approved' = RequiresApproval(call)
        /\ pc' = "handle" /\ UNCHANGED result
     \/ /\ cancelled \/ RequiresApproval(call)
        /\ End("error") /\ UNCHANGED approved
  /\ UNCHANGED <<call, authorizer, ledger, cancelled, looked, user>>

\* The handlers whose steps are told apart below.
Creates(c) == \/ c.tool = "docs.generate"
              \/ c.tool = "browser.screenshot" /\ c.path # "unset"
Stepwise(c) == Creates(c) \/ c.tool \in {"workspace.rename",
                                         "workspace.apply_patch", "git.commit"}
Acts(c) == Stepwise(c) /\ ~Dry(c, FALSE) /\ \E o \in Handle(c) : o.did # {}

HandleAtOnce ==
  /\ pc = "handle" /\ ~Acts(call)
  /\ \E o \in Handle(call) :
       /\ did' = did \cup o.did /\ shows' = shows \cup o.shows
       \* A result that is too large is an error after the fact.
       /\ \E fits \in BOOLEAN : End(IF o.ok /\ fits THEN "ok" ELSE "error")
  /\ UNCHANGED <<call, authorizer, approved, cancelled, looked, user>>

-----------------------------------------------------------------------------
(* The handlers that look first.                                           *)

Refuse == pc = "handle" /\ Acts(call) /\ End("error")
          /\ UNCHANGED <<call, authorizer, approved, ledger, cancelled, looked, user>>

Replace(f) ==
  /\ disk' = [disk EXCEPT ![f] = "tool"]
  /\ lost' = IF disk[f] = "user" /\ seen # "user" THEN lost \cup {f} ELSE lost

\* Stat says that there is no file yet (docsGenerate, browserScreenshot), Lstat
\* that there is none at the destination (rename); applyPatch reads the file.
Look ==
  /\ pc = "handle" /\ Acts(call) /\ call.tool # "git.commit"
  /\ CASE Creates(call) -> disk["path"] = "absent" /\ seen' = "absent"
       [] call.tool = "workspace.rename" ->
            disk["path"] # "absent" /\ disk["destination"] = "absent" /\ seen' = "absent"
       [] OTHER -> disk["path"] # "absent" /\ seen' = disk["path"]
  /\ pc' = "act"
  /\ UNCHANGED <<call, result, authorizer, approved, ledger, cancelled, indexSeen, user>>

CreateTruncates == Replace("path")
\* O_EXCL: a file that has come meanwhile is an error; a write that fails
\* removes the file.
CreateNew ==
  IF disk["path"] # "absent" THEN UNCHANGED <<disk, lost>>
  ELSE Replace("path") \/ UNCHANGED <<disk, lost>>

\* os.Rename puts the source in the place of whatever is there.
MoveOver ==
  IF disk["path"] = "absent" THEN UNCHANGED <<disk, lost>>
  ELSE /\ disk' = [disk EXCEPT !["path"] = "absent", !["destination"] = disk["path"]]
       /\ lost' = IF disk["destination"] = "user" THEN lost \cup {"destination"} ELSE lost

Act ==
  /\ pc = "act"
  /\ CASE Creates(call) -> CreateNew
       [] call.tool = "workspace.rename" -> MoveOver
       [] OTHER -> Replace("path") \/ UNCHANGED <<disk, lost>>
  /\ did' = IF disk' = disk THEN did ELSE did \cup {"files"}
  /\ End(IF disk' = disk THEN "error" ELSE "ok")
  /\ UNCHANGED <<call, authorizer, approved, cancelled, looked, shows, index,
                 staged, moves>>

\* gitCommit: a selected path that is staged already is refused.
LookAtIndex ==
  /\ pc = "handle" /\ Acts(call) /\ call.tool = "git.commit"
  /\ indexSeen' = index
  /\ IF "selected" \in index THEN End("error") ELSE pc' = "add" /\ UNCHANGED result
  /\ UNCHANGED <<call, authorizer, approved, ledger, cancelled, seen, user>>

Add ==
  /\ pc = "add"
  /\ \/ /\ index' = index \cup {"selected"} /\ pc' = "commit"
        /\ did' = did \cup {"history"} /\ UNCHANGED result
     \/ End("error") /\ UNCHANGED <<index, did>>
  /\ UNCHANGED <<call, authorizer, approved, cancelled, looked, shows, disk,
                 staged, lost, moves>>

\* Without the paths after "--" git commits the whole index.
CommitsIndex == index
CommitsPaths == index \cap {"selected"}

\* A commit that fails, at a hook for one, leaves the path in the index.
Commit ==
  /\ pc = "commit"
  /\ \/ index' = index \ CommitsPaths /\ End("ok")
     \/ End("error") /\ UNCHANGED index
  /\ UNCHANGED <<call, authorizer, approved, cancelled, looked, did, shows, disk,
                 staged, lost, moves>>

-----------------------------------------------------------------------------
(* Meanwhile                                                               *)

Cancel == /\ ~cancelled /\ pc # "done" /\ cancelled' = TRUE
          /\ UNCHANGED <<pc, call, result, authorizer, approved, ledger, looked, user>>

UserSaves == /\ moves < MaxMoves /\ pc # "done" /\ moves' = moves + 1
             /\ \E f \in Files : disk' = [disk EXCEPT ![f] = "user"]
             /\ UNCHANGED <<pc, call, result, authorizer, approved, ledger,
                            cancelled, looked, lost, index, staged>>
UserStages == /\ moves < MaxMoves /\ pc # "done" /\ moves' = moves + 1
              /\ \E p \in StagePaths : /\ index' = index \cup {p}
                                       /\ staged' = staged \cup {p}
              /\ UNCHANGED <<pc, call, result, authorizer, approved, ledger,
                             cancelled, looked, lost, disk>>

Next == \/ Decode \/ Check \/ Authorize \/ HandleAtOnce \/ Refuse \/ Look \/ Act
        \/ LookAtIndex \/ Add \/ Commit \/ Cancel \/ UserSaves \/ UserStages
Spec == Init /\ [][Next]_vars

-----------------------------------------------------------------------------
TypeOK ==
  /\ pc \in PC /\ result \in {"none", "ok", "error"} /\ approved \in BOOLEAN
  /\ authorizer \in {"none", "asks"} /\ cancelled \in BOOLEAN
  /\ did \subseteq Effects /\ shows \subseteq PathKinds
  /\ disk \in [Files -> Writers] /\ seen \in Writers /\ lost \subseteq Files
  /\ index \subseteq StagePaths /\ staged \subseteq StagePaths
  /\ indexSeen \subseteq StagePaths /\ moves \in 0 .. MaxMoves

\* What the handlers do without asking: FuzeCLI's own records, the stored
\* profile among them (profile.update merges what the model says into it), the
\* project's own checks, and the visit of a page.
Unguarded == {"notes", "profile", "check", "visit"}

\* Whatever else a tool changes (the project's files, database and history, a
\* remote, a page, an account, what runs on the machine) and whatever it erases
\* of the profile or of more than five memories, it does under the user's
\* approval of this very call: the table of toolRequiresApproval and the code of
\* the handlers agree for every tool and every action.  A call that asks for a
\* preview, in the current spelling or an older one, changes nothing at all.
ChangesApproved ==
  /\ did \subseteq Unguarded \/ approved
  /\ call.preview = "yes" => did = {}

\* The tools that return text they did not look up by a resolved path: the
\* searches read what a walk meets, git and FuzeCLI's records are read past
\* resolve.
Searches == {"workspace.search_code", "workspace.find_references"}
Diffs == {"git.diff", "git.show"}
RecordReads == {"context.get", "memory.recall", "memory.list", "profile.get",
                "profile.update"}
MayShow(c) ==
  {"source"} \cup (IF c.tool \in Searches \/ c.path = "linked" THEN PathKinds ELSE {})
             \cup (IF c.tool \in Diffs THEN {"ignored", "protected"} ELSE {})
             \cup (IF c.tool \in RecordReads THEN {"protected"} ELSE {})

\* Every other tool, with every path but one below a symbolic link, returns the
\* content of no file that the ignore policy hides, of .git or .aicli, or of
\* anything outside; a diff shows nothing from outside, and FuzeCLI's records
\* are all that is shown of .aicli.
OnlyVisibleShown == shows \subseteq MayShow(call)

\* A path is validated, "rejecting traversal, absolute paths, and symlink
\* escapes" (README.md:42): no tool returns the content of a file outside the
\* workspace.
SymlinkEscapesRejected == "outside" \notin shows

\* A tool that creates a file never writes over one the user saved after it
\* looked.
CreatesNeverOverwrite == Creates(call) => lost = {}

\* git.commit leaves alone what the user has staged, before the call or during
\* it: other paths stay staged whenever they came, and a selected path that was
\* staged when the handler read the index is neither committed nor staged anew.
StagedStays == indexSeen \cup (staged \ {"selected"}) \subseteq index
=============================================================================
