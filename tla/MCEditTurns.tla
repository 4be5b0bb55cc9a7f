---------------------------- MODULE MCEditTurns ----------------------------
(* EditTurns with three files: project plans whose order is the reverse of   *)
(* their dependencies, with a cycle, with a file the planner calls completed *)
(* and two that do not parse; one workspace of each toolchain.               *)
EXTENDS EditTurns

MCPaths == {"a", "b", "x"}
MCExt == [p \in MCPaths |-> IF p = "a" THEN "py" ELSE IF p = "b" THEN "php" ELSE "txt"]

MCWorkspace(files, scripts, manager, manifest) ==
  [files |-> files, scripts |-> scripts, declared |-> manager, manifest |-> manifest]

MCProjects ==
  {MCWorkspace({"go.mod"}, {}, "", "ok"),
   MCWorkspace({"package.json", "package-lock.json", "yarn.lock", "tsconfig.json"},
               {"typecheck"}, "yarn", "ok"),
   MCWorkspace({"package.json"}, {"test"}, "", "unreadable"),
   MCWorkspace({"composer.json"}, {}, "", "ok"),
   MCWorkspace({"requirements.txt"}, {}, "", "ok"),
   MCWorkspace({}, {}, "", "ok")}

MCManifest(files, a, b, x, done) ==
  [files |-> files, done |-> done,
   deps |-> [p \in MCPaths |-> CASE p = "a" -> a [] p = "b" -> b [] OTHER -> x]]
MCManifests == {MCManifest(<<"x", "a", "b">>, {}, {"a"}, {"b"}, {}),
                MCManifest(<<"a", "b", "x">>, {"b"}, {"a"}, {}, {}),
                MCManifest(<<"a", "b", "x">>, {}, {"x"}, {"b"}, {"a"}),
                MCManifest(<<"a", "a">>, {}, {}, {}, {}), MCManifest(<<"a">>, {"b"}, {}, {}, {})}

MCEdit(files, form, sound) == [files |-> files, form |-> form, sound |-> sound]
MCEdits == {MCEdit(f, "plain", TRUE) : f \in {{"a"}, {"b"}, {"x"}, {"a", "b"}, {"b", "x"}}}
           \cup {MCEdit({"a", "b"}, "plain", FALSE), MCEdit({"b"}, "twice", TRUE),
                 MCEdit({"a"}, "delete", TRUE), MCEdit({"x"}, "unsafe", TRUE),
                 MCEdit({}, "plain", TRUE)}

MCNegative == -1  \* as a configuration file may say

MCEntry(path, op) == [path |-> path, op |-> op]
MCTermPlans == {<<MCEntry("a", "write"), MCEntry("b", "write")>>,
                <<MCEntry("b", "delete"), MCEntry("a", "write")>>,
                <<MCEntry("a", "write"), MCEntry("a", "delete")>>,
                <<MCEntry("x", "delete")>>}
=============================================================================
