---------------------------- MODULE MCProcesses ----------------------------
(* Processes with two requests of any kinds, each with its process and       *)
(* the goroutine that waits for it, and a project for each kind of preview.     *)
EXTENDS Processes

MCProject(files, scripts, manager, framework) ==
  [files |-> files, scripts |-> scripts, manager |-> manager, framework |-> framework]

MCProjects ==
  {MCProject({"package.json"}, {"dev"}, "none", FALSE),
   MCProject({"package.json", "pnpm-lock.yaml"}, {}, "none", FALSE),
   MCProject({"requirements.txt"}, {}, "none", TRUE),
   MCProject({"index.php"}, {}, "none", FALSE),
   MCProject({}, {}, "none", FALSE)}
=============================================================================
