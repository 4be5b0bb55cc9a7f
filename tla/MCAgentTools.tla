---------------------------- MODULE MCAgentTools ----------------------------
(* Every tool, with each of its actions, previewed or not.                  *)
EXTENDS AgentTools

\* AgentToolCapabilities: what the Studio and the terminal give the agent.
MCCapabilities == {"read_workspace", "write_workspace", "run_tests", "run_build",
                   "run_git", "network_access", "install_dependency"}

C(tool, action, preview, alias, path, ids, confirm) ==
  [tool |-> tool, action |-> action, preview |-> preview, alias |-> alias,
   path |-> path, ids |-> ids, confirm |-> confirm]

MCCalls ==
  {C(t, x, p, al, f, 0, FALSE) : t \in Tools, x \in {"unset"}, p \in {"unset", "yes"},
     al \in BOOLEAN, f \in PathArguments \cup {"unset"}}
  \cup UNION {{C(t, x, p, FALSE, "source", 0, FALSE) : x \in Actions(t),
                p \in {"unset", "yes", "no"}} : t \in Tools}
  \cup UNION {{C(t, x, "unset", TRUE, "source", 0, FALSE) : x \in Actions(t)} : t \in Aliased}
  \cup {C(t, "unset", p, FALSE, "unset", i, b) : t \in {"memory.forget", "profile.reset"},
         p \in {"unset", "yes", "no"}, i \in {0, 5, 6}, b \in BOOLEAN}

\* A search of the whole workspace.
MCSearch == {C("workspace.search_code", "unset", "unset", FALSE, "unset", 0, FALSE)}
=============================================================================
