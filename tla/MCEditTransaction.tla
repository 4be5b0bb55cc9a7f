------------------------- MODULE MCEditTransaction -------------------------
(* Small instances of EditTransaction: one call with any plan over two      *)
(* paths, or two concurrent calls that edit different files.                *)
EXTENDS EditTransaction

CONSTANTS t1, t2, p1, p2, c1, c2

MCTxns == {t1, t2}
MCPaths == {p1, p2}
MCContents == {c1, c2}

MCEntries ==
  [op : {"write"}, path : MCPaths, content : MCContents]
    \cup [op : {"delete", "reject"}, path : MCPaths, content : {c1}]

\* Every plan of at most three entries over two paths, so that a path may be
\* written, deleted and written again; a rejected entry is only useful last.
MCPlans ==
  {s \in UNION {[1 .. n -> MCEntries] : n \in 0 .. 3} :
     \A i \in DOMAIN s : s[i].op = "reject" => i = Len(s) /\ s[i].path = p1}

\* Plans for one path, of one content and up to two entries.
OnePath(p) ==
  {s \in MCPlans : /\ Len(s) \in 1 .. 2
                   /\ \A i \in DOMAIN s : /\ s[i].op # "reject"
                                          /\ s[i].path = p
                                          /\ s[i].content = c1}

\* The second call is not made, or runs beside the first on its own file.
Alone == plan[t2] = <<>> /\ verifier[t2]
Beside == plan[t1] \in OnePath(p1) /\ plan[t2] \in OnePath(p2)

MCInit == Init /\ (Alone \/ Beside)

\* bound: two faults against one call, one against two
MCNext ==
  /\ Next
  /\ IF Alone THEN pc[t2] = "next" /\ pc'[t2] \in {"next", "crashed"} ELSE faults' <= 1

MCSpec == MCInit /\ [][MCNext]_vars
=============================================================================
