----------------------------- MODULE MCAgentRun -----------------------------
(* Small instances of AgentRun.                                             *)
EXTENDS AgentRun

CONSTANTS a, b, c, p, q

MCPaths == {p, q}
MCReading == {"read_file"}
MCMutating == {"commit"}
MCEditor == "apply_edits"

C(i, tool, valid, del, wr, dry) ==
  [id |-> i, tool |-> tool, valid |-> valid, deletes |-> del, writes |-> wr,
   dryRun |-> dry]

Read(i) == C(i, "read_file", TRUE, {}, {}, FALSE)

\* The kinds of call the approvals tell apart.
Shapes(i) == {Read(i),
              C(i, "commit", TRUE, {}, {}, FALSE),
              C(i, "apply_edits", TRUE, {}, {p}, FALSE),
              C(i, "apply_edits", TRUE, {p}, {}, FALSE),
              C(i, "apply_edits", TRUE, {p}, {q}, FALSE),
              C(i, "apply_edits", TRUE, {q}, {p}, TRUE),
              C(i, "read_file", FALSE, {}, {}, FALSE),
              C(i, "unregistered", TRUE, {}, {}, FALSE)}
MCCalls == Shapes(a) \cup Shapes(b)

\* Batches of one call, of two that matter together, and one over the limit
\* on calls per answer.
Batches ==
  {<<x>> : x \in MCCalls \cup {Read(c)}}
    \cup {<<x, y>> : x \in Shapes(a) , y \in Shapes(b)}
    \cup {<<x, x>> : x \in Shapes(a)}
    \cup {<<Read(a), Read(b), Read(c)>>}

Plain(protocol, type, text, other, tool, err) ==
  [protocol |-> protocol, type |-> type, text |-> text, otherText |-> other,
   otherTool |-> tool, error |-> err, calls |-> << >>]

\* Every answer without calls, and every batch in an answer of each kind that
\* may carry one.
MCEnvelopes ==
  {Plain(pr, ty, te, ot, ow, er) :
     pr \in {"v1", "other"}, ty \in {"final", "error", "chat", "tool_call"},
     te \in BOOLEAN, ot \in BOOLEAN, ow \in BOOLEAN, er \in BOOLEAN}
  \cup {[Plain(pr, ty, te, FALSE, FALSE, FALSE) EXCEPT !.calls = s] :
          pr \in {"v1"}, ty \in {"tool_call"}, te \in {FALSE}, s \in Batches}
  \cup {[Plain(pr, ty, te, FALSE, FALSE, FALSE) EXCEPT !.calls = <<x>>] :
          pr \in {"other"}, ty \in {"tool_call"}, te \in {FALSE},
          x \in Shapes(b)}
  \cup {[Plain(pr, ty, te, FALSE, FALSE, FALSE) EXCEPT !.calls = <<Read(a)>>] :
          pr \in {"v1", "other"}, ty \in {"tool_call", "final", "chat"}, te \in {TRUE}}
=============================================================================
