----------------------------- MODULE AtomicEdit -----------------------------
(***************************************************************************)
(* What Executor.Execute promises its callers (the chat apply loop, the    *)
(* workspace.apply_edits tool): a call takes effect on the workspace in    *)
(* one step, when it returns.  EditTransaction implements it for calls     *)
(* whose plans touch different files.                                      *)
(***************************************************************************)
EXTENDS Integers, Sequences

CONSTANTS Txns, Paths, Contents, Absent

VARIABLES edits,   \* the plan of each call, as in EditTransaction
          store,   \* the workspace as the calls that returned left it
          verdict  \* what each call returned, "none" while it runs

avars == <<edits, store, verdict>>

EditEffect(e) == IF e.op = "write" THEN e.content ELSE Absent
Edited(t) == {edits[t][i].path : i \in 1 .. Len(edits[t])}

AInit == /\ store \in [Paths -> Contents \cup {Absent}]
         /\ verdict = [t \in Txns |-> "none"]

\* The other files are untouched by the step.
OthersKept(t) == \A p \in Paths \ Edited(t) : store'[p] = store[p]

\* The whole plan takes effect.
Succeed(t) ==
  /\ verdict[t] = "none"
  /\ verdict' = [verdict EXCEPT ![t] = "ok"]
  /\ store' \in [Paths -> Contents \cup {Absent}]
  /\ OthersKept(t)
  /\ \A i \in 1 .. Len(edits[t]) :
       (\A j \in i + 1 .. Len(edits[t]) : edits[t][j].path # edits[t][i].path)
          => store'[edits[t][i].path] = EditEffect(edits[t][i])
  /\ UNCHANGED edits

\* Nothing takes effect.
Fail(t) ==
  /\ verdict[t] = "none"
  /\ \E v \in {"error", "verification_failed"} :
       verdict' = [verdict EXCEPT ![t] = v]
  /\ UNCHANGED <<store, edits>>

\* Each file of the plan keeps its original or holds one of the contents the
\* plan gives it, whole.
PartlyApplied(P) ==
  /\ store' \in [Paths -> Contents \cup {Absent}]
  /\ \A p \in Paths :
       \/ store'[p] = store[p]
       \/ \E t \in P : \E i \in 1 .. Len(edits[t]) :
            edits[t][i].path = p /\ store'[p] = EditEffect(edits[t][i])

\* The rollback failed too.  Only a failed verification says so: the error of
\* a failed apply loop hides it.
Damage(t) ==
  /\ verdict[t] = "none"
  /\ \E v \in {"error", "rollback_failed"} :
       verdict' = [verdict EXCEPT ![t] = v]
  /\ PartlyApplied({t})
  /\ UNCHANGED edits

\* The process dies under the calls in flight.
Die ==
  LET running == {t \in Txns : verdict[t] = "none"}
  IN  /\ running # {}
      /\ verdict' = [t \in Txns |-> IF t \in running THEN "crashed"
                                                     ELSE verdict[t]]
      /\ PartlyApplied(running)
      /\ UNCHANGED edits

ANext == (\E t \in Txns : Succeed(t) \/ Fail(t) \/ Damage(t)) \/ Die

ASpec == AInit /\ [][ANext]_avars
=============================================================================
