----------------------------- MODULE ServerState -----------------------------
(***************************************************************************)
(* What the server process keeps between requests: its slots, its jobs     *)
(* (ChatService), its event bus (StudioEvents), and the stores on disk     *)
(* (LocalState).  They share no state and none waits for another, so a     *)
(* behaviour is about one of them: whatever the others do meanwhile, the   *)
(* steps of one are those of such a behaviour.                             *)
(***************************************************************************)
EXTENDS ChatService, StudioEvents, LocalState

VARIABLE part  \* "slots", "jobs", "bus" or "stores"

stateVars == <<part, serviceVars, busVars, vars>>

\* The parts a behaviour is not about start in one state and stay there.
StateInit ==
  /\ part \in {"slots", "jobs", "bus", "stores"}
  /\ ServiceInit /\ BusInit /\ Init
  /\ part # "jobs" => owner = [j \in Jobs |-> "service"]
  /\ part # "stores" => kind = "rows"

StateNext ==
  /\ UNCHANGED part
  /\ \/ part = "slots" /\ SlotNext /\ UNCHANGED <<busVars, vars>>
     \/ part = "jobs" /\ JobNext /\ UNCHANGED <<busVars, vars>>
     \/ part = "bus" /\ BusNext /\ UNCHANGED <<serviceVars, vars>>
     \/ part = "stores" /\ Next /\ UNCHANGED <<serviceVars, busVars>>

\* A part that has not started has no step it owes.
StateSpec ==
  /\ StateInit /\ [][StateNext]_stateVars
  /\ ServiceFairness /\ BusFairness /\ StoreFairness
=============================================================================
