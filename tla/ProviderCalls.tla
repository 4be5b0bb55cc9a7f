---------------------------- MODULE ProviderCalls ----------------------------
(***************************************************************************)
(* The two calls of the provider registry together: Send                   *)
(* (ProviderRegistry) and the stream that Stream hands to its consumer     *)
(* (ProviderStream).  A behaviour is about one of them.                    *)
(***************************************************************************)
EXTENDS ProviderRegistry, ProviderStream

VARIABLE call  \* "send" or "stream"

callVars == <<call, vars, streamVars>>

CallInit == call \in {"send", "stream"} /\ Init /\ StreamInit

CallNext ==
  /\ UNCHANGED call
  /\ \/ call = "send" /\ Next /\ UNCHANGED streamVars
     \/ call = "stream" /\ StreamNext /\ UNCHANGED vars

During(which, A, others) == call = which /\ A /\ UNCHANGED <<call, others>>

\* Goroutines run; a mutex is not refused to one waiter for ever; time passes.
\* A provider need not answer (http.DefaultClient has no timeout) before the
\* context of its request ends.
CallSpec ==
  /\ CallInit /\ [][CallNext]_callVars
  /\ \A c \in Callers :
       /\ WF_callVars(During("send", Going(c), streamVars))
       /\ WF_callVars(During("send", CutShort(c), streamVars))
       /\ SF_callVars(During("send", Acquire(c), streamVars))
  /\ \A p \in Providers : WF_callVars(During("send", CoolDown(p), streamVars))
  /\ WF_callVars(During("stream", Own, vars))
  /\ WF_callVars(During("stream", CutOff, vars))

(* Every Send returns and every stream ends, through retries, weaker       *)
(* request forms, recoveries and as many continuations as it takes, unless *)
(* a provider never answers.                                               *)
CallsReturn == /\ call = "send" => EverySendReturns
               /\ call = "stream" => StreamEnds
=============================================================================
