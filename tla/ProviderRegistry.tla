-------------------------- MODULE ProviderRegistry --------------------------
(***************************************************************************)
(* Registry.Send (internal/provider/registry.go): one request for text,    *)
(* sent to a named provider or to an automatically routed one, retried,    *)
(* moved to the fallback providers, and continued while its answer is      *)
(* unfinished.                                                             *)
(*                                                                         *)
(* Callers run concurrently: chats, agent steps, repairs, background jobs. *)
(* They meet in the per-provider lock that sendWithRetry holds over all of *)
(* its attempts, and in the per-provider backoff that observe sets and     *)
(* wait sleeps through.  Time is abstracted to that backoff: a provider is *)
(* "none" (ready), in its minimal "interval", or in "backoff".             *)
(*                                                                         *)
(* An outcome of a provider call is classified as the code classifies it:  *)
(*   text        a response with content                                   *)
(*   blank       a response without                                        *)
(*   busy        rate limited, unavailable, overloaded, transport failure  *)
(*   schema      a bad request that names the JSON schema                  *)
(*   jsonmode    a bad request that names the JSON mode only               *)
(*   model       the model is unknown or not available                     *)
(*   refused     unauthorized, quota, other bad requests, unknown          *)
(*   broken      not a ProviderError (an undecodable response)             *)
(* and wait adds canceled and expired, the caller's own context errors.    *)
(***************************************************************************)
EXTENDS Naturals, Sequences, SequencesExt, FiniteSets

CONSTANTS
  Callers,           \* concurrent Send calls
  Providers,         \* provider names
  Asks,              \* the forms of request callers send, of strict, object, plain
  Fallback,          \* Registry.fallback
  Automatic,         \* the name "auto"
  NoCaller,          \* a lock nobody holds
  MaxAttempts,       \* attempts of sendWithRetry (3)
  MaxContinuations   \* bound of continueResponse (16)

ASSUME RegistryAssumption ==
  /\ Fallback \in Seq(Providers) /\ Fallback # <<>> /\ IsInjective(Fallback)
  /\ Asks \subseteq {"strict", "object", "plain"}
  /\ Automatic \notin Providers
  /\ NoCaller \notin Callers
  /\ MaxAttempts \in Nat \ {0}
  /\ MaxContinuations \in Nat

Errors == {"busy", "model", "refused", "broken", "canceled", "expired"}
Outcomes == {"text", "blank", "busy", "schema", "jsonmode", "model", "refused", "broken"}
JSONForms == {"strict", "lenient", "object"}
Forms == JSONForms \cup {"plain"}

VARIABLES
  lock,      \* provider -> holder of requestMu
  cooling,   \* provider -> lastCall and retryUntil
  target,    \* caller -> the name it asks for
  wanted,    \* caller -> the form of its request
  context,   \* caller -> state of its context
  pc,        \* caller -> where it is
  route,     \* caller -> the providers it will try, in order
  at,        \* caller -> the one it is at
  tries,     \* caller -> attempts made in this sendWithRetry
  form,      \* caller -> the form of the current provider call
  rounds,    \* caller -> continuations made
  reply,     \* caller -> what sendWithRetry returned
  err,       \* caller -> the error Send returns when no provider answers
  result     \* caller -> what Send returned

vars == <<lock, cooling, target, wanted, context, pc, route, at, tries, form,
          rounds, reply, err, result>>

Now(c) == route[c][at[c]]

TypeOK ==
  /\ lock \in [Providers -> Callers \cup {NoCaller}]
  /\ cooling \in [Providers -> {"none", "interval", "backoff"}]
  /\ target \in [Callers -> Providers \cup {Automatic}]
  /\ wanted \in [Callers -> Asks]
  /\ context \in [Callers -> {"live", "canceled", "expired"}]
  /\ pc \in [Callers -> {"start", "pick", "acquire", "wait", "call", "settle", "done"}]
  /\ route \in [Callers -> Seq(Providers)]
  /\ at \in [Callers -> Nat \ {0}]
  /\ tries \in [Callers -> 0 .. MaxAttempts]
  /\ form \in [Callers -> Forms]
  /\ rounds \in [Callers -> 0 .. MaxContinuations]
  /\ reply \in [Callers -> {"none", "text", "blank"} \cup Errors]
  /\ err \in [Callers -> {"none", "unroutable"} \cup Errors]
  /\ result \in [Callers -> {"none", "answer", "unroutable"} \cup Errors]

Init ==
  /\ lock = [p \in Providers |-> NoCaller]
  /\ cooling = [p \in Providers |-> "none"]
  /\ target \in [Callers -> Providers \cup {Automatic}]
  /\ wanted \in [Callers -> Asks]
  /\ context = [c \in Callers |-> "live"]
  /\ pc = [c \in Callers |-> "start"]
  /\ route = [c \in Callers |-> <<>>]
  /\ at = [c \in Callers |-> 1]
  /\ tries = [c \in Callers |-> 0]
  /\ form = [c \in Callers |-> "plain"]
  /\ rounds = [c \in Callers |-> 0]
  /\ reply = [c \in Callers |-> "none"]
  /\ err = [c \in Callers |-> "none"]
  /\ result = [c \in Callers |-> "none"]

-----------------------------------------------------------------------------
(* classification *)

Goto(c, label) == pc' = [pc EXCEPT ![c] = label]

Retryable(e) == e = "busy"

FallsBack(e) == e \in {"busy", "model", "expired"}

\* err == nil and the trimmed content is not empty
IsAnswer(o) == o = "text"

Relax(f, o) == IF o = "schema" /\ f = "strict" THEN "lenient" ELSE "strict"

\* the form the same attempt is repeated in after a compatibility error
NextForm(f, o) ==
  IF o = "schema" /\ f = "strict" THEN "lenient"
  ELSE IF o = "schema" /\ f = "lenient" THEN "object"
  ELSE "plain"

Repeats(f, o) == f \in JSONForms /\ o \in {"schema", "jsonmode"}

\* the error sendWithRetry makes of an outcome that is no answer
ErrorOf(o) == IF o = "blank" THEN "busy"
              ELSE IF o \in {"schema", "jsonmode"} THEN "refused" ELSE o

\* observe: the backoff after a call
Backoff(e) == IF e = "busy" THEN "backoff" ELSE "interval"

-----------------------------------------------------------------------------
(* Send: the providers to try *)

\* the fallback names a provider once
Without(s, p) ==
  IF p \in ToSet(s) THEN RemoveAt(s, CHOOSE i \in DOMAIN s : s[i] = p) ELSE s

\* a named provider, then the fallback without it
Named(p) == {<<p>> \o Without(Fallback, p)}

\* Route orders those of the fallback that are not backing off and fit the
\* request, by a score of their past; when there are none, the fallback it is
Routed ==
  LET ready == {p \in Providers : p \in ToSet(Fallback) /\ cooling[p] # "backoff"} IN
  (UNION {SetToSeqs(fit) : fit \in (SUBSET ready) \ {{}}}) \cup {Fallback}

Start(c) ==
  /\ pc[c] = "start"
  /\ \E r \in IF target[c] = Automatic THEN Routed ELSE Named(target[c]) :
       route' = [route EXCEPT ![c] = r]
  /\ Goto(c, "pick")
  /\ UNCHANGED <<lock, cooling, target, wanted, context, at, tries, form, rounds,
                 reply, err, result>>

Finish(c, what) ==
  /\ result' = [result EXCEPT ![c] = what]
  /\ Goto(c, "done")

\* the candidate has a model and the request fits its budget
Pick(c) ==
  /\ pc[c] = "pick"
  /\ at[c] <= Len(route[c])
  /\ Goto(c, "acquire")
  /\ UNCHANGED <<lock, cooling, target, wanted, context, route, at, tries, form,
                 rounds, reply, err, result>>

\* it has not: a named provider fails at once, every other one is passed over
Skip(c) ==
  /\ pc[c] = "pick"
  /\ at[c] <= Len(route[c])
  /\ IF target[c] # Automatic /\ at[c] = 1
     THEN Finish(c, "unroutable") /\ UNCHANGED <<at, err>>
     ELSE /\ at' = [at EXCEPT ![c] = @ + 1]
          /\ err' = IF target[c] = Automatic THEN [err EXCEPT ![c] = "unroutable"] ELSE err
          /\ UNCHANGED <<pc, result>>
  /\ UNCHANGED <<lock, cooling, target, wanted, context, route, tries, form, rounds,
                 reply>>

GiveUp(c) ==
  /\ pc[c] = "pick"
  /\ at[c] > Len(route[c])
  /\ Finish(c, err[c])
  /\ UNCHANGED <<lock, cooling, target, wanted, context, route, at, tries, form,
                 rounds, reply, err>>

-----------------------------------------------------------------------------
(* sendWithRetry *)

Free(p) == lock[p] = NoCaller

Acquire(c) ==
  /\ pc[c] = "acquire"
  /\ Free(Now(c))
  /\ lock' = [lock EXCEPT ![Now(c)] = c]
  /\ reply' = [reply EXCEPT ![c] = "none"]
  /\ Goto(c, "wait")
  /\ UNCHANGED <<cooling, target, wanted, context, route, at, tries, form, rounds,
                 err, result>>

SleepsThrough(p) == cooling[p] # "backoff"

Ready(p) == cooling[p] = "none"

Wait(c) ==
  /\ pc[c] = "wait"
  /\ Ready(Now(c))
  /\ form' = [form EXCEPT ![c] = wanted[c]]
  /\ Goto(c, "call")
  /\ UNCHANGED <<lock, cooling, target, wanted, context, route, at, tries, rounds,
                 reply, err, result>>

UnlockUnlessCut(c, what) ==
  IF what \in {"canceled", "expired"} THEN lock ELSE [lock EXCEPT ![Now(c)] = NoCaller]

\* the deferred Unlock
Unlock(c, what) == [lock EXCEPT ![Now(c)] = NoCaller]

\* sendWithRetry returns: its locals are gone
Return(c, what) ==
  /\ reply' = [reply EXCEPT ![c] = what]
  /\ tries' = [tries EXCEPT ![c] = 0]
  /\ form' = [form EXCEPT ![c] = "plain"]
  /\ lock' = Unlock(c, what)
  /\ Goto(c, "settle")

\* only a wait that has to sleep looks at the context
WaitCut(c) ==
  /\ pc[c] = "wait"
  /\ cooling[Now(c)] # "none"
  /\ context[c] # "live"
  /\ Return(c, context[c])
  /\ UNCHANGED <<cooling, target, wanted, context, route, at, rounds, err, result>>

\* what the provider may do; a request whose context has ended fails in transport
Possible(c) == IF context[c] = "live" THEN Outcomes ELSE {"busy"}

SpentOnly(c) == tries[c] <= MaxAttempts

TriesLeft(c) == tries[c] + 1 < MaxAttempts

Repeat(c, o) ==
  /\ Repeats(form[c], o)
  /\ form' = [form EXCEPT ![c] = NextForm(@, o)]
  /\ UNCHANGED <<lock, cooling, pc, tries, reply>>

Retry(c, o) ==
  /\ ~Repeats(form[c], o) /\ ~IsAnswer(o)
  /\ Retryable(ErrorOf(o)) \/ ErrorOf(o) = "model"   \* with another model listed
  /\ TriesLeft(c)
  /\ tries' = [tries EXCEPT ![c] = @ + 1]
  /\ cooling' = [cooling EXCEPT ![Now(c)] = Backoff(ErrorOf(o))]
  /\ form' = [form EXCEPT ![c] = "plain"]
  /\ Goto(c, "wait")
  /\ UNCHANGED <<lock, reply>>

NoMoreTries(c, o) ==
  \/ IsAnswer(o)
  \/ ~Retryable(ErrorOf(o))
  \/ ~TriesLeft(c)

Settled(c, o) ==
  /\ ~Repeats(form[c], o)
  /\ NoMoreTries(c, o)
  /\ cooling' = [cooling EXCEPT ![Now(c)] = IF IsAnswer(o) THEN "interval"
                                            ELSE Backoff(ErrorOf(o))]
  /\ Return(c, IF IsAnswer(o) THEN o ELSE ErrorOf(o))

Call(c) ==
  /\ pc[c] = "call"
  /\ \E o \in Possible(c) : Repeat(c, o) \/ Retry(c, o) \/ Settled(c, o)
  /\ UNCHANGED <<target, wanted, context, route, at, rounds, err, result>>

-----------------------------------------------------------------------------
(* Send: what becomes of the reply *)

RoundsLeft(c) == rounds[c] < MaxContinuations

\* continueResponse: the answer is unfinished, the same provider is asked on
Continue(c) ==
  /\ pc[c] = "settle"
  /\ reply[c] \notin Errors
  /\ RoundsLeft(c)
  /\ rounds' = [rounds EXCEPT ![c] = @ + 1]
  /\ Goto(c, "acquire")
  /\ UNCHANGED <<lock, cooling, target, wanted, context, route, at, tries, form,
                 reply, err, result>>

Answer(c) ==
  /\ pc[c] = "settle"
  /\ reply[c] \notin Errors
  /\ Finish(c, "answer")
  /\ UNCHANGED <<lock, cooling, target, wanted, context, route, at, tries, form,
                 rounds, reply, err>>

\* a failed continuation fails the request
ContinuationFails(c) ==
  /\ pc[c] = "settle"
  /\ reply[c] \in Errors /\ rounds[c] > 0
  /\ Finish(c, reply[c])
  /\ UNCHANGED <<lock, cooling, target, wanted, context, route, at, tries, form,
                 rounds, reply, err>>

\* a named request reports its own provider's error, a routed one the last
ErrorKept(c) == IF target[c] # Automatic /\ at[c] > 1 THEN err[c] ELSE reply[c]

GivesUpEarly(c) == Retryable(reply[c]) \/ (target[c] # Automatic /\ at[c] > 1)

\* beyond the named provider the fallback loop ignores why a candidate failed
TriesNext(c) == FallsBack(reply[c]) \/ (target[c] # Automatic /\ at[c] > 1)

NextProvider(c) ==
  /\ pc[c] = "settle"
  /\ reply[c] \in Errors /\ rounds[c] = 0
  /\ TriesNext(c)
  /\ err' = [err EXCEPT ![c] = ErrorKept(c)]
  /\ at' = [at EXCEPT ![c] = @ + 1]
  /\ reply' = [reply EXCEPT ![c] = "none"]
  /\ Goto(c, "pick")
  /\ UNCHANGED <<lock, cooling, target, wanted, context, route, tries, form, rounds,
                 result>>

Fail(c) ==
  /\ pc[c] = "settle"
  /\ reply[c] \in Errors /\ rounds[c] = 0
  /\ ~TriesNext(c)
  /\ Finish(c, reply[c])
  /\ UNCHANGED <<lock, cooling, target, wanted, context, route, at, tries, form,
                 rounds, reply, err>>

-----------------------------------------------------------------------------
(* time and callers' contexts *)

CoolDown(p) ==
  /\ cooling[p] # "none"
  /\ cooling' = [cooling EXCEPT ![p] = "none"]
  /\ UNCHANGED <<lock, target, wanted, context, pc, route, at, tries, form, rounds,
                 reply, err, result>>

ContextEnds(c) ==
  /\ context[c] = "live" /\ pc[c] # "done"
  /\ \E why \in {"canceled", "expired"} : context' = [context EXCEPT ![c] = why]
  /\ UNCHANGED <<lock, cooling, target, wanted, pc, route, at, tries, form, rounds,
                 reply, err, result>>

\* what Send does by itself
Going(c) ==
  \/ Start(c) \/ GiveUp(c) \/ Acquire(c) \/ Wait(c) \/ WaitCut(c)
  \/ Continue(c) \/ Answer(c) \/ ContinuationFails(c) \/ NextProvider(c) \/ Fail(c)

\* what it waits for: the provider's list of models, and its answer
Asking(c) == Pick(c) \/ Skip(c) \/ Call(c)

\* every request is made with the caller's context, and ends with it
CutShort(c) == context[c] # "live" /\ Asking(c)

Next == \/ \E c \in Callers : Going(c) \/ Asking(c) \/ ContextEnds(c)
        \/ \E p \in Providers : CoolDown(p)

Spec == Init /\ [][Next]_vars

-----------------------------------------------------------------------------
(* properties *)

\* A provider is called by one caller at a time, and never during the backoff
\* or the minimal interval another caller's call has set.
OneAtATime ==
  \A c \in Callers : pc[c] = "call" =>
    /\ cooling[Now(c)] = "none"
    /\ \A d \in Callers \ {c} : pc[d] \in {"wait", "call"} => Now(d) # Now(c)

\* docs/QUALITY_GATES.md: an empty response is never a success.
NoEmptyAnswer ==
  \A c \in Callers : result[c] = "answer" => reply[c] = "text"

\* A request a named provider refuses (bad key, quota, bad request) or cannot
\* decode is not shopped around: no other provider ever sees it.
RefusalStays ==
  \A c \in Callers :
    pc[c] = "done" /\ target[c] # Automatic /\ result[c] \in {"refused", "broken"}
      /\ rounds[c] = 0 => at[c] = 1

\* A request fails with an error that another provider might not have had only
\* after every provider of its route was tried or passed over, and a named one
\* then fails with the error of the provider that was named.
FallbackExhausted ==
  \A c \in Callers :
    pc[c] = "done" /\ result[c] \in {"busy", "model", "expired"} /\ rounds[c] = 0 =>
      at[c] > Len(route[c])

\* Other providers see a request exactly as long as one of them may still help.
FallbackFits == RefusalStays /\ FallbackExhausted

\* Whoever gives up, answers, or is cut short, no lock stays behind.
LocksReleased ==
  \A p \in Providers : lock[p] # NoCaller =>
    pc[lock[p]] \in {"wait", "call"} /\ Now(lock[p]) = p

\* The provider does not answer c, whose context lives: the call it makes does
\* not even fail so that a weaker form can be tried.
Hangs(c, f) ==
  /\ context[c] = "live" /\ form[c] = f
  /\ pc[c] = "call" \/ (pc[c] = "pick" /\ at[c] <= Len(route[c]))

\* c waits for the lock of a provider that does not answer the one holding it.
Behind(c) ==
  /\ pc[c] = "acquire" /\ ~Free(Now(c))
  /\ pc[lock[Now(c)]] = "call" /\ context[lock[Now(c)]] = "live"

\* Every request ends, with an answer or an error, however often its providers
\* fail and however many callers wait for them, unless a provider never answers
\* it, or the caller before it.
EverySendReturns ==
  \A c \in Callers : \/ <>(pc[c] = "done")
                     \/ \E f \in Forms : <>[]Hangs(c, f)
                     \/ <>[]Behind(c)
=============================================================================
