--------------------------- MODULE AgentRunProofs ---------------------------
(***************************************************************************)
(* Consent, at-most-once execution, the limits, what the model is told and *)
(* the finality of a denial hold of AgentRun for all tools, paths, model   *)
(* answers, approvals, limits and callers.                                 *)
(***************************************************************************)
EXTENDS AgentRun, TLAPS

Working == {"call", "authorize", "handle"}

\* While a batch is worked on there is a call to work on, and room for the
\* results of all that are left.
Room == pc \in Working => batch # << >> /\ Len(log) + Len(batch) <= MaxToolCalls

\* Every executed call is remembered as seen, and so is the call at hand,
\* which is of a registered tool and has not been executed.
Remembered ==
  /\ \A i \in 1 .. Len(log) : log[i].call.id \in seen
  /\ pc \in {"authorize", "handle"} =>
       /\ This.tool \in Tools /\ This.id \in seen
       /\ \A i \in 1 .. Len(log) : log[i].call.id # This.id

\* A handler is only reached with consent.
Cleared == pc = "handle" => Consented(This)

\* Only a handler that ran succeeds.
Truthful == \A i \in 1 .. Len(log) : log[i].status = "ok" => log[i].ran

\* The model is only asked when there is a step left.
Asked == pc = "send" => step < MaxSteps

\* A refusal or an outcome is only recorded by a run that is over, and an
\* answer by one that is answered.
Over ==
  /\ askTools # {} \/ askDeletes # {} \/ outcome # "none"
       => pc \in {"returned", "done"}
  /\ answer # "none" \/ history # << >> \/ written # {} => pc = "done"

IInv ==
  /\ TypeOK
  /\ Room /\ Len(log) <= MaxToolCalls
  /\ Remembered /\ OncePerCall
  /\ Cleared /\ ConsentedOnly
  /\ AmbiguousNeverActs
  /\ Over /\ Truthful /\ Asked

-----------------------------------------------------------------------------
(* Facts about the data.                                                   *)

\* Normalizing keeps the calls of an answer or drops them all, and an answer
\* that asks for tools has some.
LEMMA Answers ==
  ASSUME NEW e \in Envelopes
  PROVE  /\ Normalize(e).calls \in Seq(Call)
         /\ ValidResponse(Normalize(e)) /\ Normalize(e).type = "tool_call"
              => Normalize(e).calls # << >>
  <1>1. e \in Envelope
    BY EnvelopeAssumption
  <1>2. e.calls \in Seq(Call) /\ Normalize(e).calls \in {e.calls, << >>}
    BY <1>1 DEF Envelope, Normalize, AsFinal
  <1>3. << >> \in Seq(Call)
    OBVIOUS
  <1>4. QED
    BY <1>2, <1>3 DEF ValidResponse

\* What appending a result and going on to the next call keeps.
LEMMA Appending ==
  ASSUME IInv, pc \in Working, NEW ran \in BOOLEAN,
         NEW status \in {"ok", "error", "denied"}, NEW changed \in SUBSET Paths,
         log' = Append(log, Result(This, ran, status, changed)),
         results' = Append(results, Result(This, ran, status, changed)),
         batch' = Tail(batch), This.id \in seen', seen \subseteq seen',
         \A i \in 1 .. Len(log) : log[i].call.id # This.id,
         UNCHANGED request, yes \subseteq yes', yesDelete \subseteq yesDelete',
         ran => Consented(This), status = "ok" => ran
  PROVE  /\ This \in Call
         /\ log' \in Seq(Entry) /\ results' \in Seq(Entry) /\ batch' \in Seq(Call)
         /\ Len(log') <= MaxToolCalls
         /\ Len(batch) > 1 => batch' # << >> /\ Len(log') + Len(batch') <= MaxToolCalls
         /\ \A i \in 1 .. Len(log') : log'[i].call.id \in seen'
         /\ OncePerCall'
         /\ ConsentedOnly'
         /\ Truthful'
  <1>1. /\ batch \in Seq(Call) /\ batch # << >>
        /\ log \in Seq(Entry) /\ results \in Seq(Entry)
        /\ Len(log) + Len(batch) <= MaxToolCalls /\ MaxToolCalls \in Nat
    <2>1. batch \in Seq(Call) /\ log \in Seq(Entry) /\ results \in Seq(Entry)
      BY DEF IInv, TypeOK
    <2>2. batch # << >> /\ Len(log) + Len(batch) <= MaxToolCalls
      BY DEF IInv, Room
    <2>3. QED
      BY <2>1, <2>2, LimitAssumption
  <1>2. This \in Call /\ Result(This, ran, status, changed) \in Entry
    BY <1>1 DEF This, Result, Entry
  <1>3. /\ log' \in Seq(Entry) /\ results' \in Seq(Entry) /\ batch' \in Seq(Call)
        /\ Len(log') = Len(log) + 1 /\ Len(batch') = Len(batch) - 1
        /\ Len(batch) \in Nat \ {0} /\ Len(log) \in Nat
        /\ \A i \in 1 .. Len(log) : log'[i] = log[i]
        /\ log'[Len(log) + 1] = Result(This, ran, status, changed)
    BY <1>1, <1>2
  <1>4. \A i \in 1 .. Len(log') : log'[i].call.id \in seen'
    BY <1>3 DEF IInv, Remembered, Result
  <1>5. OncePerCall'
    BY <1>3 DEF IInv, OncePerCall, Result
  <1>6. ASSUME NEW i \in 1 .. Len(log'), log'[i].ran
        PROVE  Consented(log[i].call)'
    <2>1. CASE i \in 1 .. Len(log)
      <3>1. Consented(log[i].call) /\ log'[i] = log[i]
        BY <1>3, <1>6, <2>1 DEF IInv, ConsentedOnly
      <3>2. QED
        BY <3>1 DEF Consented, Changes, RequiresApproval, request
    <2>2. CASE i = Len(log) + 1
      <3>1. Consented(This) /\ log'[i].call = This
        BY <1>3, <1>6, <2>2 DEF Result
      <3>2. QED
        BY <3>1 DEF Consented, Changes, RequiresApproval, request
    <2>3. QED
      BY <1>3, <2>1, <2>2
  <1>7. ConsentedOnly'
    BY <1>6 DEF ConsentedOnly
  <1>8. Len(batch) > 1 => batch' # << >>
    <2>1. Len(batch') = Len(batch) - 1 /\ Len(batch) \in Nat
      BY <1>3
    <2>2. batch' = << >> => Len(batch') = 0
      OBVIOUS
    <2>3. QED
      BY <2>1, <2>2
  <1>9. Truthful'
    BY <1>3 DEF IInv, Truthful, Result
  <1>10. QED
    BY <1>1, <1>2, <1>3, <1>4, <1>5, <1>7, <1>8, <1>9

-----------------------------------------------------------------------------
(* What the kinds of steps keep.                                           *)

\* A step that ends or answers the run.
LEMMA Ending ==
  ASSUME IInv, TypeOK', UNCHANGED <<request, consent, seen, log>>,
         pc' \in {"returned", "done"},
         answer' # "none" \/ history' # << >> \/ written' # {} => pc' = "done",
         AmbiguousNeverActs'
  PROVE  IInv'
  <1>1. Room' /\ Remembered' /\ Cleared' /\ Asked' /\ Over'
    BY DEF IInv, Room, Working, Remembered, Cleared, Asked, Over
  <1>2. ConsentedOnly'
    BY DEF IInv, ConsentedOnly, Consented, Changes, RequiresApproval, request, consent
  <1>3. Len(log') <= MaxToolCalls /\ OncePerCall' /\ Truthful'
    BY DEF IInv, OncePerCall, Truthful
  <1>4. QED
    BY <1>1, <1>2, <1>3 DEF IInv

\* A step that records the result of the call at hand and goes on.
LEMMA Recording ==
  ASSUME IInv, pc \in Working, NEW ran \in BOOLEAN,
         NEW status \in {"ok", "error", "denied"}, NEW changed \in SUBSET Paths,
         Record(ran, status, changed), status = "ok" => ran, ran => Consented(This),
         \A i \in 1 .. Len(log) : log[i].call.id # This.id,
         This.id \in seen', seen \subseteq seen', seen' \subseteq CallIds,
         UNCHANGED <<request, consent, cancelled, step, raw, pending, ending>>,
         touched' \subseteq Paths, edited' \subseteq Paths, unreported' \subseteq Paths
  PROVE  IInv'
  <1>1. /\ log' \in Seq(Entry) /\ results' \in Seq(Entry) /\ batch' \in Seq(Call)
        /\ Len(log') <= MaxToolCalls
        /\ Len(batch) > 1 => batch' # << >> /\ Len(log') + Len(batch') <= MaxToolCalls
        /\ \A i \in 1 .. Len(log') : log'[i].call.id \in seen'
        /\ OncePerCall' /\ ConsentedOnly' /\ Truthful'
    BY Appending DEF Record, Note, consent
  <1>2. pc' \in {"call", "report"} /\ (pc' = "call" => Len(batch) > 1)
    BY DEF Record
  <1>3. TypeOK'
    <2>1. conversation' = conversation
      BY DEF Record, Note
    <2>2. QED
      BY <1>1, <1>2, <2>1 DEF IInv, TypeOK, PC, request, consent, pending, ending
  <1>4. Room' /\ Remembered' /\ Cleared' /\ Asked'
    BY <1>1, <1>2 DEF Room, Working, Remembered, Cleared, Asked
  <1>5. AmbiguousNeverActs' /\ Over'
    BY <1>2 DEF IInv, AmbiguousNeverActs, Over, Working, pending, ending
  <1>6. QED
    BY <1>1, <1>3, <1>4, <1>5 DEF IInv

\* A step that records a denial and returns.
LEMMA Denying ==
  ASSUME IInv, pc = "authorize", Deny,
         yes \subseteq yes', yesDelete \subseteq yesDelete',
         yes' \subseteq Call, yesDelete' \subseteq Call,
         askTools' \subseteq Tools, askDeletes' \subseteq Paths
  PROVE  IInv'
  <1>0. /\ This.id \in seen' /\ seen \subseteq seen'
        /\ \A i \in 1 .. Len(log) : log[i].call.id # This.id
    BY DEF Deny, IInv, Remembered
  <1>1. /\ log' \in Seq(Entry) /\ results' \in Seq(Entry) /\ batch' \in Seq(Call)
        /\ Len(log') <= MaxToolCalls
        /\ \A i \in 1 .. Len(log') : log'[i].call.id \in seen'
        /\ OncePerCall' /\ ConsentedOnly' /\ Truthful'
    BY <1>0, Appending, {} \in SUBSET Paths DEF Deny, Note, Working
  <1>2. pc' = "returned" /\ outcome' = "denied" /\ outcome = "none"
    BY DEF Deny, AfterDenial, IInv, Over
  <1>3. TypeOK'
    BY <1>1, <1>2 DEF IInv, TypeOK, PC, Outcome, Deny, Note, KeepCaller, request, files
  <1>4. Room' /\ Remembered' /\ Cleared' /\ Asked'
    BY <1>1, <1>2 DEF Room, Working, Remembered, Cleared, Asked
  <1>5. AmbiguousNeverActs' /\ Over'
    BY <1>2 DEF IInv, AmbiguousNeverActs, Over, Deny, KeepCaller
  <1>6. QED
    BY <1>1, <1>3, <1>4, <1>5 DEF IInv

\* A step that lets the call at hand, consented to, reach its handler.
LEMMA Allowing ==
  ASSUME IInv, pc = "authorize", Allow,
         yes \subseteq yes', yesDelete \subseteq yesDelete',
         yes' \subseteq Call, yesDelete' \subseteq Call,
         Consented(This)'
  PROVE  IInv'
  <1>1. pc' = "handle" /\ UNCHANGED <<request, cancelled, step, raw, batch, seen,
                                      talk, pending, ending, files>>
    BY DEF Allow
  <1>2. TypeOK'
    BY <1>1 DEF IInv, TypeOK, PC, request, pending, ending, talk, files
  <1>3. Room' /\ Remembered' /\ Cleared' /\ Asked'
    BY <1>1 DEF IInv, Room, Working, Remembered, Cleared, Asked, This, talk
  <1>4. ConsentedOnly'
    BY <1>1 DEF IInv, ConsentedOnly, Consented, Changes, RequiresApproval, request,
                talk
  <1>5. Len(log') <= MaxToolCalls /\ OncePerCall' /\ Truthful'
    BY <1>1 DEF IInv, OncePerCall, Truthful, talk
  <1>6. AmbiguousNeverActs' /\ Over'
    BY <1>1 DEF IInv, AmbiguousNeverActs, Over, pending, ending
  <1>7. QED
    BY <1>2, <1>3, <1>4, <1>5, <1>6 DEF IInv

-----------------------------------------------------------------------------
(* The initial states, and each action.                                    *)

LEMMA Initially == Init => IInv
  <1> SUFFICES ASSUME Init PROVE IInv
    OBVIOUS
  <1>1. log = << >> /\ batch = << >> /\ pc = "ask"
    BY DEF Init
  <1>2. TypeOK
    <2>1. approved \subseteq Tools /\ confirmed \subseteq Paths /\ mode \in Modes
      BY DEF Init, Tools
    <2>2. 0 \in 0 .. MaxSteps /\ cancelled \in BOOLEAN
      <3>1. 0 \in 0 .. MaxSteps
        BY LimitAssumption
      <3>2. cancelled \in BOOLEAN
        BY DEF Init
      <3>3. QED
        BY <3>1, <3>2
    <2>3. \A S : << >> \in Seq(S)
      OBVIOUS
    <2>4. QED
      BY <2>1, <2>2, <2>3 DEF Init, TypeOK, PC, Outcome, Answer
  <1>3. Room /\ Len(log) <= MaxToolCalls /\ Remembered /\ OncePerCall /\ Cleared
    BY <1>1, LimitAssumption DEF Room, Working, Remembered, OncePerCall, Cleared
  <1>4. ConsentedOnly /\ Asked /\ Truthful
    BY <1>1 DEF ConsentedOnly, Asked, Truthful
  <1>5. AmbiguousNeverActs /\ Over
    BY DEF Init, AmbiguousNeverActs, Over
  <1>6. QED
    BY <1>2, <1>3, <1>4, <1>5 DEF IInv

LEMMA CancelKeeps == IInv /\ Cancel => IInv'
  <1> SUFFICES ASSUME IInv, Cancel PROVE IInv'
    OBVIOUS
  <1>1. cancelled' \in BOOLEAN /\ UNCHANGED <<request, consent, pc, step, raw, batch,
                                             seen, talk, pending, ending, files>>
    BY DEF Cancel
  <1>2. TypeOK'
    BY <1>1 DEF IInv, TypeOK, request, consent, pending, ending, talk, files
  <1>3. /\ Room' /\ Len(log') <= MaxToolCalls /\ Remembered' /\ OncePerCall'
        /\ Asked' /\ Truthful'
    BY <1>1 DEF IInv, Room, Remembered, OncePerCall, Asked, Truthful, This,
                talk
  <1>4. Cleared' /\ ConsentedOnly'
    BY <1>1 DEF IInv, Cleared, ConsentedOnly, Consented, Changes, RequiresApproval,
                This, request, consent, talk
  <1>5. AmbiguousNeverActs' /\ Over'
    BY <1>1 DEF IInv, AmbiguousNeverActs, Over, pending, ending
  <1>6. QED
    BY <1>2, <1>3, <1>4, <1>5 DEF IInv

\* The ways Run returns other than by a denial.
LEMMA ReturnKeeps ==
  ASSUME IInv,
         \/ StepLimit \/ StopsCancelled \/ SendFails \/ ReusedId
         \/ \E e \in Envelopes : RejectResponse(e) \/ Finish(e) \/ RefuseBatch(e)
  PROVE  IInv'
  <1>1. /\ pc \in {"ask", "send", "call"} /\ pc' = "returned"
        /\ outcome' \in {"final", "failed", "cancelled"}
        /\ answer' = answer /\ history' = history /\ written' = written
        /\ UNCHANGED <<request, consent, cancelled, batch, seen, talk, pending, files>>
    BY DEF StepLimit, StopsCancelled, SendFails, ReusedId, RejectResponse, Finish,
           RefuseBatch, Return, KeepCaller, KeepRun
  <1>2. /\ answer = "none" /\ history = << >> /\ written = {} /\ step \in 0 .. MaxSteps
        /\ pc = "send" => step < MaxSteps
    BY <1>1 DEF IInv, Over, TypeOK, Asked
  <1>3. step' \in 0 .. MaxSteps /\ raw' \in Envelopes \cup {NoEnvelope}
    BY <1>2, LimitAssumption
       DEF StepLimit, StopsCancelled, SendFails, ReusedId, RejectResponse, Finish,
           RefuseBatch, NextStep, KeepRun, IInv, TypeOK
  <1>4. TypeOK'
    BY <1>1, <1>3 DEF IInv, TypeOK, PC, Outcome, request, consent, pending, talk, files
  <1>5. outcome' = "final" =>
          raw'.calls = << >> /\ (raw'.protocol = "other" => ~raw'.otherTool)
    <2> SUFFICES ASSUME outcome' = "final"
                 PROVE  raw'.calls = << >> /\ (raw'.protocol = "other" => ~raw'.otherTool)
      OBVIOUS
    <2>1. PICK e \in Envelopes : Finish(e) /\ Normalize(e).type = "final"
      BY DEF StepLimit, StopsCancelled, SendFails, ReusedId, RejectResponse, Finish,
             RefuseBatch, Return
    <2>2. e \in Envelope /\ raw' = e /\ ValidResponse(Normalize(e))
      BY <2>1, EnvelopeAssumption DEF Finish
    <2>3. CASE Normalize(e) = e
      BY <2>1, <2>2, <2>3 DEF ValidResponse
    <2>4. CASE ~MayAct(e)
      BY <2>2, <2>4 DEF MayAct
    <2>5. CASE e.type = "tool_call" /\ Normalize(e) = [e EXCEPT !.protocol = "v1"]
      BY <2>1, <2>2, <2>5 DEF Envelope
    <2>6. QED
      BY <2>3, <2>4, <2>5 DEF Normalize
  <1>6. AmbiguousNeverActs'
    BY <1>1, <1>2, <1>5 DEF AmbiguousNeverActs
  <1>7. QED
    BY <1>1, <1>2, <1>4, <1>6, Ending DEF talk

LEMMA AskModelKeeps == IInv /\ AskModel => IInv'
  <1> SUFFICES ASSUME IInv, AskModel PROVE IInv'
    OBVIOUS
  <1>1. /\ pc' = "send" /\ step # MaxSteps
        /\ UNCHANGED <<request, consent, cancelled, step, raw, batch, seen, talk,
                       pending, ending, files>>
    BY DEF AskModel, AtStepLimit, KeepRun
  <1>2. TypeOK'
    BY <1>1 DEF IInv, TypeOK, PC, request, consent, pending, ending, talk, files
  <1>3. /\ Room' /\ Len(log') <= MaxToolCalls /\ Remembered' /\ OncePerCall'
        /\ Truthful' /\ Cleared'
    BY <1>1 DEF IInv, Room, Working, Remembered, OncePerCall, Truthful, Cleared, talk
  <1>4. Asked'
    BY <1>1, LimitAssumption DEF IInv, TypeOK, Asked
  <1>5. ConsentedOnly'
    BY <1>1 DEF IInv, ConsentedOnly, Consented, Changes, RequiresApproval, request,
                consent, talk
  <1>6. AmbiguousNeverActs' /\ Over'
    BY <1>1 DEF AskModel, IInv, AmbiguousNeverActs, Over, pending, ending
  <1>7. QED
    BY <1>2, <1>3, <1>4, <1>5, <1>6 DEF IInv

LEMMA StartBatchKeeps ==
  ASSUME IInv, NEW e \in Envelopes, StartBatch(e)
  PROVE  IInv'
  <1>1. /\ pc = "send" /\ step < MaxSteps /\ pc' = "call" /\ step' = step + 1
        /\ ValidResponse(Normalize(e)) /\ Normalize(e).type = "tool_call"
        /\ batch' = Normalize(e).calls /\ raw' = e
        /\ Len(log) + Len(batch') <= MaxToolCalls
        /\ results' = << >>
        /\ conversation' = Append(conversation, AssistantMessage(batch'))
        /\ UNCHANGED <<request, consent, cancelled, seen, log, pending, ending, files>>
    <2>1. batch' \in Seq(Call) /\ log \in Seq(Entry) /\ MaxToolCalls \in Nat
      BY Answers, LimitAssumption DEF StartBatch, IInv, TypeOK
    <2>2. QED
      BY <2>1 DEF StartBatch, IInv, Asked, NextStep, TooMany, OverBudget
  <1>2. batch' \in Seq(Call) /\ batch' # << >>
    BY <1>1, Answers
  <1>3. TypeOK'
    <2>1. step' \in 0 .. MaxSteps
      BY <1>1, LimitAssumption DEF IInv, TypeOK
    <2>2. AssistantMessage(batch') \in Message
      BY <1>2 DEF AssistantMessage, Message
    <2>3. /\ results' \in Seq(Entry)
          /\ conversation' \in Seq(Message)
      BY <1>1, <2>2 DEF IInv, TypeOK
    <2>4. QED
      BY <1>1, <1>2, <2>1, <2>3
         DEF IInv, TypeOK, PC, request, consent, pending, ending, files
  <1>4. /\ Room' /\ Len(log') <= MaxToolCalls /\ Remembered' /\ OncePerCall'
        /\ Asked' /\ Truthful' /\ Cleared'
    BY <1>1, <1>2 DEF IInv, Room, Remembered, OncePerCall, Asked, Truthful,
                      Cleared
  <1>5. ConsentedOnly'
    BY <1>1 DEF IInv, ConsentedOnly, Consented, Changes, RequiresApproval, request,
                consent
  <1>6. raw'.type = "tool_call" /\ ~raw'.text /\ ~raw'.error
    BY <1>1, EnvelopeAssumption DEF Normalize, AsFinal, ValidResponse, Envelope
  <1>7. AmbiguousNeverActs' /\ Over'
    BY <1>1, <1>6 DEF IInv, AmbiguousNeverActs, Over, pending, ending
  <1>8. QED
    BY <1>3, <1>4, <1>5, <1>7 DEF IInv

\* The call at hand is new to a run whose executed calls are all remembered.
LEMMA NewCall ==
  ASSUME IInv, pc = "call", This.id \notin seen, Remember(This)
  PROVE  /\ This \in Call
         /\ This.id \in seen' /\ seen \subseteq seen' /\ seen' \subseteq CallIds
         /\ \A i \in 1 .. Len(log) : log[i].call.id # This.id
  <1>1. batch \in Seq(Call) /\ batch # << >> /\ seen \subseteq CallIds
    BY DEF IInv, Room, Working, TypeOK
  <1>2. This \in Call
    BY <1>1 DEF This
  <1>3. This.id \in CallIds
    BY <1>2 DEF Call
  <1>4. QED
    BY <1>1, <1>2, <1>3 DEF Remember, IInv, Remembered

LEMMA RefuseCallKeeps == IInv /\ RefuseCall => IInv'
  <1> SUFFICES ASSUME IInv, RefuseCall PROVE IInv'
    OBVIOUS
  <1>1. pc = "call" /\ This.id \notin seen /\ Remember(This) /\ Record(FALSE, "error", {})
    BY DEF RefuseCall
  <1>2. /\ UNCHANGED <<request, consent, cancelled, step, raw, pending, ending>>
        /\ touched' \subseteq Paths /\ edited' \subseteq Paths /\ unreported' \subseteq Paths
    BY DEF RefuseCall, IInv, TypeOK, files
  <1>3. QED
    BY <1>1, <1>2, {} \in SUBSET Paths, NewCall, Recording DEF Working

LEMMA AcceptCallKeeps == IInv /\ AcceptCall => IInv'
  <1> SUFFICES ASSUME IInv, AcceptCall PROVE IInv'
    OBVIOUS
  <1>1. /\ pc = "call" /\ This.id \notin seen /\ This.tool \in Tools
        /\ Remember(This) /\ pc' = "authorize"
        /\ UNCHANGED <<request, consent, cancelled, step, raw, batch, talk,
                       pending, ending, files>>
    BY DEF AcceptCall
  <1>2. /\ This.id \in seen' /\ seen \subseteq seen' /\ seen' \subseteq CallIds
        /\ \A i \in 1 .. Len(log) : log[i].call.id # This.id
    BY <1>1, NewCall
  <1>3. TypeOK'
    BY <1>1, <1>2 DEF IInv, TypeOK, PC, request, consent, pending, ending, talk, files
  <1>4. Room' /\ Len(log') <= MaxToolCalls /\ OncePerCall' /\ Asked' /\ Truthful'
    BY <1>1 DEF IInv, Room, Working, OncePerCall, Asked, Truthful, talk
  <1>5. Remembered'
    BY <1>1, <1>2 DEF IInv, Remembered, This, talk
  <1>6. Cleared' /\ ConsentedOnly'
    BY <1>1 DEF IInv, Cleared, ConsentedOnly, Consented, Changes, RequiresApproval,
                request, consent, talk
  <1>7. AmbiguousNeverActs' /\ Over'
    BY <1>1 DEF IInv, AmbiguousNeverActs, Over, pending, ending
  <1>8. QED
    BY <1>3, <1>4, <1>5, <1>6, <1>7 DEF IInv

\* The call that waits for an answer.
LEMMA Waiting ==
  ASSUME IInv, pc \in {"authorize", "handle"}
  PROVE  /\ This \in Call /\ This.tool \in Tools
         /\ This.id \in seen /\ seen \subseteq CallIds
         /\ \A i \in 1 .. Len(log) : log[i].call.id # This.id
         /\ askTools \subseteq Tools /\ askDeletes \subseteq Paths
         /\ yes \subseteq Call /\ yesDelete \subseteq Call
  <1>1. batch \in Seq(Call) /\ batch # << >>
    BY DEF IInv, Room, Working, TypeOK
  <1>2. This \in Call
    BY <1>1 DEF This
  <1>3. QED
    BY <1>2 DEF IInv, Remembered, TypeOK

LEMMA AuthorizeNoneKeeps == IInv /\ AuthorizeNone => IInv'
  <1> SUFFICES ASSUME IInv, AuthorizeNone PROVE IInv'
    OBVIOUS
  <1>1. pc = "authorize" /\ mode = "none" /\ UNCHANGED consent
    BY DEF AuthorizeNone
  <1>2. CASE RequiresApproval(This)
    <2>1. Deny /\ UNCHANGED pending
      BY <1>2 DEF AuthorizeNone
    <2>2. QED
      BY <1>1, <2>1, Waiting, Denying DEF consent, pending
  <1>3. CASE ~RequiresApproval(This)
    <2>1. Allow
      BY <1>3 DEF AuthorizeNone
    <2>2. Consented(This)'
      BY <1>1, <1>3, <2>1 DEF Allow, Consented, Changes, RequiresApproval, This, request
    <2>3. QED
      BY <1>1, <2>1, <2>2, Waiting, Allowing DEF consent
  <1>4. QED
    BY <1>2, <1>3

LEMMA AuthorizeAPIKeeps == IInv /\ AuthorizeAPI => IInv'
  <1> SUFFICES ASSUME IInv, AuthorizeAPI PROVE IInv'
    OBVIOUS
  <1> DEFINE missing == Deletions(This) \ confirmed
  <1>1. pc = "authorize" /\ mode = "api" /\ UNCHANGED consent
    BY DEF AuthorizeAPI
  <1>2. missing \subseteq Paths
    BY <1>1, Waiting DEF Deletions, Call
  <1>3. CASE Deny /\ askDeletes' = askDeletes \cup missing /\ UNCHANGED askTools
    BY <1>1, <1>2, <1>3, Waiting, Denying DEF consent
  <1>4. CASE Deny /\ askTools' = askTools \cup {This.tool} /\ UNCHANGED askDeletes
    BY <1>1, <1>4, Waiting, Denying DEF consent
  <1>5. CASE /\ missing = {} /\ Allow
             /\ NeedsToolApproval(This) => This.tool \in approved
    <2>1. Consented(This)
      BY <1>1, <1>5 DEF Consented, Changes, NeedsToolApproval, OnlyDeletes, Deletions
    <2>2. Consented(This)'
      BY <1>1, <1>5, <2>1
         DEF Allow, Consented, Changes, RequiresApproval, This, request, consent
    <2>3. QED
      BY <1>1, <1>5, <2>2, Waiting, Allowing DEF consent
  <1>6. QED
    BY <1>3, <1>4, <1>5 DEF AuthorizeAPI

LEMMA AuthorizeTerminalKeeps == IInv /\ AuthorizeTerminal => IInv'
  <1> SUFFICES ASSUME IInv, AuthorizeTerminal PROVE IInv'
    OBVIOUS
  <1>1. pc = "authorize" /\ mode = "terminal"
    BY DEF AuthorizeTerminal
  <1>2. PICK deleteAnswer, actionAnswer \in BOOLEAN :
          LET asksDelete == Deletions(This) # {}
              asksAction == NeedsToolApproval(This)
              refused == \/ asksDelete /\ ~deleteAnswer
                         \/ asksAction /\ ~actionAnswer
          IN  /\ yesDelete' = IF asksDelete /\ deleteAnswer
                              THEN yesDelete \cup {This} ELSE yesDelete
              /\ yes' = IF asksAction /\ actionAnswer /\ ~(asksDelete /\ ~deleteAnswer)
                        THEN yes \cup {This} ELSE yes
              /\ IF refused THEN Deny /\ UNCHANGED pending ELSE Allow
    BY DEF AuthorizeTerminal
  <1> DEFINE refused == \/ Deletions(This) # {} /\ ~deleteAnswer
                        \/ NeedsToolApproval(This) /\ ~actionAnswer
  <1>3. /\ yes \subseteq yes' /\ yesDelete \subseteq yesDelete'
        /\ yes' \subseteq Call /\ yesDelete' \subseteq Call
    BY <1>1, <1>2, Waiting
  <1>4. CASE refused
    <2>1. Deny /\ UNCHANGED pending
      BY <1>2, <1>4
    <2>2. QED
      BY <1>1, <1>3, <2>1, Waiting, Denying DEF pending
  <1>5. CASE ~refused
    <2>1. Allow
      BY <1>2, <1>5
    <2>2. /\ Deletions(This) # {} => This \in yesDelete'
          /\ NeedsToolApproval(This) => This \in yes'
      BY <1>2, <1>5
    <2>3. mode' = mode /\ This' = This
      BY <2>1 DEF Allow, This, request
    <2>4. Consented(This)'
      BY <1>1, <2>2, <2>3
         DEF Consented, Changes, RequiresApproval, NeedsToolApproval, OnlyDeletes, Deletions
    <2>5. QED
      BY <1>1, <1>3, <2>1, <2>4, Allowing
  <1>6. QED
    BY <1>4, <1>5

LEMMA HandlerKeeps ==
  ASSUME IInv, HandlerSkipped \/ RunHandler
  PROVE  IInv'
  <1>1. /\ pc = "handle" /\ This.writes \cup This.deletes \subseteq Paths
        /\ UNCHANGED <<request, consent, cancelled, step, raw, seen, pending, ending>>
    BY Waiting DEF HandlerSkipped, RunHandler, Call
  <1>2. /\ \E ran \in BOOLEAN, status \in {"ok", "error"}, changed \in SUBSET Paths :
             Record(ran, status, changed) /\ (status = "ok" => ran)
        /\ touched' \subseteq Paths /\ edited' \subseteq Paths /\ unreported' \subseteq Paths
    <2>1. touched \subseteq Paths /\ edited \subseteq Paths /\ unreported \subseteq Paths
      BY DEF IInv, TypeOK
    <2>2. CASE HandlerSkipped
      <3>1. Record(FALSE, "error", {}) /\ {} \in SUBSET Paths /\ UNCHANGED files
        BY <2>2 DEF HandlerSkipped
      <3>2. "error" \in {"ok", "error"} /\ ("error" = "ok" => FALSE)
        OBVIOUS
      <3>3. QED
        BY <2>1, <3>1, <3>2 DEF files
    <2>3. CASE RunHandler
      <3> DEFINE plan == This.writes \cup This.deletes
                 applies == This.tool = Editor /\ ~This.dryRun
      <3>1. plan \in SUBSET Paths /\ {} \in SUBSET Paths
        BY <1>1
      <3>2. CASE /\ Record(TRUE, "ok", IF applies THEN plan ELSE {})
                 /\ edited' = IF applies THEN edited \cup plan ELSE edited
                 /\ touched' \in {touched, touched \cup (IF applies THEN plan ELSE {})}
                 /\ unreported' = unreported
        <4>1. (IF applies THEN plan ELSE {}) \in SUBSET Paths
          BY <3>1
        <4>2. touched' \subseteq Paths /\ edited' \subseteq Paths /\ unreported' \subseteq Paths
          BY <2>1, <3>1, <3>2
        <4>3. QED
          BY <3>2, <4>1, <4>2
      <3>3. CASE /\ Record(TRUE, "error", {})
                 /\ \E left \in SUBSET (IF applies THEN plan ELSE {}) :
                      /\ unreported' = unreported \cup left
                      /\ touched' \in {touched} \cup
                                      (IF left = plan THEN {touched \cup left} ELSE {})
                 /\ edited' = edited
        <4>1. PICK left \in SUBSET (IF applies THEN plan ELSE {}) :
                /\ unreported' = unreported \cup left
                /\ touched' \in {touched} \cup
                                (IF left = plan THEN {touched \cup left} ELSE {})
          BY <3>3
        <4>2. touched' \subseteq Paths /\ edited' \subseteq Paths /\ unreported' \subseteq Paths
          BY <2>1, <3>1, <3>3, <4>1
        <4>3. QED
          BY <3>1, <3>3, <4>2
      <3>4. QED
        BY <2>3, <3>2, <3>3 DEF RunHandler
    <2>4. QED
      BY <2>2, <2>3
  <1>3. PICK ran \in BOOLEAN, status \in {"ok", "error"}, changed \in SUBSET Paths :
          Record(ran, status, changed) /\ (status = "ok" => ran)
    BY <1>2
  <1>4. Consented(This)
    BY <1>1 DEF IInv, Cleared
  <1>5. QED
    BY <1>1, <1>2, <1>3, <1>4, Waiting, Recording DEF Working

LEMMA ReportKeeps == IInv /\ Report => IInv'
  <1> SUFFICES ASSUME IInv, Report PROVE IInv'
    OBVIOUS
  <1>1. /\ pc = "report" /\ pc' = "ask"
        /\ conversation' = Append(conversation, ResultMessage(results))
        /\ UNCHANGED <<request, consent, cancelled, step, raw, batch, seen, results,
                       log, pending, ending, files>>
    BY DEF Report, Reported
  <1>2. TypeOK'
    <2>1. ResultMessage(results) \in Message
      BY DEF ResultMessage, Message, IInv, TypeOK
    <2>2. conversation' \in Seq(Message)
      BY <1>1, <2>1 DEF IInv, TypeOK
    <2>3. QED
      BY <1>1, <2>2 DEF IInv, TypeOK, PC, request, consent, pending, ending, files
  <1>3. /\ Room' /\ Len(log') <= MaxToolCalls /\ Remembered' /\ OncePerCall'
        /\ Cleared' /\ Asked' /\ Truthful'
    BY <1>1 DEF IInv, Room, Working, Remembered, OncePerCall, Cleared, Asked, Truthful
  <1>4. ConsentedOnly'
    BY <1>1 DEF IInv, ConsentedOnly, Consented, Changes, RequiresApproval, request,
                consent
  <1>5. AmbiguousNeverActs' /\ Over'
    BY <1>1 DEF IInv, AmbiguousNeverActs, Over, pending, ending
  <1>6. QED
    BY <1>2, <1>3, <1>4, <1>5 DEF IInv

\* The files the results name are workspace paths.
LEMMA ChangedPaths == TypeOK => Changed \subseteq Paths
  <1>1. ASSUME TypeOK PROVE \A i \in 1 .. Len(log) : log[i].changed \subseteq Paths
    <2>1. \A i \in 1 .. Len(log) : log[i] \in Entry
      BY <1>1 DEF TypeOK
    <2>2. QED
      BY <2>1 DEF Entry
  <1>2. QED
    BY <1>1 DEF Changed

\* What the callers answer when Run has returned.
LEMMA AnswerKeeps ==
  ASSUME IInv, AnswerPending \/ AnswerError \/ AnswerOkAPI \/ AnswerOkTerminal
  PROVE  IInv'
  <1>1. /\ pc = "returned" /\ pc' = "done"
        /\ UNCHANGED <<request, consent, cancelled, step, raw, batch, seen, talk,
                       pending, outcome, edited, unreported>>
    BY DEF AnswerPending, AnswerError, AnswerOkAPI, AnswerOkTerminal, KeepRunEnded
  <1>2. written = {} /\ Changed \subseteq Paths /\ touched \subseteq Paths
    BY <1>1, ChangedPaths DEF IInv, Over, TypeOK
  <1>3. /\ << >> \in Seq({"user", "assistant"})
        /\ <<"user">> \in Seq({"user", "assistant"})
        /\ <<"assistant">> \in Seq({"user", "assistant"})
        /\ <<"user", "assistant">> \in Seq({"user", "assistant"})
    OBVIOUS
  <1>4. /\ answer' \in Answer /\ written' \subseteq Paths /\ touched' \subseteq Paths
        /\ history' \in Seq({"user", "assistant"})
    <2>1. CASE AnswerPending \/ AnswerError
      BY <2>1 DEF AnswerPending, AnswerError, Answer, IInv, TypeOK
    <2>2. CASE AnswerOkAPI
      BY <1>2, <1>3, <2>2 DEF AnswerOkAPI, Answer
    <2>3. CASE AnswerOkTerminal
      BY <1>2, <1>3, <2>3 DEF AnswerOkTerminal, Answer
    <2>4. QED
      BY <2>1, <2>2, <2>3
  <1>5. TypeOK'
    BY <1>1, <1>4 DEF IInv, TypeOK, PC, request, consent, pending, talk
  <1>6. AmbiguousNeverActs'
    BY <1>1 DEF IInv, AmbiguousNeverActs
  <1>7. QED
    BY <1>1, <1>5, <1>6, Ending DEF talk

-----------------------------------------------------------------------------
(* The invariant, and what follows from it.                                *)

LEMMA Inductive == IInv /\ [Next]_vars => IInv'
  <1> SUFFICES ASSUME IInv, [Next]_vars PROVE IInv'
    OBVIOUS
  <1>1. CASE \/ StepLimit \/ StopsCancelled \/ SendFails \/ ReusedId
             \/ \E e \in Envelopes : RejectResponse(e) \/ Finish(e) \/ RefuseBatch(e)
    BY <1>1, ReturnKeeps
  <1>2. CASE \E e \in Envelopes : StartBatch(e)
    BY <1>2, StartBatchKeeps
  <1>2a. CASE AskModel
    BY <1>2a, AskModelKeeps
  <1>3. CASE RefuseCall \/ AcceptCall
    BY <1>3, RefuseCallKeeps, AcceptCallKeeps
  <1>4. CASE AuthorizeNone \/ AuthorizeAPI \/ AuthorizeTerminal
    BY <1>4, AuthorizeNoneKeeps, AuthorizeAPIKeeps, AuthorizeTerminalKeeps
  <1>5. CASE HandlerSkipped \/ RunHandler
    BY <1>5, HandlerKeeps
  <1>6. CASE Report
    BY <1>6, ReportKeeps
  <1>7. CASE AnswerPending \/ AnswerError \/ AnswerOkAPI \/ AnswerOkTerminal
    BY <1>7, AnswerKeeps
  <1>8. CASE Cancel
    BY <1>8, CancelKeeps
  <1>9. CASE UNCHANGED vars
    <2>1. UNCHANGED <<request, consent, cancelled, pc, step, raw, batch, seen, talk,
                      pending, ending, files>>
      BY <1>9 DEF vars
    <2>2. TypeOK'
      BY <2>1 DEF IInv, TypeOK, request, consent, pending, ending, talk, files
    <2>3. /\ Room' /\ Len(log') <= MaxToolCalls /\ Remembered' /\ OncePerCall'
          /\ Asked' /\ Truthful'
      BY <2>1 DEF IInv, Room, Remembered, OncePerCall, Asked, Truthful, This, talk
    <2>4. Cleared' /\ ConsentedOnly'
      BY <2>1 DEF IInv, Cleared, ConsentedOnly, Consented, Changes, RequiresApproval,
                  This, request, consent, talk
    <2>5. AmbiguousNeverActs' /\ Over'
      BY <2>1 DEF IInv, AmbiguousNeverActs, Over, pending, ending
    <2>6. QED
      BY <2>2, <2>3, <2>4, <2>5 DEF IInv
  <1>10. QED
    BY <1>1, <1>2, <1>2a, <1>3, <1>4, <1>5, <1>6, <1>7, <1>8, <1>9
       DEF Next, Step, Others

\* What every step of Runner.Run and ToolRegistry.Execute keeps.
THEOREM AgentInvariant == Spec => []IInv
  BY Initially, Inductive, PTL DEF Spec

\* Every variable of a run keeps its type.
THEOREM AgentTypeCorrect == Spec => []TypeOK
  <1>1. IInv => TypeOK
    BY DEF IInv
  <1>2. QED
    BY <1>1, AgentInvariant, PTL

\* No tool handler of ToolRegistry.Execute runs for a change the user did not
\* consent to, whichever caller authorizes it.
THEOREM ConsentBeforeChange == Spec => []ConsentedOnly
  <1>1. IInv => ConsentedOnly
    BY DEF IInv
  <1>2. QED
    BY <1>1, AgentInvariant, PTL

\* No tool call id is executed twice in a run of Runner.Run.
THEOREM ExecutedOnce == Spec => []OncePerCall
  <1>1. IInv => OncePerCall
    BY DEF IInv
  <1>2. QED
    BY <1>1, AgentInvariant, PTL

\* The step and call limits of Runner.Run are kept, whatever the model asks.
THEOREM LimitsKept == Spec => []WithinLimits
  <1>1. IInv => WithinLimits
    BY LimitAssumption DEF IInv, TypeOK, WithinLimits
  <1>2. QED
    BY <1>1, AgentInvariant, PTL

\* Only a plain request for tools leads to a handler, and nothing that may hide
\* one ends the run as its final answer.
THEOREM PlainAnswersOnly == Spec => []AmbiguousNeverActs
  <1>1. IInv => AmbiguousNeverActs
    BY DEF IInv
  <1>2. QED
    BY <1>1, AgentInvariant, PTL

\* What ToolRegistry.Execute runs was asked for, consented to, and runs once.
THEOREM ConsentAlwaysHonoured == Spec => []ConsentHonoured
  <1>1. ConsentedOnly /\ OncePerCall /\ AmbiguousNeverActs => ConsentHonoured
    BY DEF ConsentHonoured
  <1>2. QED
    BY <1>1, ConsentBeforeChange, ExecutedOnce, PlainAnswersOnly, PTL

\* Once the user refused, Runner.Run executes nothing more.
THEOREM DenialEnds == Spec => DenialIsFinal
  <1> DEFINE refused == askTools # {} \/ askDeletes # {} \/ outcome = "denied"
  <1>1. IInv /\ [Next]_vars => [refused => log' = log]_vars
    <2> SUFFICES ASSUME IInv, Next, refused
                 PROVE  log' = log
      BY DEF vars
    <2>1. pc \in {"returned", "done"}
      BY DEF IInv, Over
    <2>2. Cancel \/ AnswerPending \/ AnswerError \/ AnswerOkAPI \/ AnswerOkTerminal
      BY <2>1 DEF Next, Step, Others, StepLimit, StopsCancelled, AskModel, SendFails,
                  RejectResponse, Finish, RefuseBatch, StartBatch, ReusedId,
                  RefuseCall, AcceptCall, AuthorizeNone, AuthorizeAPI,
                  AuthorizeTerminal, HandlerSkipped, RunHandler, Report
    <2>3. QED
      BY <2>2 DEF Cancel, AnswerPending, AnswerError, AnswerOkAPI, AnswerOkTerminal,
                  KeepRunEnded, talk
  <1>2. QED
    BY <1>1, AgentInvariant, PTL DEF Spec, DenialIsFinal

-----------------------------------------------------------------------------
(* What the model is told.                                                 *)

Batching == pc \in {"call", "authorize", "handle", "report"}
Running == pc \notin {"returned", "done"}

Told(r) == \E i \in 1 .. Len(conversation) :
             \E k \in 1 .. Len(conversation[i].results) : conversation[i].results[k] = r
Noted(r) == \E k \in 1 .. Len(results) : results[k] = r
Logged(r) == \E j \in 1 .. Len(log) : log[j] = r

\* Every request but that of the batch at hand is answered by the message after it.
Paired ==
  \A i \in 1 .. Len(conversation) :
    conversation[i].role = "assistant" =>
      \/ i < Len(conversation) /\ ReportsOn(conversation[i + 1], conversation[i])
      \/ i = Len(conversation) /\ Batching

\* What there is of results, followed by what is left of the batch, are the
\* calls of the last message.
InStep ==
  Batching =>
    LET asked == conversation[Len(conversation)].calls
    IN  /\ conversation # << >>
        /\ Len(results) + Len(batch) = Len(asked)
        /\ \A k \in 1 .. Len(results) : results[k].call = asked[k]
        /\ \A k \in 1 .. Len(batch) : batch[k] = asked[Len(results) + k]
        /\ pc = "report" => batch = << >>

\* The results told, and those of the batch at hand, are those logged.
SameResults ==
  /\ \A i \in 1 .. Len(conversation) :
       \A k \in 1 .. Len(conversation[i].results) : Logged(conversation[i].results[k])
  /\ Batching => \A k \in 1 .. Len(results) : Logged(results[k])
  /\ \A j \in 1 .. Len(log) : Told(log[j]) \/ (Batching /\ Noted(log[j]))

TalkInv == Running => Paired /\ InStep /\ SameResults

LEMMA StartBatchTells ==
  ASSUME IInv, TalkInv, NEW e \in Envelopes, StartBatch(e)
  PROVE  TalkInv'
  <1>1. /\ pc = "send" /\ pc' = "call" /\ log' = log /\ results' = << >>
        /\ batch' = Normalize(e).calls
        /\ conversation' = Append(conversation, AssistantMessage(batch'))
    BY DEF StartBatch
  <1>2. batch' \in Seq(Call) /\ conversation \in Seq(Message)
    BY <1>1, Answers DEF IInv, TypeOK
  <1>3. AssistantMessage(batch') \in Message
    BY <1>2 DEF AssistantMessage, Message
  <1>4. /\ Len(conversation') = Len(conversation) + 1 /\ Len(conversation) \in Nat
        /\ \A i \in 1 .. Len(conversation) : conversation'[i] = conversation[i]
        /\ conversation'[Len(conversation')] = AssistantMessage(batch')
        /\ conversation' # << >>
    BY <1>1, <1>2, <1>3
  <1>5. ~Batching /\ Batching' /\ Paired /\ SameResults
    BY <1>1 DEF Batching, TalkInv, Running
  <1>6. Paired'
    BY <1>4, <1>5 DEF Paired, ReportsOn
  <1>7. InStep'
    BY <1>1, <1>2, <1>4 DEF InStep, AssistantMessage
  <1>8. SameResults'
    <2>1. AssistantMessage(batch').results = << >>
      BY DEF AssistantMessage
    <2>2. \A j \in 1 .. Len(log) : Told(log[j])
      BY <1>5 DEF SameResults
    <2>3. ASSUME NEW j \in 1 .. Len(log') PROVE Told(log[j])'
      <3>1. PICK i \in 1 .. Len(conversation) :
              \E k \in 1 .. Len(conversation[i].results) :
                conversation[i].results[k] = log[j]
        BY <1>1, <2>2 DEF Told
      <3>2. i \in 1 .. Len(conversation') /\ conversation'[i] = conversation[i]
        BY <1>4
      <3>3. QED
        BY <1>1, <3>1, <3>2 DEF Told
    <2>4. \A i \in 1 .. Len(conversation') :
            \A k \in 1 .. Len(conversation'[i].results) :
              Logged(conversation[i].results[k])'
      BY <1>1, <1>4, <1>5, <2>1 DEF SameResults, Logged
    <2>5. QED
      BY <1>1, <2>3, <2>4 DEF SameResults
  <1>9. QED
    BY <1>6, <1>7, <1>8 DEF TalkInv

LEMMA RecordTells ==
  ASSUME IInv, TalkInv, pc \in Working, NEW ran \in BOOLEAN,
         NEW status \in {"ok", "error", "denied"}, NEW changed \in SUBSET Paths,
         Record(ran, status, changed)
  PROVE  TalkInv'
  <1>0. PICK r : r = Result(This, ran, status, changed)
    OBVIOUS
  <1>1. /\ log' = Append(log, r) /\ results' = Append(results, r)
        /\ batch' = Tail(batch) /\ conversation' = conversation
        /\ pc' \in {"call", "report"} /\ (pc' = "report" => ~(Len(batch) > 1))
    BY <1>0 DEF Record, Note
  <1>2. /\ batch \in Seq(Call) /\ batch # << >> /\ log \in Seq(Entry)
        /\ results \in Seq(Entry) /\ conversation \in Seq(Message)
    BY DEF IInv, TypeOK, Room, Message
  <1>3. This \in Call /\ r \in Entry /\ r.call = This
    BY <1>0, <1>2 DEF This, Result, Entry
  <1>4. /\ Len(log') = Len(log) + 1 /\ Len(log) \in Nat
        /\ \A j \in 1 .. Len(log) : log'[j] = log[j]
        /\ log'[Len(log')] = r
    BY <1>1, <1>2, <1>3
  <1>5. /\ Len(results') = Len(results) + 1 /\ Len(results) \in Nat
        /\ \A k \in 1 .. Len(results) : results'[k] = results[k]
        /\ results'[Len(results')] = r
    BY <1>1, <1>2, <1>3
  <1>6. /\ Len(batch') = Len(batch) - 1 /\ Len(batch) \in Nat \ {0} /\ This = batch[1]
        /\ \A k \in 1 .. Len(batch') : batch'[k] = batch[k + 1]
        /\ Len(batch') = 0 => batch' = << >>
    BY <1>1, <1>2 DEF This
  <1>7. Batching /\ Batching' /\ Running /\ Paired /\ InStep /\ SameResults
    BY <1>1 DEF Batching, Working, TalkInv, Running
  <1>8. Paired'
    BY <1>1, <1>7 DEF Paired, ReportsOn
  <1>9. InStep'
    <2> DEFINE asked == conversation[Len(conversation)].calls
    <2>1. /\ conversation # << >> /\ Len(results) + Len(batch) = Len(asked)
          /\ \A k \in 1 .. Len(results) : results[k].call = asked[k]
          /\ \A k \in 1 .. Len(batch) : batch[k] = asked[Len(results) + k]
      BY <1>7 DEF InStep
    <2> HIDE DEF asked
    <2>2. r.call = asked[Len(results) + 1]
      <3>1. 1 \in 1 .. Len(batch)
        BY <1>6
      <3>2. batch[1] = asked[Len(results) + 1]
        BY <2>1, <3>1
      <3>3. QED
        BY <1>3, <1>6, <3>2
    <2>3. Len(results') + Len(batch') = Len(asked)
      <3>1. Len(results') = Len(results) + 1 /\ Len(results) \in Nat
        BY <1>5
      <3>2. Len(batch') = Len(batch) - 1 /\ Len(batch) \in Nat
        BY <1>6
      <3>3. Len(results) + Len(batch) = Len(asked)
        BY <2>1
      <3>4. QED
        BY <3>1, <3>2, <3>3
    <2>4. \A k \in 1 .. Len(results') : results'[k].call = asked[k]
      BY <1>5, <2>1, <2>2
    <2>5. \A k \in 1 .. Len(batch') : batch'[k] = asked[Len(results') + k]
      <3> SUFFICES ASSUME NEW k \in 1 .. Len(batch')
                   PROVE  batch'[k] = asked[Len(results') + k]
        OBVIOUS
      <3>1. k + 1 \in 1 .. Len(batch) /\ batch'[k] = batch[k + 1]
        BY <1>6
      <3>2. Len(results) + (k + 1) = Len(results') + k
        BY <1>5
      <3>3. QED
        BY <2>1, <3>1, <3>2
    <2>6. asked' = asked
      BY <1>1 DEF asked
    <2>7. pc' = "report" => batch' = << >>
      BY <1>1, <1>6
    <2>8. QED
      BY <1>1, <2>1, <2>3, <2>4, <2>5, <2>6, <2>7 DEF InStep, asked
  <1>10. SameResults'
    <2>1. \A x : Logged(x) => Logged(x)'
      BY <1>4 DEF Logged
    <2>2. /\ \A k \in 1 .. Len(results') : Logged(results[k])'
          /\ \A j \in 1 .. Len(log') : Told(log[j])' \/ Noted(log[j])'
      <3>1. Logged(r)' /\ Noted(r)'
        BY <1>4, <1>5 DEF Logged, Noted
      <3>2. \A j \in 1 .. Len(log) : Told(log[j]) \/ Noted(log[j])
        BY <1>7 DEF SameResults
      <3>3. \A k \in 1 .. Len(results) : Logged(results[k])
        BY <1>7 DEF SameResults
      <3>4. \A k \in 1 .. Len(results') : Logged(results[k])'
        BY <1>4, <1>5, <3>3 DEF Logged
      <3>5. ASSUME NEW j \in 1 .. Len(log') PROVE Told(log[j])' \/ Noted(log[j])'
        <4>1. CASE j = Len(log')
          BY <1>4, <3>1, <4>1 DEF Noted
        <4>2. CASE j \in 1 .. Len(log)
          <5>1. log'[j] = log[j]
            BY <1>4, <4>2
          <5>2. Told(log[j]) => Told(log[j])'
            BY <1>1, <5>1 DEF Told
          <5>3. Noted(log[j]) => Noted(log[j])'
            BY <1>5, <5>1 DEF Noted
          <5>4. QED
            BY <3>2, <4>2, <5>2, <5>3
        <4>3. QED
          <5>1. j = Len(log') \/ j \in 1 .. Len(log)
            BY <1>4
          <5>2. QED
            BY <4>1, <4>2, <5>1
      <3>6. QED
        BY <3>4, <3>5
    <2>3. \A i \in 1 .. Len(conversation') :
            \A k \in 1 .. Len(conversation'[i].results) :
              Logged(conversation[i].results[k])'
      BY <1>1, <1>4, <1>7 DEF SameResults, Logged
    <2>4. QED
      BY <1>7, <2>2, <2>3 DEF SameResults
  <1>11. QED
    BY <1>8, <1>9, <1>10 DEF TalkInv

LEMMA ReportTells == IInv /\ TalkInv /\ Report => TalkInv'
  <1> SUFFICES ASSUME IInv, TalkInv, Report PROVE TalkInv'
    OBVIOUS
  <1> DEFINE m == ResultMessage(results)
  <1>1. /\ pc = "report" /\ pc' = "ask" /\ log' = log /\ results' = results
        /\ conversation' = Append(conversation, m)
    BY DEF Report, Reported
  <1>2. results \in Seq(Entry) /\ conversation \in Seq(Message)
    BY DEF IInv, TypeOK
  <1>3. m \in Message /\ m.results = results /\ m.role = "user"
    BY <1>2 DEF ResultMessage, Message
  <1> HIDE DEF m
  <1>4. /\ Len(conversation') = Len(conversation) + 1 /\ Len(conversation) \in Nat
        /\ \A i \in 1 .. Len(conversation) : conversation'[i] = conversation[i]
        /\ conversation'[Len(conversation) + 1] = m
    BY <1>1, <1>2, <1>3
  <1>5. Batching /\ ~Batching' /\ Paired /\ InStep /\ SameResults
    BY <1>1 DEF Batching, TalkInv, Running
  <1>6. ReportsOn(m, conversation[Len(conversation)])
    <2>1. batch = << >> /\ Len(batch) = 0 /\ Len(results) \in Nat
      BY <1>1, <1>2, <1>5 DEF InStep
    <2>2. QED
      BY <1>3, <1>5, <2>1 DEF ReportsOn, InStep
  <1>7. Paired'
    <2> SUFFICES ASSUME NEW i \in 1 .. Len(conversation'),
                        conversation'[i].role = "assistant"
                 PROVE  /\ i < Len(conversation')
                        /\ ReportsOn(conversation[i + 1], conversation[i])'
      BY DEF Paired
    <2>1. i \in 1 .. Len(conversation) /\ conversation[i].role = "assistant"
      BY <1>3, <1>4
    <2>2. CASE i = Len(conversation)
      BY <1>4, <1>6, <2>1, <2>2 DEF ReportsOn
    <2>3. CASE i < Len(conversation)
      <3>1. ReportsOn(conversation[i + 1], conversation[i])
        BY <1>5, <2>1, <2>3 DEF Paired
      <3>2. conversation'[i] = conversation[i] /\ conversation'[i + 1] = conversation[i + 1]
        BY <1>4, <2>1, <2>3
      <3>3. QED
        BY <1>4, <2>3, <3>1, <3>2 DEF ReportsOn
    <2>4. QED
      BY <1>4, <2>1, <2>2, <2>3
  <1>8. SameResults'
    <2>1. \A j \in 1 .. Len(log') : Told(log[j])'
      <3>1. \A j \in 1 .. Len(log) : Told(log[j]) \/ Noted(log[j])
        BY <1>5 DEF SameResults
      <3> SUFFICES ASSUME NEW j \in 1 .. Len(log) PROVE Told(log[j])'
        BY <1>1
      <3>2. CASE Told(log[j])
        BY <1>1, <1>4, <3>2 DEF Told
      <3>3. CASE Noted(log[j])
        <4>1. PICK k \in 1 .. Len(results) : results[k] = log[j]
          BY <3>3 DEF Noted
        <4>2. conversation'[Len(conversation')].results[k] = log'[j]
          BY <1>1, <1>3, <1>4, <4>1
        <4>3. Len(conversation') \in 1 .. Len(conversation')
          BY <1>4
        <4>4. k \in 1 .. Len(conversation'[Len(conversation')].results)
          BY <1>3, <1>4, <4>1
        <4>5. QED
          BY <4>2, <4>3, <4>4 DEF Told
      <3>4. QED
        BY <3>1, <3>2, <3>3
    <2>2. \A k \in 1 .. Len(m.results) : Logged(m.results[k])
      BY <1>3, <1>5 DEF SameResults
    <2>3. \A i \in 1 .. Len(conversation') :
            \A k \in 1 .. Len(conversation'[i].results) :
              Logged(conversation[i].results[k])'
      BY <1>1, <1>4, <1>5, <2>2 DEF SameResults, Logged
    <2>4. QED
      BY <1>5, <2>1, <2>3 DEF SameResults
  <1>9. InStep'
    BY <1>5 DEF InStep
  <1>10. QED
    BY <1>7, <1>8, <1>9 DEF TalkInv

\* A step that keeps the messages and stays inside or outside a batch.
LEMMA SilentStep ==
  ASSUME TalkInv, Running, UNCHANGED <<batch, talk>>, Batching' <=> Batching,
         pc' = "report" => pc = "report"
  PROVE  TalkInv'
  <1>1. Paired /\ InStep /\ SameResults
    BY DEF TalkInv
  <1>2. /\ conversation' = conversation /\ results' = results /\ log' = log
        /\ batch' = batch
    BY DEF talk
  <1>3. Paired'
    BY <1>1, <1>2 DEF Paired, ReportsOn
  <1>4. InStep'
    BY <1>1, <1>2 DEF InStep
  <1>5. SameResults'
    BY <1>1, <1>2 DEF SameResults, Told, Noted, Logged
  <1>6. QED
    BY <1>3, <1>4, <1>5 DEF TalkInv

LEMMA TalkKept == IInv /\ TalkInv /\ [Next]_vars => TalkInv'
  <1> SUFFICES ASSUME IInv, TalkInv, [Next]_vars PROVE TalkInv'
    OBVIOUS
  <1>1. CASE pc' \in {"returned", "done"}
    BY <1>1 DEF TalkInv, Running
  <1>2. CASE \E e \in Envelopes : StartBatch(e)
    BY <1>2, StartBatchTells
  <1>3. CASE RefuseCall \/ HandlerSkipped
    <2>1. pc \in Working /\ Record(FALSE, "error", {}) /\ {} \in SUBSET Paths
      BY <1>3 DEF RefuseCall, HandlerSkipped, Working
    <2>2. QED
      BY <2>1, RecordTells
  <1>4. CASE RunHandler
    <2>1. pc \in Working /\ This.writes \cup This.deletes \subseteq Paths
      BY <1>4, Waiting DEF RunHandler, Working, Call
    <2>2. \E status \in {"ok", "error"}, changed \in SUBSET Paths :
            Record(TRUE, status, changed)
      BY <1>4, <2>1 DEF RunHandler
    <2>3. QED
      BY <2>1, <2>2, RecordTells
  <1>5. CASE Report
    BY <1>5, ReportTells
  <1>6. CASE AskModel
    <2>1. Running /\ UNCHANGED <<batch, talk>> /\ ~Batching /\ ~Batching' /\ pc' # "report"
      BY <1>6 DEF AskModel, KeepRun, Running, Batching
    <2>2. QED
      BY <2>1, SilentStep
  <1>7. CASE AcceptCall \/ (pc = "authorize" /\ Allow)
    <2>1. Running /\ UNCHANGED <<batch, talk>> /\ Batching /\ Batching' /\ pc' # "report"
      BY <1>7 DEF AcceptCall, Allow, Running, Batching
    <2>2. QED
      BY <2>1, SilentStep
  <1>8. CASE (Cancel \/ UNCHANGED vars) /\ Running
    <2>1. UNCHANGED <<batch, talk>> /\ pc' = pc
      BY <1>8 DEF Cancel, vars
    <2>2. QED
      BY <1>8, <2>1, SilentStep DEF Batching
  <1>9. CASE AuthorizeNone \/ AuthorizeAPI \/ AuthorizeTerminal
    <2>1. pc = "authorize" /\ (Allow \/ pc' = "returned")
      BY <1>9 DEF AuthorizeNone, AuthorizeAPI, AuthorizeTerminal, Deny, AfterDenial
    <2>2. QED
      BY <1>1, <1>7, <2>1
  <1>10. ASSUME \/ StepLimit \/ StopsCancelled \/ SendFails \/ ReusedId
                \/ \E e \in Envelopes : RejectResponse(e) \/ Finish(e) \/ RefuseBatch(e)
                \/ AnswerPending \/ AnswerError \/ AnswerOkAPI \/ AnswerOkTerminal
                \/ (Cancel \/ UNCHANGED vars) /\ ~Running
         PROVE  pc' \in {"returned", "done"}
    BY <1>10 DEF StepLimit, StopsCancelled, SendFails, ReusedId, RejectResponse, Finish,
                 RefuseBatch, Return, AnswerPending, AnswerError, AnswerOkAPI,
                 AnswerOkTerminal, Cancel, vars, Running
  <1>11. QED
    BY <1>1, <1>2, <1>3, <1>4, <1>5, <1>6, <1>7, <1>8, <1>9, <1>10
       DEF Next, Step, Others

\* Before Runner.Run asks the model again, its conversation holds the results of
\* all calls of each batch, in order and directly after the calls, and these are
\* the results of the run.
THEOREM ModelKnows == Spec => []ModelInformed
  <1>1. Init => TalkInv
    BY DEF Init, TalkInv, Paired, InStep, Batching, SameResults
  <1>2. TalkInv => ModelInformed
    BY DEF TalkInv, Running, Batching, Paired, SameResults, Told, Logged, ModelInformed
  <1>3. QED
    BY <1>1, <1>2, TalkKept, AgentInvariant, PTL DEF Spec

-----------------------------------------------------------------------------
(* What the caller is told.                                                *)

Refused == askTools # {} \/ askDeletes # {}

\* A denied call is the last of its run.
DenialsLast ==
  /\ \A i \in 1 .. Len(log) : Denied(log[i]) => i = Len(log) /\ outcome = "denied"
  /\ Refused => log # << >> /\ Denied(log[Len(log)])

\* The results name the files that were changed, and only files that were
\* changed are marked.
Accounted == edited = Changed /\ touched \subseteq edited \cup unreported

\* What an answer says.
Answered ==
  /\ answer = "ok" => /\ outcome = "final"
                      /\ IF mode = "api" THEN written = edited ELSE edited \subseteq touched
  /\ history # << >> => outcome = "final"
  /\ answer = "pending" => Refused

HonestInv == DenialsLast /\ Accounted /\ Answered

\* What one more result adds to the files named.
LEMMA OneMore ==
  ASSUME IInv, pc \in Working, NEW ran \in BOOLEAN,
         NEW status \in {"ok", "error", "denied"}, NEW changed \in SUBSET Paths,
         Note(ran, status, changed)
  PROVE  /\ Len(log') = Len(log) + 1 /\ Len(log) \in Nat
         /\ \A i \in 1 .. Len(log) : log'[i] = log[i]
         /\ log'[Len(log')] = Result(This, ran, status, changed)
         /\ log' # << >>
         /\ Changed' = Changed \cup
              (IF This.tool = Editor /\ status = "ok" THEN changed ELSE {})
  <1> DEFINE r == Result(This, ran, status, changed)
  <1>1. log' = Append(log, r) /\ log \in Seq(Entry) /\ batch \in Seq(Call) /\ batch # << >>
    BY DEF Note, IInv, TypeOK, Room
  <1>2. r \in Entry /\ r.call = This /\ r.status = status /\ r.changed = changed
    BY <1>1 DEF Result, This, Entry
  <1>3. /\ Len(log') = Len(log) + 1 /\ Len(log) \in Nat
        /\ \A i \in 1 .. Len(log) : log'[i] = log[i]
        /\ log'[Len(log')] = r
        /\ log' # << >>
    BY <1>1, <1>2
  <1>4. \A f : f \in Changed <=> \E i \in 1 .. Len(log) :
                                   Applied(log[i]) /\ f \in log[i].changed
    BY DEF Changed
  <1>5. \A f : f \in Changed' <=> \E i \in 1 .. Len(log') :
                                    Applied(log[i])' /\ f \in log'[i].changed
    BY DEF Changed
  <1>6. Applied(r) <=> This.tool = Editor /\ status = "ok"
    BY <1>2 DEF Applied
  <1> HIDE DEF r
  <1>7. \A f : f \in Changed' <=> f \in Changed \/ (Applied(r) /\ f \in changed)
    BY <1>2, <1>3, <1>4, <1>5 DEF Applied
  <1>8. Changed' = Changed \cup
          (IF This.tool = Editor /\ status = "ok" THEN changed ELSE {})
    BY <1>6, <1>7
  <1>9. QED
    BY <1>3, <1>8 DEF r

\* A run at work has no outcome, no answer and no denial yet.
LEMMA AtWork ==
  ASSUME IInv, HonestInv, pc \notin {"returned", "done"}
  PROVE  /\ outcome = "none" /\ answer = "none" /\ history = << >> /\ ~Refused
         /\ \A i \in 1 .. Len(log) : ~Denied(log[i])
  BY DEF IInv, Over, HonestInv, DenialsLast, Refused

\* A step that keeps the results, the files and the pending approvals.
LEMMA Uneventful ==
  ASSUME IInv, HonestInv, UNCHANGED <<mode, log, pending, files>>,
         UNCHANGED <<answer, written, history>>,
         outcome' = outcome \/ pc \notin {"returned", "done"}
  PROVE  HonestInv'
  <1>1. Changed' = Changed
    BY DEF Changed, Applied
  <1>2. DenialsLast'
    BY AtWork DEF HonestInv, DenialsLast, Denied, Refused, pending
  <1>3. Accounted'
    BY <1>1 DEF HonestInv, Accounted, files
  <1>4. Answered'
    BY AtWork DEF HonestInv, Answered, files, Refused, pending
  <1>5. QED
    BY <1>2, <1>3, <1>4 DEF HonestInv

\* A step that records a result that is no denial.
LEMMA RecordHonest ==
  ASSUME IInv, HonestInv, pc \in Working, NEW ran \in BOOLEAN,
         NEW status \in {"ok", "error"}, NEW changed \in SUBSET Paths,
         Note(ran, status, changed), UNCHANGED <<pending, ending>>,
         edited' = edited \cup
           (IF This.tool = Editor /\ status = "ok" THEN changed ELSE {}),
         touched' \subseteq edited' \cup unreported'
  PROVE  HonestInv'
  <1>1. /\ outcome = "none" /\ answer = "none" /\ history = << >> /\ ~Refused
        /\ \A i \in 1 .. Len(log) : ~Denied(log[i])
    BY AtWork DEF Working
  <1>2. /\ Len(log') = Len(log) + 1 /\ Len(log) \in Nat
        /\ \A i \in 1 .. Len(log) : log'[i] = log[i]
        /\ log'[Len(log')] = Result(This, ran, status, changed)
        /\ Changed' = Changed \cup
             (IF This.tool = Editor /\ status = "ok" THEN changed ELSE {})
    BY OneMore
  <1>3. DenialsLast'
    BY <1>1, <1>2 DEF DenialsLast, Denied, Result, Refused, pending
  <1>4. Accounted'
    BY <1>2 DEF HonestInv, Accounted
  <1>5. Answered'
    BY <1>1 DEF Answered, ending
  <1>6. QED
    BY <1>3, <1>4, <1>5 DEF HonestInv

LEMMA DenyHonest ==
  ASSUME IInv, HonestInv, pc = "authorize", Deny
  PROVE  HonestInv'
  <1>1. /\ answer = "none" /\ history = << >>
        /\ \A i \in 1 .. Len(log) : ~Denied(log[i])
    BY AtWork
  <1>2. /\ Note(FALSE, "denied", {}) /\ outcome' = "denied"
        /\ UNCHANGED <<answer, written, history, files>>
    BY DEF Deny, KeepCaller
  <1>3. /\ Len(log') = Len(log) + 1 /\ Len(log) \in Nat
        /\ \A i \in 1 .. Len(log) : log'[i] = log[i]
        /\ log'[Len(log')] = Result(This, FALSE, "denied", {})
        /\ log' # << >> /\ Changed' = Changed
    BY <1>2, {} \in SUBSET Paths, OneMore DEF Working
  <1>4. DenialsLast'
    BY <1>1, <1>2, <1>3 DEF DenialsLast, Denied, Result
  <1>5. Accounted' /\ Answered'
    BY <1>1, <1>2, <1>3 DEF HonestInv, Accounted, Answered, files
  <1>6. QED
    BY <1>4, <1>5 DEF HonestInv

LEMMA AnswersHonest ==
  ASSUME IInv, HonestInv,
         AnswerPending \/ AnswerError \/ AnswerOkAPI \/ AnswerOkTerminal
  PROVE  HonestInv'
  <1>1. /\ pc = "returned" /\ mode' = mode /\ log' = log /\ outcome' = outcome
        /\ UNCHANGED <<pending, edited, unreported>>
    BY DEF AnswerPending, AnswerError, AnswerOkAPI, AnswerOkTerminal, KeepRunEnded,
           talk, request
  <1>2. answer = "none" /\ history = << >> /\ written = {}
    BY <1>1 DEF IInv, Over
  <1>3. Changed' = Changed /\ edited = Changed /\ touched \subseteq edited \cup unreported
    BY <1>1 DEF Changed, Applied, HonestInv, Accounted
  <1>4. DenialsLast'
    BY <1>1 DEF HonestInv, DenialsLast, Denied, Refused, pending
  <1>5. touched' \in {touched, touched \cup Changed}
    BY DEF AnswerPending, AnswerError, AnswerOkAPI, AnswerOkTerminal
  <1>6. Accounted'
    BY <1>1, <1>3, <1>5 DEF Accounted
  <1>7. Answered'
    <2>1. CASE AnswerPending \/ AnswerError
      BY <1>1, <1>2, <2>1 DEF AnswerPending, AnswerError, Answered, Refused, pending
    <2>2. CASE AnswerOkAPI
      BY <1>1, <1>3, <2>2 DEF AnswerOkAPI, Answered
    <2>3. CASE AnswerOkTerminal
      <3>1. answer' = "ok" => Changed \subseteq touched'
        BY <2>3 DEF AnswerOkTerminal
      <3>2. answer' # "pending" /\ outcome = "final" /\ mode # "api"
        BY <2>3 DEF AnswerOkTerminal
      <3>3. QED
        BY <1>1, <1>3, <3>1, <3>2 DEF Answered
    <2>4. QED
      BY <2>1, <2>2, <2>3
  <1>8. QED
    BY <1>4, <1>6, <1>7 DEF HonestInv

LEMMA HonestKept == IInv /\ HonestInv /\ [Next]_vars => HonestInv'
  <1> SUFFICES ASSUME IInv, HonestInv, [Next]_vars PROVE HonestInv'
    OBVIOUS
  <1>1. CASE \/ StepLimit \/ StopsCancelled \/ AskModel \/ SendFails \/ ReusedId
             \/ \E e \in Envelopes : RejectResponse(e) \/ Finish(e) \/ RefuseBatch(e)
    <2>1. /\ pc \notin {"returned", "done"}
          /\ UNCHANGED <<mode, log, pending, files, answer, written, history>>
      BY <1>1 DEF StepLimit, StopsCancelled, AskModel, SendFails, ReusedId,
                  RejectResponse, Finish, RefuseBatch, KeepRun, KeepCaller, request,
                  talk, ending
    <2>2. QED
      BY <2>1, Uneventful
  <1>2. CASE \/ \E e \in Envelopes : StartBatch(e)
             \/ AcceptCall \/ Report \/ Cancel \/ UNCHANGED vars
             \/ pc = "authorize" /\ Allow
    <2>1. UNCHANGED <<mode, log, pending, files, answer, written, history, outcome>>
      BY <1>2 DEF StartBatch, AcceptCall, Report, Cancel, Allow, vars, request, talk, ending
    <2>2. QED
      BY <2>1, Uneventful
  <1>3. CASE RefuseCall \/ HandlerSkipped
    <2>1. /\ pc \in Working /\ Note(FALSE, "error", {})
          /\ UNCHANGED <<pending, ending, files>>
      BY <1>3 DEF RefuseCall, HandlerSkipped, Working, Record
    <2>2. /\ touched' \subseteq edited' \cup unreported' /\ {} \in SUBSET Paths
          /\ edited' = edited \cup
               (IF This.tool = Editor /\ "error" = "ok" THEN {} ELSE {})
      BY <2>1 DEF files, HonestInv, Accounted
    <2>3. QED
      BY <2>1, <2>2, RecordHonest
  <1>4. CASE RunHandler
    <2> DEFINE applies == This.tool = Editor /\ ~This.dryRun
               plan == This.writes \cup This.deletes
    <2>1. /\ pc \in Working /\ plan \subseteq Paths /\ UNCHANGED <<pending, ending>>
          /\ touched \subseteq edited \cup unreported
      BY <1>4, Waiting DEF RunHandler, Working, Call, HonestInv, Accounted
    <2>2. CASE /\ Note(TRUE, "ok", IF applies THEN plan ELSE {})
               /\ edited' = IF applies THEN edited \cup plan ELSE edited
               /\ touched' \in {touched, touched \cup (IF applies THEN plan ELSE {})}
               /\ unreported' = unreported
      <3>1. edited' = edited \cup (IF This.tool = Editor /\ "ok" = "ok"
                                   THEN (IF applies THEN plan ELSE {}) ELSE {})
        BY <2>2
      <3>2. touched' \subseteq edited' \cup unreported'
        BY <2>1, <2>2
      <3>3. QED
        BY <2>1, <2>2, <3>1, <3>2, RecordHonest
    <2>3. CASE /\ Note(TRUE, "error", {}) /\ edited' = edited
               /\ \E left \in SUBSET (IF applies THEN plan ELSE {}) :
                    /\ unreported' = unreported \cup left
                    /\ touched' \in {touched} \cup
                                    (IF left = plan THEN {touched \cup left} ELSE {})
      <3>1. touched' \subseteq edited' \cup unreported'
        BY <2>1, <2>3
      <3>2. QED
        <4>1. /\ {} \in SUBSET Paths
              /\ edited' = edited \cup
                   (IF This.tool = Editor /\ "error" = "ok" THEN {} ELSE {})
          BY <2>3
        <4>2. QED
          BY <2>1, <2>3, <3>1, <4>1, RecordHonest
    <2>4. QED
      BY <1>4, <2>2, <2>3 DEF RunHandler, Record
  <1>5. CASE AuthorizeNone \/ AuthorizeAPI \/ AuthorizeTerminal
    <2>1. pc = "authorize" /\ (Allow \/ Deny)
      BY <1>5 DEF AuthorizeNone, AuthorizeAPI, AuthorizeTerminal
    <2>2. QED
      BY <1>2, <2>1, DenyHonest
  <1>6. CASE AnswerPending \/ AnswerError \/ AnswerOkAPI \/ AnswerOkTerminal
    BY <1>6, AnswersHonest
  <1>7. QED
    BY <1>1, <1>2, <1>3, <1>4, <1>5, <1>6 DEF Next, Step, Others

\* agentRun and RunAgent call no run completed in which a call was refused, ask
\* for approval only for the last call, and account for all files changed.
THEOREM HonestAnswer == Spec => []AnswerHonest
  <1>1. Init => HonestInv
    BY DEF Init, HonestInv, DenialsLast, Refused, Accounted, Changed, Answered
  <1>2. ASSUME IInv, HonestInv PROVE AnswerHonest
    <2>1. outcome = "final" => \A i \in 1 .. Len(log) : ~Denied(log[i])
      BY <1>2 DEF HonestInv, DenialsLast
    <2>2. Len(log) \in Nat
      BY <1>2 DEF IInv, TypeOK
    <2>3. \A i \in 1 .. Len(log) - 1 : ~Denied(log[i])
      BY <1>2, <2>2 DEF HonestInv, DenialsLast
    <2>4. QED
      BY <1>2, <2>1, <2>3 DEF HonestInv, DenialsLast, Accounted, Answered, AnswerHonest
  <1>3. QED
    BY <1>1, <1>2, HonestKept, AgentInvariant, PTL DEF Spec
=============================================================================
