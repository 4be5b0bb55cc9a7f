----------------------- MODULE ProviderRegistryProofs -----------------------
(***************************************************************************)
(* What Registry.Send promises safely - one call to a provider at a time,  *)
(* no lock left behind, no empty answer, and which failures are moved to   *)
(* other providers - holds of ProviderRegistry for all callers, providers, *)
(* fallbacks and numbers of attempts and continuations.  And what the      *)
(* consumer of a stream gets from continueStream is what its rounds said,  *)
(* for any numbers of pieces and rounds.                                   *)
(***************************************************************************)
EXTENDS ProviderCalls, FiniteSetTheorems, SequenceTheorems, TLAPS

\* A caller at work is at a provider of its route.
Placed ==
  \A c \in Callers : pc[c] \in {"acquire", "wait", "call", "settle"} =>
    at[c] \in 1 .. Len(route[c])

\* Who waits or calls holds the lock of its provider, so two that do are at
\* different ones.
Holding ==
  \A c \in Callers : pc[c] \in {"wait", "call"} => lock[Now(c)] = c

\* A call is made when its provider has cooled down, and only the holder of
\* the lock heats it up.
Cooled == \A c \in Callers : pc[c] = "call" => cooling[Now(c)] = "none"

\* What a caller brings out of sendWithRetry, and what it has noted on its way.
Replied ==
  \A c \in Callers :
    /\ pc[c] = "settle" => reply[c] \in {"text"} \cup Errors
    /\ target[c] # Automatic => err[c] \in {"none", "busy", "model", "expired"}
    /\ result[c] # "none" => pc[c] = "done"

IInv == /\ TypeOK
        /\ Placed /\ Holding /\ Cooled /\ Replied
        /\ LocksReleased
        /\ NoEmptyAnswer /\ RefusalStays /\ FallbackExhausted

-----------------------------------------------------------------------------
(* Facts about the data.                                                   *)

LEMMA SequenceOfSet ==
  ASSUME NEW S, IsFiniteSet(S), NEW f \in SetToSeqs(S)
  PROVE  f \in Seq(S)
  <1>1. Cardinality(S) \in Nat
    BY FS_CardinalityType
  <1>2. f \in [1 .. Cardinality(S) -> S]
    BY DEF SetToSeqs
  <1>3. QED
    BY <1>1, <1>2

LEMMA WideSeq ==
  ASSUME NEW S, NEW T, S \subseteq T, NEW f \in Seq(S)
  PROVE  f \in Seq(T)
  <1>1. f \in [1 .. Len(f) -> S] /\ Len(f) \in Nat
    OBVIOUS
  <1>2. f \in [1 .. Len(f) -> T]
    BY <1>1
  <1>3. QED
    BY <1>1, <1>2

\* A sequence mentions finitely many things.
LEMMA FiniteRange ==
  ASSUME NEW S, NEW s \in Seq(S)
  PROVE  IsFiniteSet(ToSet(s)) /\ ToSet(s) \subseteq S
  <1>1. s \in Surjection(1 .. Len(s), ToSet(s))
    BY DEF Surjection, ToSet
  <1>2. IsFiniteSet(1 .. Len(s))
    BY FS_Interval
  <1>3. QED
    BY <1>1, <1>2, FS_Surjection DEF ToSet

LEMMA NamedRoute ==
  ASSUME NEW p \in Providers, NEW r \in Named(p)
  PROVE  r \in Seq(Providers)
  <1>1. Fallback \in Seq(Providers)
    BY RegistryAssumption
  <1>2. Without(Fallback, p) \in Seq(Providers)
    <2>1. CASE p \in ToSet(Fallback)
      <3> DEFINE i == CHOOSE i \in DOMAIN Fallback : Fallback[i] = p
      <3>1. i \in 1 .. Len(Fallback)
        BY <1>1, <2>1 DEF ToSet
      <3> HIDE DEF i
      <3>2. /\ SubSeq(Fallback, 1, i - 1) \in Seq(Providers)
            /\ SubSeq(Fallback, i + 1, Len(Fallback)) \in Seq(Providers)
        BY <1>1, <3>1
      <3>3. QED
        BY <2>1, <3>2 DEF Without, RemoveAt, i
    <2>2. CASE p \notin ToSet(Fallback)
      BY <1>1, <2>2 DEF Without
    <2>3. QED
      BY <2>1, <2>2
  <1>3. QED
    BY <1>2 DEF Named

LEMMA RoutedRoute ==
  ASSUME NEW r \in Routed
  PROVE  r \in Seq(Providers)
  <1> DEFINE ready == {p \in Providers : p \in ToSet(Fallback) /\ cooling[p] # "backoff"}
  <1>1. Fallback \in Seq(Providers)
    BY RegistryAssumption
  <1>2. CASE r = Fallback
    BY <1>1, <1>2
  <1>3. ASSUME NEW fit \in SUBSET ready, r \in SetToSeqs(fit)
        PROVE  r \in Seq(Providers)
    <2>1. IsFiniteSet(fit) /\ fit \subseteq Providers
      BY <1>1, FiniteRange, FS_Subset
    <2>2. r \in Seq(fit)
      BY <1>3, <2>1, SequenceOfSet
    <2>3. QED
      BY <2>1, <2>2, WideSeq
  <1>4. QED
    BY <1>2, <1>3 DEF Routed

\* The provider a caller is at.
LEMMA Here ==
  ASSUME IInv, NEW c \in Callers, pc[c] \in {"acquire", "wait", "call", "settle"}
  PROVE  Now(c) \in Providers
  BY DEF IInv, TypeOK, Placed, Now

-----------------------------------------------------------------------------
(* What the kinds of steps keep.                                           *)

\* A step of a caller outside sendWithRetry: locks and cooling stay, and so
\* does what they mean.
LEMMA Outside ==
  ASSUME IInv, NEW c \in Callers, pc[c] \notin {"wait", "call"},
         NEW label \in {"pick", "acquire", "done"}, Goto(c, label),
         UNCHANGED <<lock, cooling>>,
         \A d \in Callers \ {c} : route'[d] = route[d] /\ at'[d] = at[d]
  PROVE  Holding' /\ Cooled' /\ LocksReleased'
  <1>1. /\ pc'[c] \notin {"wait", "call"}
        /\ \A d \in Callers \ {c} : pc'[d] = pc[d]
    BY DEF Goto, IInv, TypeOK
  <1>2. Holding' /\ Cooled'
    BY <1>1 DEF IInv, Holding, Cooled, Now
  <1>3. LocksReleased'
    <2> SUFFICES ASSUME NEW p \in Providers, lock[p] # NoCaller
                 PROVE  /\ pc'[lock[p]] \in {"wait", "call"}
                        /\ route'[lock[p]][at'[lock[p]]] = p
      BY DEF LocksReleased, Now
    <2>1. lock[p] \in Callers /\ pc[lock[p]] \in {"wait", "call"} /\ Now(lock[p]) = p
      BY DEF IInv, TypeOK, LocksReleased
    <2>2. lock[p] # c
      BY <2>1
    <2>3. QED
      BY <1>1, <2>1, <2>2 DEF Now
  <1>4. QED
    BY <1>2, <1>3

\* A step that neither ends the request nor touches one that has ended.
LEMMA StillAtWork ==
  ASSUME IInv, NEW c \in Callers, pc[c] # "done", NEW label, label # "done",
         Goto(c, label), UNCHANGED <<target, result>>,
         \A d \in Callers \ {c} : /\ reply'[d] = reply[d] /\ rounds'[d] = rounds[d]
                                /\ at'[d] = at[d] /\ route'[d] = route[d]
  PROVE  NoEmptyAnswer' /\ RefusalStays' /\ FallbackExhausted'
  <1>1. pc'[c] # "done" /\ \A d \in Callers \ {c} : pc'[d] = pc[d]
    BY DEF Goto, IInv, TypeOK
  <1>2. result'[c] = "none"
    BY DEF IInv, TypeOK, Replied
  <1>3. NoEmptyAnswer'
    BY <1>2 DEF IInv, NoEmptyAnswer
  <1>4. RefusalStays' /\ FallbackExhausted'
    BY <1>1 DEF IInv, RefusalStays, FallbackExhausted
  <1>5. QED
    BY <1>3, <1>4

\* A step that ends the request.
LEMMA Finishing ==
  ASSUME IInv, NEW c \in Callers, pc[c] \in {"pick", "settle"},
         NEW what \in {"answer", "unroutable", "none"} \cup Errors, Finish(c, what),
         UNCHANGED <<lock, cooling, target, wanted, context, route, at, tries, form,
                     rounds, reply, err>>,
         what = "answer" => reply[c] = "text",
         target[c] # Automatic /\ what \in {"refused", "broken"} /\ rounds[c] = 0
           => at[c] = 1,
         what \in {"busy", "model", "expired"} /\ rounds[c] = 0
           => at[c] > Len(route[c])
  PROVE  IInv'
  <1>1. /\ pc'[c] = "done" /\ \A d \in Callers \ {c} : pc'[d] = pc[d]
        /\ result'[c] = what /\ \A d \in Callers \ {c} : result'[d] = result[d]
        /\ pc' = [pc EXCEPT ![c] = "done"] /\ result' = [result EXCEPT ![c] = what]
    BY DEF Finish, Goto, IInv, TypeOK
  <1>2. TypeOK'
    BY <1>1 DEF IInv, TypeOK
  <1>3. Holding' /\ Cooled' /\ LocksReleased'
    BY Outside DEF Finish
  <1>4. Placed' /\ Replied'
    BY <1>1 DEF IInv, Placed, Replied
  <1>5. NoEmptyAnswer' /\ RefusalStays' /\ FallbackExhausted'
    BY <1>1 DEF IInv, NoEmptyAnswer, RefusalStays, FallbackExhausted
  <1>6. QED
    BY <1>2, <1>3, <1>4, <1>5 DEF IInv

\* sendWithRetry returns and lets go of its lock.
LEMMA Returning ==
  ASSUME IInv, NEW c \in Callers, pc[c] \in {"wait", "call"},
         NEW what \in {"text"} \cup Errors, Return(c, what),
         cooling' \in [Providers -> {"none", "interval", "backoff"}],
         \A p \in Providers \ {Now(c)} : cooling'[p] = cooling[p],
         UNCHANGED <<target, wanted, context, route, at, rounds, err, result>>
  PROVE  IInv'
  <1>1. /\ pc' = [pc EXCEPT ![c] = "settle"] /\ reply' = [reply EXCEPT ![c] = what]
        /\ tries' = [tries EXCEPT ![c] = 0] /\ form' = [form EXCEPT ![c] = "plain"]
        /\ lock' = [lock EXCEPT ![Now(c)] = NoCaller]
    BY DEF Return, Goto, Unlock
  <1>2. Now(c) \in Providers /\ lock[Now(c)] = c
    BY Here DEF IInv, Holding
  <1>3. /\ pc'[c] = "settle" /\ reply'[c] = what
        /\ \A d \in Callers \ {c} : pc'[d] = pc[d] /\ reply'[d] = reply[d]
        /\ lock'[Now(c)] = NoCaller
        /\ \A p \in Providers \ {Now(c)} : lock'[p] = lock[p]
    BY <1>1, <1>2 DEF IInv, TypeOK
  <1>4. TypeOK'
    <2>1. lock' \in [Providers -> Callers \cup {NoCaller}]
      BY <1>1 DEF IInv, TypeOK
    <2>2. /\ reply' \in [Callers -> {"none", "text", "blank"} \cup Errors]
          /\ tries' \in [Callers -> 0 .. MaxAttempts] /\ form' \in [Callers -> Forms]
      BY <1>1, RegistryAssumption DEF IInv, TypeOK, Forms
    <2>3. pc' \in [Callers -> {"start", "pick", "acquire", "wait", "call", "settle", "done"}]
      BY <1>1 DEF IInv, TypeOK
    <2>4. QED
      BY <2>1, <2>2, <2>3 DEF IInv, TypeOK
  <1>5. \A d \in Callers \ {c} : pc[d] \in {"wait", "call"} =>
          Now(d) \in Providers \ {Now(c)} /\ lock[Now(d)] = d
    BY <1>2, Here DEF IInv, Holding
  <1>6. Holding' /\ Cooled'
    BY <1>3, <1>5 DEF IInv, Holding, Cooled, Now
  <1>7. LocksReleased'
    <2> SUFFICES ASSUME NEW p \in Providers, lock'[p] # NoCaller
                 PROVE  /\ pc'[lock'[p]] \in {"wait", "call"}
                        /\ route'[lock'[p]][at'[lock'[p]]] = p
      BY DEF LocksReleased, Now
    <2>1. p # Now(c) /\ lock'[p] = lock[p]
      BY <1>3
    <2>2. /\ lock[p] \in Callers /\ pc[lock[p]] \in {"wait", "call"}
          /\ Now(lock[p]) = p
      BY <2>1 DEF IInv, TypeOK, LocksReleased
    <2>3. lock[p] # c
      BY <2>1, <2>2
    <2>4. QED
      BY <1>3, <2>1, <2>2, <2>3 DEF Now
  <1>8. Placed' /\ Replied'
    BY <1>3 DEF IInv, Placed, Replied
  <1>9. NoEmptyAnswer' /\ RefusalStays' /\ FallbackExhausted'
    BY <1>3, StillAtWork DEF Return
  <1>10. QED
    BY <1>4, <1>6, <1>7, <1>8, <1>9 DEF IInv

-----------------------------------------------------------------------------
(* The initial states, and each action.                                    *)

LEMMA Initially == Init => IInv
  <1> SUFFICES ASSUME Init PROVE IInv
    OBVIOUS
  <1>1. TypeOK
    <2>1. << >> \in Seq(Providers) /\ 0 \in 0 .. MaxAttempts /\ 0 \in 0 .. MaxContinuations
      BY RegistryAssumption
    <2>2. QED
      BY <2>1 DEF Init, TypeOK, Forms
  <1>2. Placed /\ Holding /\ Cooled /\ Replied /\ LocksReleased
    BY DEF Init, Placed, Holding, Cooled, Replied, LocksReleased
  <1>3. NoEmptyAnswer /\ RefusalStays /\ FallbackExhausted
    BY DEF Init, NoEmptyAnswer, RefusalStays, FallbackExhausted
  <1>4. QED
    BY <1>1, <1>2, <1>3 DEF IInv

LEMMA StartKeeps ==
  ASSUME IInv, NEW c \in Callers, Start(c)
  PROVE  IInv'
  <1>1. PICK r : r \in Seq(Providers) /\ route' = [route EXCEPT ![c] = r]
    BY NamedRoute, RoutedRoute DEF Start, IInv, TypeOK
  <1>2. /\ pc[c] = "start" /\ Goto(c, "pick")
        /\ UNCHANGED <<lock, cooling, target, wanted, context, at, tries, form, rounds,
                       reply, err, result>>
    BY DEF Start
  <1>3. TypeOK'
    BY <1>1, <1>2 DEF IInv, TypeOK, Goto
  <1>4. \A d \in Callers \ {c} : route'[d] = route[d] /\ pc'[d] = pc[d]
    BY <1>1, <1>2 DEF IInv, TypeOK, Goto
  <1>5. Holding' /\ Cooled' /\ LocksReleased'
    BY <1>2, <1>4, Outside
  <1>6. Placed' /\ Replied'
    BY <1>2, <1>4 DEF IInv, TypeOK, Placed, Replied, Goto
  <1>7. NoEmptyAnswer' /\ RefusalStays' /\ FallbackExhausted'
    BY <1>2, <1>4, StillAtWork
  <1>8. QED
    BY <1>3, <1>5, <1>6, <1>7 DEF IInv

LEMMA PickKeeps ==
  ASSUME IInv, NEW c \in Callers, Pick(c)
  PROVE  IInv'
  <1>1. /\ pc[c] = "pick" /\ at[c] <= Len(route[c]) /\ Goto(c, "acquire")
        /\ UNCHANGED <<lock, cooling, target, wanted, context, route, at, tries, form,
                       rounds, reply, err, result>>
    BY DEF Pick
  <1>2. TypeOK'
    BY <1>1 DEF IInv, TypeOK, Goto
  <1>3. Holding' /\ Cooled' /\ LocksReleased'
    BY <1>1, Outside
  <1>4. at[c] \in 1 .. Len(route[c])
    BY <1>1 DEF IInv, TypeOK
  <1>5. Placed' /\ Replied'
    BY <1>1, <1>4 DEF IInv, TypeOK, Placed, Replied, Goto
  <1>6. NoEmptyAnswer' /\ RefusalStays' /\ FallbackExhausted'
    BY <1>1, StillAtWork
  <1>7. QED
    BY <1>2, <1>3, <1>5, <1>6 DEF IInv

LEMMA SkipKeeps ==
  ASSUME IInv, NEW c \in Callers, Skip(c)
  PROVE  IInv'
  <1>1. /\ pc[c] = "pick"
        /\ UNCHANGED <<lock, cooling, target, wanted, context, route, tries, form, rounds,
                       reply>>
    BY DEF Skip
  <1>2. CASE target[c] # Automatic /\ at[c] = 1
    <2>1. Finish(c, "unroutable") /\ UNCHANGED <<at, err>>
      BY <1>2 DEF Skip
    <2>2. QED
      BY <1>1, <2>1, Finishing
  <1>3. CASE ~(target[c] # Automatic /\ at[c] = 1)
    <2>1. /\ at' = [at EXCEPT ![c] = @ + 1]
          /\ err' = IF target[c] = Automatic THEN [err EXCEPT ![c] = "unroutable"] ELSE err
          /\ UNCHANGED <<pc, result>>
      BY <1>3 DEF Skip
    <2>2. TypeOK'
      BY <1>1, <2>1 DEF IInv, TypeOK
    <2>3. \A d \in Callers \ {c} : at'[d] = at[d] /\ err'[d] = err[d]
      BY <2>1 DEF IInv, TypeOK
    <2>4. Goto(c, "pick")
      BY <1>1, <2>1 DEF IInv, TypeOK, Goto
    <2>5. Holding' /\ Cooled' /\ LocksReleased'
      BY <1>1, <2>3, <2>4, Outside
    <2>6. Placed'
      BY <1>1, <2>1, <2>3 DEF IInv, Placed
    <2>7. Replied'
      BY <1>1, <2>1, <2>3 DEF IInv, Replied
    <2>8. NoEmptyAnswer' /\ RefusalStays' /\ FallbackExhausted'
      BY <1>1, <2>1, <2>3, <2>4, StillAtWork
    <2>9. QED
      BY <2>2, <2>5, <2>6, <2>7, <2>8 DEF IInv
  <1>4. QED
    BY <1>2, <1>3

LEMMA GiveUpKeeps ==
  ASSUME IInv, NEW c \in Callers, GiveUp(c)
  PROVE  IInv'
  <1>1. /\ pc[c] = "pick" /\ at[c] > Len(route[c]) /\ Finish(c, err[c])
        /\ UNCHANGED <<lock, cooling, target, wanted, context, route, at, tries, form,
                       rounds, reply, err>>
    BY DEF GiveUp
  <1>2. /\ err[c] \in {"answer", "unroutable", "none"} \cup Errors /\ err[c] # "answer"
        /\ target[c] # Automatic => err[c] \notin {"refused", "broken"}
    BY DEF IInv, TypeOK, Replied, Errors
  <1>3. QED
    BY <1>1, <1>2, Finishing

LEMMA AcquireKeeps ==
  ASSUME IInv, NEW c \in Callers, Acquire(c)
  PROVE  IInv'
  <1>1. /\ pc[c] = "acquire" /\ lock[Now(c)] = NoCaller
        /\ lock' = [lock EXCEPT ![Now(c)] = c]
        /\ reply' = [reply EXCEPT ![c] = "none"] /\ Goto(c, "wait")
        /\ UNCHANGED <<cooling, target, wanted, context, route, at, tries, form, rounds,
                       err, result>>
    BY DEF Acquire, Free
  <1>2. Now(c) \in Providers
    BY <1>1, Here
  <1>3. TypeOK'
    BY <1>1 DEF IInv, TypeOK, Goto
  <1>4. /\ pc'[c] = "wait" /\ \A d \in Callers \ {c} : pc'[d] = pc[d] /\ reply'[d] = reply[d]
        /\ lock'[Now(c)] = c /\ \A p \in Providers \ {Now(c)} : lock'[p] = lock[p]
    BY <1>1, <1>2 DEF IInv, TypeOK, Goto
  <1>5. \A d \in Callers \ {c} : pc[d] \in {"wait", "call"} =>
          Now(d) \in Providers \ {Now(c)} /\ lock[Now(d)] = d
    BY <1>1, Here, RegistryAssumption DEF IInv, Holding
  <1>6. Holding' /\ Cooled'
    BY <1>1, <1>4, <1>5 DEF IInv, Holding, Cooled, Now
  <1>7. LocksReleased'
    <2> SUFFICES ASSUME NEW p \in Providers, lock'[p] # NoCaller
                 PROVE  /\ pc'[lock'[p]] \in {"wait", "call"}
                        /\ route'[lock'[p]][at'[lock'[p]]] = p
      BY DEF LocksReleased, Now
    <2>1. CASE p = Now(c)
      BY <1>1, <1>4, <2>1 DEF Now
    <2>2. CASE p # Now(c)
      <3>1. /\ lock'[p] = lock[p] /\ lock[p] \in Callers
            /\ pc[lock[p]] \in {"wait", "call"} /\ Now(lock[p]) = p
        BY <1>4, <2>2 DEF IInv, TypeOK, LocksReleased
      <3>2. QED
        BY <1>1, <1>4, <3>1 DEF Now
    <2>3. QED
      BY <2>1, <2>2
  <1>8. Placed' /\ Replied'
    BY <1>1, <1>4 DEF IInv, Placed, Replied
  <1>9. NoEmptyAnswer' /\ RefusalStays' /\ FallbackExhausted'
    BY <1>1, <1>4, StillAtWork
  <1>10. QED
    BY <1>3, <1>6, <1>7, <1>8, <1>9 DEF IInv

\* A step inside sendWithRetry, with the lock held.
LEMMA Inside ==
  ASSUME IInv, NEW c \in Callers, pc[c] \in {"wait", "call"},
         NEW label \in {"wait", "call"}, pc' = [pc EXCEPT ![c] = label],
         form' \in [Callers -> Forms], tries' \in [Callers -> 0 .. MaxAttempts],
         cooling' \in [Providers -> {"none", "interval", "backoff"}],
         \A p \in Providers \ {Now(c)} : cooling'[p] = cooling[p],
         label = "call" => cooling'[Now(c)] = "none",
         UNCHANGED <<lock, target, wanted, context, route, at, rounds, reply, err, result>>
  PROVE  IInv'
  <1>1. pc'[c] = label /\ \A d \in Callers \ {c} : pc'[d] = pc[d]
    BY DEF IInv, TypeOK
  <1>2. TypeOK'
    BY DEF IInv, TypeOK
  <1>3. Placed' /\ Holding' /\ Replied'
    BY <1>1 DEF IInv, Placed, Holding, Replied, Now
  <1>4. \A d \in Callers \ {c} : pc[d] = "call" => Now(d) \in Providers \ {Now(c)}
    BY Here DEF IInv, Holding
  <1>5. Cooled'
    BY <1>1, <1>4 DEF IInv, Cooled, Now
  <1>6. LocksReleased'
    BY <1>1 DEF IInv, TypeOK, LocksReleased, Now
  <1>7. NoEmptyAnswer' /\ RefusalStays' /\ FallbackExhausted'
    BY StillAtWork DEF Goto
  <1>8. QED
    BY <1>2, <1>3, <1>5, <1>6, <1>7 DEF IInv

LEMMA WaitKeeps ==
  ASSUME IInv, NEW c \in Callers, Wait(c)
  PROVE  IInv'
  <1>1. /\ pc[c] = "wait" /\ cooling[Now(c)] = "none"
        /\ form' = [form EXCEPT ![c] = wanted[c]] /\ pc' = [pc EXCEPT ![c] = "call"]
        /\ UNCHANGED <<lock, cooling, target, wanted, context, route, at, tries, rounds,
                       reply, err, result>>
    BY DEF Wait, Ready, Goto
  <1>2. wanted[c] \in Forms
    BY RegistryAssumption DEF IInv, TypeOK, Forms, JSONForms
  <1>3. form' \in [Callers -> Forms]
    BY <1>1, <1>2 DEF IInv, TypeOK
  <1>4. QED
    BY <1>1, <1>3, Inside DEF IInv, TypeOK

LEMMA WaitCutKeeps ==
  ASSUME IInv, NEW c \in Callers, WaitCut(c)
  PROVE  IInv'
  <1>1. /\ pc[c] = "wait" /\ context[c] # "live" /\ Return(c, context[c])
        /\ UNCHANGED <<cooling, target, wanted, context, route, at, rounds, err, result>>
    BY DEF WaitCut
  <1>2. context[c] \in {"text"} \cup Errors
    BY <1>1 DEF IInv, TypeOK, Errors
  <1>3. QED
    BY <1>1, <1>2, Returning DEF IInv, TypeOK

LEMMA CallKeeps ==
  ASSUME IInv, NEW c \in Callers, Call(c)
  PROVE  IInv'
  <1>1. PICK o \in Outcomes : Repeat(c, o) \/ Retry(c, o) \/ Settled(c, o)
    BY DEF Call, Possible, Outcomes
  <1>2. /\ pc[c] = "call"
        /\ UNCHANGED <<target, wanted, context, route, at, rounds, err, result>>
    BY DEF Call
  <1>3. Now(c) \in Providers /\ cooling[Now(c)] = "none"
    BY <1>2, Here DEF IInv, Cooled
  <1>4. CASE Repeat(c, o)
    <2>1. /\ form' = [form EXCEPT ![c] = NextForm(form[c], o)]
          /\ UNCHANGED <<lock, cooling, pc, tries, reply>>
      BY <1>4 DEF Repeat
    <2>2. form' \in [Callers -> Forms]
      BY <2>1 DEF IInv, TypeOK, NextForm, Forms, JSONForms
    <2>3. pc' = [pc EXCEPT ![c] = "call"]
      BY <1>2, <2>1 DEF IInv, TypeOK
    <2>4. QED
      BY <1>2, <1>3, <2>1, <2>2, <2>3, Inside DEF IInv, TypeOK
  <1>5. \A e : Backoff(e) \in {"interval", "backoff"}
    BY DEF Backoff
  <1>6. CASE Retry(c, o)
    <2>1. /\ tries' = [tries EXCEPT ![c] = @ + 1] /\ tries[c] + 1 < MaxAttempts
          /\ cooling' = [cooling EXCEPT ![Now(c)] = Backoff(ErrorOf(o))]
          /\ form' = [form EXCEPT ![c] = "plain"] /\ pc' = [pc EXCEPT ![c] = "wait"]
          /\ UNCHANGED <<lock, reply>>
      BY <1>6 DEF Retry, TriesLeft, Goto
    <2>2. tries' \in [Callers -> 0 .. MaxAttempts] /\ form' \in [Callers -> Forms]
      BY <2>1, RegistryAssumption DEF IInv, TypeOK, Forms
    <2>3. /\ cooling' \in [Providers -> {"none", "interval", "backoff"}]
          /\ \A p \in Providers \ {Now(c)} : cooling'[p] = cooling[p]
      BY <1>5, <2>1 DEF IInv, TypeOK
    <2>4. QED
      BY <1>2, <2>1, <2>2, <2>3, Inside
  <1>7. CASE Settled(c, o)
    <2>1. /\ Return(c, IF IsAnswer(o) THEN o ELSE ErrorOf(o))
          /\ cooling' = [cooling EXCEPT ![Now(c)] = IF IsAnswer(o) THEN "interval"
                                                   ELSE Backoff(ErrorOf(o))]
      BY <1>7 DEF Settled
    <2>2. (IF IsAnswer(o) THEN o ELSE ErrorOf(o)) \in {"text"} \cup Errors
      BY DEF IsAnswer, ErrorOf, Outcomes, Errors
    <2>3. /\ cooling' \in [Providers -> {"none", "interval", "backoff"}]
          /\ \A p \in Providers \ {Now(c)} : cooling'[p] = cooling[p]
      BY <1>5, <2>1 DEF IInv, TypeOK
    <2>4. QED
      BY <1>2, <2>1, <2>2, <2>3, Returning
  <1>8. QED
    BY <1>1, <1>4, <1>6, <1>7

LEMMA ContinueKeeps ==
  ASSUME IInv, NEW c \in Callers, Continue(c)
  PROVE  IInv'
  <1>1. /\ pc[c] = "settle" /\ rounds[c] < MaxContinuations
        /\ rounds' = [rounds EXCEPT ![c] = @ + 1] /\ Goto(c, "acquire")
        /\ UNCHANGED <<lock, cooling, target, wanted, context, route, at, tries, form,
                       reply, err, result>>
    BY DEF Continue, RoundsLeft
  <1>2. TypeOK'
    <2>1. rounds' \in [Callers -> 0 .. MaxContinuations]
      BY <1>1, RegistryAssumption DEF IInv, TypeOK
    <2>2. QED
      BY <1>1, <2>1 DEF IInv, TypeOK, Goto
  <1>3. Holding' /\ Cooled' /\ LocksReleased'
    BY <1>1, Outside
  <1>4. Placed' /\ Replied'
    BY <1>1 DEF IInv, TypeOK, Placed, Replied, Goto
  <1>5. NoEmptyAnswer' /\ RefusalStays' /\ FallbackExhausted'
    <2>1. \A d \in Callers \ {c} : rounds'[d] = rounds[d]
      BY <1>1 DEF IInv, TypeOK
    <2>2. QED
      BY <1>1, <2>1, StillAtWork
  <1>6. QED
    BY <1>2, <1>3, <1>4, <1>5 DEF IInv

\* The ways a reply ends the request.
LEMMA EndKeeps ==
  ASSUME IInv, NEW c \in Callers, Answer(c) \/ ContinuationFails(c) \/ Fail(c)
  PROVE  IInv'
  <1>1. /\ pc[c] = "settle" /\ reply[c] \in {"text"} \cup Errors
        /\ UNCHANGED <<lock, cooling, target, wanted, context, route, at, tries, form,
                       rounds, reply, err>>
    BY DEF Answer, ContinuationFails, Fail, IInv, Replied
  <1>2. CASE Answer(c)
    <2>1. Finish(c, "answer") /\ reply[c] = "text"
      BY <1>1, <1>2 DEF Answer
    <2>2. QED
      BY <1>1, <2>1, Finishing DEF Errors
  <1>3. CASE ContinuationFails(c)
    <2>1. Finish(c, reply[c]) /\ reply[c] \in Errors /\ rounds[c] > 0
      BY <1>3 DEF ContinuationFails
    <2>2. reply[c] # "answer" /\ rounds[c] # 0
      BY <2>1 DEF Errors, IInv, TypeOK
    <2>3. QED
      BY <1>1, <2>1, <2>2, Finishing
  <1>4. CASE Fail(c)
    <2>1. /\ Finish(c, reply[c]) /\ reply[c] \in Errors
          /\ reply[c] \notin {"busy", "model", "expired"}
          /\ ~(target[c] # Automatic /\ at[c] > 1)
      BY <1>4 DEF Fail, TriesNext, FallsBack
    <2>2. reply[c] # "answer" /\ (target[c] # Automatic => at[c] = 1)
      BY <2>1 DEF Errors, IInv, TypeOK
    <2>3. QED
      BY <1>1, <2>1, <2>2, Finishing
  <1>5. QED
    BY <1>2, <1>3, <1>4

LEMMA NextProviderKeeps ==
  ASSUME IInv, NEW c \in Callers, NextProvider(c)
  PROVE  IInv'
  <1>1. /\ pc[c] = "settle" /\ reply[c] \in Errors /\ TriesNext(c)
        /\ err' = [err EXCEPT ![c] = ErrorKept(c)] /\ at' = [at EXCEPT ![c] = @ + 1]
        /\ reply' = [reply EXCEPT ![c] = "none"] /\ Goto(c, "pick")
        /\ UNCHANGED <<lock, cooling, target, wanted, context, route, tries, form, rounds,
                       result>>
    BY DEF NextProvider
  <1>2. /\ ErrorKept(c) \in {"none", "unroutable"} \cup Errors
        /\ target[c] # Automatic => ErrorKept(c) \in {"none", "busy", "model", "expired"}
    BY <1>1 DEF ErrorKept, TriesNext, FallsBack, IInv, TypeOK, Replied
  <1>3. TypeOK'
    <2>1. err' \in [Callers -> {"none", "unroutable"} \cup Errors]
      BY <1>1, <1>2 DEF IInv, TypeOK
    <2>2. QED
      BY <1>1, <2>1 DEF IInv, TypeOK, Goto
  <1>4. /\ pc'[c] = "pick" /\ err'[c] = ErrorKept(c)
        /\ \A d \in Callers \ {c} : /\ pc'[d] = pc[d] /\ err'[d] = err[d] /\ at'[d] = at[d]
                                   /\ reply'[d] = reply[d]
    BY <1>1 DEF IInv, TypeOK, Goto
  <1>5. Holding' /\ Cooled' /\ LocksReleased'
    BY <1>1, <1>4, Outside
  <1>6. Placed'
    BY <1>1, <1>4 DEF IInv, Placed
  <1>7. Replied'
    BY <1>1, <1>2, <1>4 DEF IInv, Replied
  <1>8. NoEmptyAnswer' /\ RefusalStays' /\ FallbackExhausted'
    BY <1>1, <1>4, StillAtWork
  <1>9. QED
    BY <1>3, <1>5, <1>6, <1>7, <1>8 DEF IInv

\* Time passes, or a caller's context ends.
LEMMA TimeKeeps ==
  ASSUME IInv, (\E p \in Providers : CoolDown(p)) \/ (\E c \in Callers : ContextEnds(c))
  PROVE  IInv'
  <1>1. UNCHANGED <<lock, target, wanted, pc, route, at, tries, form, rounds, reply, err,
                    result>>
    BY DEF CoolDown, ContextEnds
  <1>2. /\ cooling' \in [Providers -> {"none", "interval", "backoff"}]
        /\ \A p \in Providers : cooling[p] = "none" => cooling'[p] = "none"
        /\ context' \in [Callers -> {"live", "canceled", "expired"}]
    BY DEF CoolDown, ContextEnds, IInv, TypeOK
  <1>3. TypeOK'
    BY <1>1, <1>2 DEF IInv, TypeOK
  <1>4. Placed' /\ Holding' /\ Replied' /\ LocksReleased'
    BY <1>1 DEF IInv, Placed, Holding, Replied, LocksReleased, Now
  <1>5. Cooled'
    <2>1. \A c \in Callers : pc[c] = "call" => Now(c) \in Providers
      BY Here
    <2>2. QED
      BY <1>1, <1>2, <2>1 DEF IInv, Cooled, Now
  <1>6. NoEmptyAnswer' /\ RefusalStays' /\ FallbackExhausted'
    BY <1>1 DEF IInv, NoEmptyAnswer, RefusalStays, FallbackExhausted
  <1>7. QED
    BY <1>3, <1>4, <1>5, <1>6 DEF IInv

-----------------------------------------------------------------------------
(* The invariant, and what follows from it.                                *)

LEMMA Inductive == IInv /\ [Next]_vars => IInv'
  <1> SUFFICES ASSUME IInv, [Next]_vars PROVE IInv'
    OBVIOUS
  <1>1. ASSUME NEW c \in Callers, Going(c) \/ Asking(c) PROVE IInv'
    BY <1>1, StartKeeps, PickKeeps, SkipKeeps, GiveUpKeeps, AcquireKeeps, WaitKeeps,
       WaitCutKeeps, CallKeeps, ContinueKeeps, EndKeeps, NextProviderKeeps DEF Going, Asking
  <1>2. CASE (\E p \in Providers : CoolDown(p)) \/ (\E c \in Callers : ContextEnds(c))
    BY <1>2, TimeKeeps
  <1>3. CASE UNCHANGED vars
    <2>1. TypeOK'
      BY <1>3 DEF vars, IInv, TypeOK
    <2>2. Placed' /\ Holding' /\ Cooled' /\ Replied' /\ LocksReleased'
      BY <1>3 DEF vars, IInv, Placed, Holding, Cooled, Replied, LocksReleased, Now
    <2>3. NoEmptyAnswer' /\ RefusalStays' /\ FallbackExhausted'
      BY <1>3 DEF vars, IInv, NoEmptyAnswer, RefusalStays, FallbackExhausted
    <2>4. QED
      BY <2>1, <2>2, <2>3 DEF IInv
  <1>4. QED
    BY <1>1, <1>2, <1>3 DEF Next

\* What every step of Registry.Send keeps, whoever else is in it.
THEOREM RegistryInvariant == Spec => []IInv
  BY Initially, Inductive, PTL DEF Spec

\* Every variable of Send keeps its type; in particular no more attempts and
\* continuations are counted than the limits.
THEOREM RegistryTypeCorrect == Spec => []TypeOK
  <1>1. IInv => TypeOK
    BY DEF IInv
  <1>2. QED
    BY <1>1, RegistryInvariant, PTL

\* Registry.sendWithRetry never calls a provider beside another caller, nor
\* while it has to be left alone.
THEOREM CallsExclude == Spec => []OneAtATime
  <1>1. IInv => OneAtATime
    BY DEF IInv, Holding, Cooled, OneAtATime
  <1>2. QED
    BY <1>1, RegistryInvariant, PTL

\* Whichever way Registry.sendWithRetry returns, its lock is free.
THEOREM NoLockLeft == Spec => []LocksReleased
  <1>1. IInv => LocksReleased
    BY DEF IInv
  <1>2. QED
    BY <1>1, RegistryInvariant, PTL

\* Registry.Send reports success only with text.
THEOREM AnswersHaveText == Spec => []NoEmptyAnswer
  <1>1. IInv => NoEmptyAnswer
    BY DEF IInv
  <1>2. QED
    BY <1>1, RegistryInvariant, PTL

\* Registry.Send shows a request its named provider refuses to no other.
THEOREM RefusalsAreFinal == Spec => []RefusalStays
  <1>1. IInv => RefusalStays
    BY DEF IInv
  <1>2. QED
    BY <1>1, RegistryInvariant, PTL

\* Registry.Send fails with a passing error only when no provider is left.
THEOREM NoEarlySurrender == Spec => []FallbackExhausted
  <1>1. IInv => FallbackExhausted
    BY DEF IInv
  <1>2. QED
    BY <1>1, RegistryInvariant, PTL

\* Registry.Send shops a request around exactly as long as that may help.
THEOREM FallbackAlwaysFits == Spec => []FallbackFits
  <1>1. RefusalStays /\ FallbackExhausted => FallbackFits
    BY DEF FallbackFits
  <1>2. QED
    BY <1>1, RefusalsAreFinal, NoEarlySurrender, PTL

-----------------------------------------------------------------------------
(* continueStream.                                                         *)

StreamTypes ==
  /\ out \in Seq(Chunk)
  /\ combined \in Seq(Piece) /\ again \in Seq(Piece)
  /\ pieces \in Seq(Piece) /\ carried \in Seq(Piece) /\ continued \in Nat
  /\ phase \in {"forward", "judge", "recover", "recovered", "continue", "closed"}

\* An answer is continued when it has text, and asked for again when it has
\* none: never the one after the other.
Rounds ==
  /\ continued > 0 \/ phase = "continue" => ~Blank(combined)
  /\ phase \in {"recover", "recovered"} => Blank(combined)
  /\ again # <<>> => phase \in {"recovered", "closed"}

StreamIInv == StreamTypes /\ Rounds /\ NothingLost

\* The chunks show the pieces of a text, in their order.
Shows(chunks, text) ==
  Len(chunks) = Len(text) /\ \A i \in 1 .. Len(text) : chunks[i] = Delta(text[i])

LEMMA ChunkTypes ==
  /\ \A x \in Piece : Delta(x) \in Chunk
  /\ \A kind \in {"done", "error"} : Ending(kind) \in Chunk /\ Ending(kind).kind # "delta"
  BY DEF Delta, Ending, Chunk, Piece, NoPiece

LEMMA SaidPiece ==
  ASSUME StreamTypes, NEW blank \in BOOLEAN
  PROVE  Said(blank) \in Piece
  <1>1. Len(pieces) \in Nat
    BY LenProperties DEF StreamTypes
  <1> QED BY <1>1 DEF StreamTypes, Said, Piece

\* A piece that is appended to both is shown.
LEMMA Grows ==
  ASSUME NEW o \in Seq(Chunk), NEW t \in Seq(Piece), Shows(o, t), NEW x \in Piece
  PROVE  Append(o, Delta(x)) \in Seq(Chunk) /\ Shows(Append(o, Delta(x)), Append(t, x))
  <1> DEFINE o2 == Append(o, Delta(x))
             t2 == Append(t, x)
  <1>1. Delta(x) \in Chunk
    BY ChunkTypes
  <1>2. /\ o2 \in Seq(Chunk) /\ Len(o2) = Len(o) + 1 /\ o2[Len(o) + 1] = Delta(x)
        /\ \A i \in 1 .. Len(o) : o2[i] = o[i]
    BY <1>1, AppendProperties
  <1>3. /\ Len(t2) = Len(t) + 1 /\ t2[Len(t) + 1] = x
        /\ \A i \in 1 .. Len(t) : t2[i] = t[i]
    BY AppendProperties
  <1>4. Len(t) \in Nat /\ Len(o) = Len(t) /\ \A i \in 1 .. Len(t) : o[i] = Delta(t[i])
    BY LenProperties DEF Shows
  <1> HIDE DEF o2, t2
  <1>5. Shows(o2, t2)
    BY <1>2, <1>3, <1>4 DEF Shows
  <1> QED BY <1>2, <1>5 DEF o2, t2

LEMMA AppendRight ==
  ASSUME NEW s \in Seq(Piece), NEW t \in Seq(Piece), NEW x \in Piece
  PROVE  Append(s \o t, x) = s \o Append(t, x)
  <1>1. s \o t \in Seq(Piece) /\ <<x>> \in Seq(Piece)
    BY ConcatProperties
  <1>2. Append(s \o t, x) = (s \o t) \o <<x>> /\ Append(t, x) = t \o <<x>>
    BY <1>1, AppendIsConcat
  <1> QED BY <1>1, <1>2, ConcatAssociative

LEMMA TextStays ==
  ASSUME NEW t \in Seq(Piece), NEW x \in Piece, ~Blank(t)
  PROVE  ~Blank(Append(t, x))
  <1>1. /\ Len(Append(t, x)) = Len(t) + 1 /\ Len(t) \in Nat
        /\ \A i \in 1 .. Len(t) : Append(t, x)[i] = t[i]
    BY AppendProperties, LenProperties
  <1> QED BY <1>1 DEF Blank

\* What NothingLost says while the channel is open.
LEMMA OpenText ==
  ASSUME StreamIInv, phase # "closed", again = <<>>
  PROVE  Shows(out, combined)
  <1>1. combined \o again = combined
    BY ConcatEmptySeq DEF StreamIInv, StreamTypes
  <1>2. Len(out) \in Nat /\ Len(combined) \in Nat
    BY LenProperties DEF StreamIInv, StreamTypes
  <1> QED BY <1>1, <1>2 DEF StreamIInv, NothingLost, Shows

\* A step that ends the consumer's channel.
LEMMA Ended ==
  ASSUME StreamIInv, phase # "closed", NEW kind \in {"done", "error"},
         Send(Ending(kind)), phase' = "closed",
         UNCHANGED <<combined, again, pieces, continued, carried>>
  PROVE  StreamIInv'
  <1> DEFINE text == combined \o again
             o2 == Append(out, Ending(kind))
  <1>1. out \in Seq(Chunk) /\ out' = o2 /\ Ending(kind) \in Chunk /\ Ending(kind).kind # "delta"
    BY ChunkTypes DEF StreamIInv, StreamTypes, Send
  <1>2. /\ o2 \in Seq(Chunk) /\ Len(o2) = Len(out) + 1 /\ o2[Len(out) + 1] = Ending(kind)
        /\ \A i \in 1 .. Len(out) : o2[i] = out[i]
    BY <1>1, AppendProperties
  <1>3. Len(out) \in Nat /\ Len(text) \in Nat
    BY LenProperties, ConcatProperties DEF StreamIInv, StreamTypes
  <1>4. Len(out) = Len(text) /\ \A i \in 1 .. Len(text) : out[i] = Delta(text[i])
    BY <1>3 DEF StreamIInv, NothingLost
  <1>5. (combined \o again)' = text
    OBVIOUS
  <1>6. StreamTypes' /\ Rounds'
    BY <1>1, <1>2 DEF StreamIInv, StreamTypes, Rounds
  <1> HIDE DEF text, o2
  <1>7. /\ Len(o2) = Len(text) + 1
        /\ \A i \in 1 .. Len(text) : o2[i] = Delta(text[i])
        /\ o2[Len(o2)].kind # "delta"
    BY <1>1, <1>2, <1>3, <1>4
  <1>8. /\ continued' > 0 => combined' = carried' \o pieces'
        /\ again' # <<>> => Blank(combined')
    BY DEF StreamIInv, NothingLost
  <1>9. NothingLost'
    BY <1>1, <1>5, <1>7, <1>8 DEF NothingLost
  <1> QED BY <1>6, <1>9 DEF StreamIInv

\* A step that sends nothing and takes no piece.
LEMMA Silent ==
  ASSUME StreamIInv, UNCHANGED <<out, combined, again, pieces, continued, carried>>,
         phase \in {"forward", "judge"}, phase' \in {"forward", "judge", "recover", "continue"},
         phase' = "recover" => Blank(combined),
         phase' = "continue" => ~Blank(combined)
  PROVE  StreamIInv'
  <1>1. StreamTypes'
    BY DEF StreamIInv, StreamTypes
  <1>2. Rounds'
    BY DEF StreamIInv, StreamTypes, Rounds
  <1>3. NothingLost'
    BY DEF StreamIInv, NothingLost
  <1> QED BY <1>1, <1>2, <1>3 DEF StreamIInv

LEMMA StreamInitially == StreamInit => StreamIInv
  <1> SUFFICES ASSUME StreamInit PROVE StreamIInv
    OBVIOUS
  <1>1. /\ out = <<>> /\ combined = <<>> /\ again = <<>> /\ pieces = <<>> /\ carried = <<>>
        /\ continued = 0 /\ phase = "forward"
    BY DEF StreamInit
  <1>2. <<>> \in Seq(Chunk) /\ <<>> \in Seq(Piece)
    BY EmptySeq
  <1>3. StreamTypes /\ Rounds
    BY <1>1, <1>2 DEF StreamTypes, Rounds
  <1>4. combined \o again = <<>> /\ Len(out) = 0 /\ Len(combined \o again) = 0
    BY <1>1, <1>2, ConcatEmptySeq
  <1>5. NothingLost
    BY <1>1, <1>4 DEF NothingLost
  <1> QED BY <1>3, <1>5 DEF StreamIInv

LEMMA PieceKeeps ==
  ASSUME StreamIInv, NEW blank \in BOOLEAN, ForwardPiece(blank)
  PROVE  StreamIInv'
  <1> DEFINE x == Said(blank)
  <1>1. /\ phase = "forward" /\ out' = Append(out, Delta(x))
        /\ combined' = Append(combined, x) /\ pieces' = Append(pieces, x)
        /\ UNCHANGED <<phase, again, continued, carried>>
    BY DEF ForwardPiece, Delivering, Send
  <1>2. /\ x \in Piece /\ out \in Seq(Chunk) /\ combined \in Seq(Piece) /\ again = <<>>
        /\ pieces \in Seq(Piece) /\ carried \in Seq(Piece)
    BY <1>1, SaidPiece DEF StreamIInv, StreamTypes, Rounds
  <1> HIDE DEF x
  <1>3. out' \in Seq(Chunk) /\ Shows(out', combined')
    BY <1>1, <1>2, OpenText, Grows
  <1>4. combined' \in Seq(Piece) /\ pieces' \in Seq(Piece)
    BY <1>1, <1>2, AppendProperties
  <1>5. StreamTypes'
    BY <1>1, <1>2, <1>3, <1>4 DEF StreamIInv, StreamTypes
  <1>6. Rounds'
    BY <1>1, <1>2, TextStays DEF StreamIInv, Rounds
  <1>7. combined' \o again' = combined'
    <2>1. combined' \o <<>> = combined'
      BY <1>4, ConcatEmptySeq
    <2> QED BY <1>1, <1>2, <2>1
  <1>8. continued' > 0 => combined' = carried' \o pieces'
    BY <1>1, <1>2, AppendRight DEF StreamIInv, NothingLost
  <1>9. Len(combined') \in Nat
    BY <1>4, LenProperties
  <1>10. /\ Len(out') = Len(combined') + 0
         /\ \A i \in 1 .. Len(combined') : out'[i] = Delta(combined'[i])
    BY <1>3, <1>9 DEF Shows
  <1>11. phase' = "forward" /\ again' = <<>>
    BY <1>1, <1>2
  <1>12. NothingLost'
    BY <1>7, <1>8, <1>10, <1>11 DEF NothingLost
  <1> QED BY <1>5, <1>6, <1>12 DEF StreamIInv

LEMMA SourceKeeps == StreamIInv /\ Source => StreamIInv'
  <1> SUFFICES ASSUME StreamIInv, Source PROVE StreamIInv'
    OBVIOUS
  <1>1. CASE \E blank \in BOOLEAN : ForwardPiece(blank)
    BY <1>1, PieceKeeps
  <1>2. CASE HearDone
    BY <1>2, Silent DEF HearDone, Delivering
  <1>3. CASE ForwardError
    BY <1>3, Ended DEF ForwardError, Delivering, AfterError
  <1>4. CASE SourceCut
    BY <1>4, Silent DEF SourceCut
  <1> QED BY <1>1, <1>2, <1>3, <1>4 DEF Source

\* The answer that was asked for again comes after the space.
LEMMA RecoverKeeps ==
  ASSUME StreamIInv, RecoverAnswers
  PROVE  StreamIInv'
  <1> DEFINE x == Said(FALSE)
  <1>1. /\ phase = "recover" /\ phase' = "recovered" /\ out' = Append(out, Delta(x))
        /\ again' = <<x>> /\ UNCHANGED <<combined, pieces, continued, carried>>
    BY DEF RecoverAnswers, Send
  <1>2. /\ x \in Piece /\ out \in Seq(Chunk) /\ combined \in Seq(Piece) /\ again = <<>>
        /\ Blank(combined) /\ continued \in Nat /\ ~(continued > 0)
    BY <1>1, SaidPiece DEF StreamIInv, StreamTypes, Rounds
  <1> HIDE DEF x
  <1>3. out' \in Seq(Chunk) /\ Shows(out', Append(combined, x))
    BY <1>1, <1>2, OpenText, Grows
  <1>4. combined' \o again' = Append(combined, x) /\ again' \in Seq(Piece)
    BY <1>1, <1>2, AppendIsConcat
  <1>5. StreamTypes' /\ Rounds'
    BY <1>1, <1>2, <1>3, <1>4 DEF StreamIInv, StreamTypes, Rounds
  <1>6. Len(Append(combined, x)) \in Nat
    BY <1>2, AppendProperties, LenProperties
  <1>7. NothingLost'
    BY <1>1, <1>2, <1>3, <1>4, <1>6 DEF NothingLost, Shows
  <1> QED BY <1>5, <1>7 DEF StreamIInv

\* The next round says its pieces after all of combined.
LEMMA GoOnKeeps ==
  ASSUME StreamIInv, GoOn
  PROVE  StreamIInv'
  <1>1. /\ phase = "continue" /\ phase' = "forward" /\ ~Blank(combined)
        /\ carried' = combined /\ pieces' = <<>> /\ continued' = continued + 1
        /\ UNCHANGED <<out, combined, again>>
    BY DEF GoOn, SoFar, StreamIInv, Rounds
  <1>2. again = <<>> /\ combined \in Seq(Piece) /\ <<>> \in Seq(Piece)
    BY <1>1, EmptySeq DEF StreamIInv, StreamTypes, Rounds
  <1>3. StreamTypes' /\ Rounds'
    BY <1>1, <1>2 DEF StreamIInv, StreamTypes, Rounds
  <1>4. combined' = carried' \o pieces'
    BY <1>1, <1>2, ConcatEmptySeq
  <1>5. NothingLost'
    BY <1>1, <1>2, <1>4 DEF StreamIInv, NothingLost
  <1> QED BY <1>3, <1>5 DEF StreamIInv

LEMMA StreamKeeps == StreamIInv /\ Stream => StreamIInv'
  <1> SUFFICES ASSUME StreamIInv, Stream PROVE StreamIInv'
    OBVIOUS
  <1>1. CASE Drained
    BY <1>1, Silent DEF Drained
  <1>2. CASE Recover
    BY <1>2, Silent DEF Recover
  <1>3. CASE RecoverAnswers
    BY <1>3, RecoverKeeps
  <1>4. CASE RecoverFails
    BY <1>4, Ended DEF RecoverFails, Close
  <1>5. CASE RecoverEnds
    BY <1>5, Ended DEF RecoverEnds, Close
  <1>6. CASE Complete
    BY <1>6, Ended DEF Complete, Close
  <1>7. CASE Unfinished
    BY <1>7, Silent DEF Unfinished
  <1>8. CASE GoOn
    BY <1>8, GoOnKeeps
  <1>9. CASE GoOnFails
    BY <1>9, Ended DEF GoOnFails, Close
  <1> QED BY <1>1, <1>2, <1>3, <1>4, <1>5, <1>6, <1>7, <1>8, <1>9 DEF Stream, Own, Asked

LEMMA StreamInductive == StreamIInv /\ [CallNext]_callVars => StreamIInv'
  <1> SUFFICES ASSUME StreamIInv, [CallNext]_callVars PROVE StreamIInv'
    OBVIOUS
  <1>1. CASE UNCHANGED streamVars
    BY <1>1 DEF streamVars, StreamIInv, StreamTypes, Rounds, NothingLost
  <1>2. CASE StreamContextEnds
    BY <1>2 DEF StreamContextEnds, StreamIInv, StreamTypes, Rounds, NothingLost
  <1>3. CASE StreamNext
    BY <1>2, <1>3, SourceKeeps, StreamKeeps DEF StreamNext
  <1> QED BY <1>1, <1>3 DEF CallNext, callVars

\* The consumer of a stream is sent the text of the rounds of continueStream in
\* their order, each piece once; each round is asked to go on from all that came
\* before it; what is asked for again was only space; and the channel ends with
\* one Done or one Error and nothing after it.
THEOREM StreamLosesNothing == CallSpec => []NothingLost
  <1>1. CallSpec => CallInit /\ [][CallNext]_callVars
    BY PTL DEF CallSpec
  <1>2. CallInit => StreamIInv
    BY StreamInitially DEF CallInit
  <1>3. StreamIInv => NothingLost
    BY DEF StreamIInv
  <1> QED BY <1>1, <1>2, <1>3, StreamInductive, PTL
=============================================================================
