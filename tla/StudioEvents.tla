---------------------------- MODULE StudioEvents ----------------------------
(***************************************************************************)
(* The event bus of the Studio UI (internal/api/service.go, server.go).    *)
(*                                                                         *)
(* Chats and agent runs report their progress with Service.emitEvent,      *)
(* which offers the event to the channel of every subscriber under eventMu *)
(* and drops it where the channel is full.  Each GET /v1/events is a       *)
(* handler that subscribes, forwards what it receives to its client, and   *)
(* unsubscribes when the client leaves, which closes its channel.          *)
(*                                                                         *)
(* An emitter is one request; its events are numbered in the order it      *)
(* emits them and the last one is its session.completed.                   *)
(***************************************************************************)
EXTENDS Naturals, Sequences, SequencesExt

CONSTANTS
  Emitters,     \* requests that emit events
  Subscribers,  \* GET /v1/events connections
  Capacity,     \* capacity of a subscriber's channel (1024)
  MaxEvents     \* bound: events of one emitter

ASSUME StudioEventsAssumption == /\ Capacity \in Nat \ {0}
                                 /\ MaxEvents \in Nat \ {0}

VARIABLES
  emitted,      \* emitter -> how many events it has emitted
  subscribers,  \* Service.eventSubscribers
  handler,      \* connection -> where its handler is
  closed,       \* connections whose channel is closed
  buffer,       \* connection -> the events in its channel
  sent,         \* connection -> the events written to its client
  dropped,      \* history: connection -> the events its full channel missed
  before        \* history: connection, emitter -> events emitted before it subscribed

busVars == <<emitted, subscribers, handler, closed, buffer, sent, dropped, before>>

Event == [from : Emitters, number : 1 .. MaxEvents]

BusTypeOK ==
  /\ emitted \in [Emitters -> 0 .. MaxEvents]
  /\ subscribers \subseteq Subscribers
  /\ handler \in [Subscribers -> {"new", "streaming", "leaving", "gone"}]
  /\ closed \subseteq Subscribers
  /\ buffer \in [Subscribers -> Seq(Event)]
  /\ \A s \in Subscribers : Len(buffer[s]) <= Capacity
  /\ sent \in [Subscribers -> Seq(Event)]
  /\ dropped \in [Subscribers -> SUBSET Event]
  /\ before \in [Subscribers -> [Emitters -> 0 .. MaxEvents]]

BusInit ==
  /\ emitted = [e \in Emitters |-> 0]
  /\ subscribers = {}
  /\ handler = [s \in Subscribers |-> "new"]
  /\ closed = {}
  /\ buffer = [s \in Subscribers |-> <<>>]
  /\ sent = [s \in Subscribers |-> <<>>]
  /\ dropped = [s \in Subscribers |-> {}]
  /\ before = [s \in Subscribers |-> [e \in Emitters |-> 0]]

-----------------------------------------------------------------------------

\* select { case ch <- event: default: }
HasRoom(s) == Len(buffer[s]) < Capacity

OfferByReplacing(s, event) ==
  IF HasRoom(s) THEN Append(buffer[s], event) ELSE Append(Tail(buffer[s]), event)

Offer(s, event) == IF HasRoom(s) THEN Append(buffer[s], event) ELSE buffer[s]

\* emitEvent: one critical section of eventMu
Emit(e) ==
  /\ emitted[e] < MaxEvents
  /\ LET event == [from |-> e, number |-> emitted[e] + 1] IN
     /\ emitted' = [emitted EXCEPT ![e] = @ + 1]
     /\ buffer' = [s \in Subscribers |->
                     IF s \in subscribers THEN Offer(s, event) ELSE buffer[s]]
     /\ dropped' = [s \in Subscribers |->
                      IF s \in subscribers /\ ~HasRoom(s)
                      THEN dropped[s] \cup {event} ELSE dropped[s]]
  /\ UNCHANGED <<subscribers, handler, closed, sent, before>>

Subscribe(s) ==
  /\ handler[s] = "new"
  /\ handler' = [handler EXCEPT ![s] = "streaming"]
  /\ subscribers' = subscribers \cup {s}
  /\ before' = [before EXCEPT ![s] = emitted]
  /\ UNCHANGED <<emitted, closed, buffer, sent, dropped>>

ForwardWhenFull(s) ==
  /\ handler[s] = "streaming"
  /\ ~HasRoom(s)
  /\ sent' = [sent EXCEPT ![s] = Append(@, Head(buffer[s]))]
  /\ buffer' = [buffer EXCEPT ![s] = Tail(@)]
  /\ UNCHANGED <<emitted, subscribers, handler, closed, dropped, before>>

\* the handler receives an event and writes it to its client
Forward(s) ==
  /\ handler[s] = "streaming"
  /\ buffer[s] # <<>>
  /\ sent' = [sent EXCEPT ![s] = Append(@, Head(buffer[s]))]
  /\ buffer' = [buffer EXCEPT ![s] = Tail(@)]
  /\ UNCHANGED <<emitted, subscribers, handler, closed, dropped, before>>

\* the client's context is done: the select may see it while events wait
ClientLeaves(s) ==
  /\ handler[s] = "streaming"
  /\ handler' = [handler EXCEPT ![s] = "leaving"]
  /\ UNCHANGED <<emitted, subscribers, closed, buffer, sent, dropped, before>>

ClosesOnly(s) == subscribers

\* under eventMu: out of the map, and only then closed
Removed(s) == subscribers \ {s}

Unsubscribe(s) ==
  /\ handler[s] = "leaving"
  /\ subscribers' = Removed(s)
  /\ closed' = closed \cup {s}
  /\ handler' = [handler EXCEPT ![s] = "gone"]
  /\ UNCHANGED <<emitted, buffer, sent, dropped, before>>

BusNext == \/ \E e \in Emitters : Emit(e)
           \/ \E s \in Subscribers :
                Subscribe(s) \/ Forward(s) \/ ClientLeaves(s) \/ Unsubscribe(s)

BusSpec == BusInit /\ [][BusNext]_busVars

\* a connected handler keeps forwarding, and one that left unsubscribes
BusFairness == \A s \in Subscribers : WF_busVars(Forward(s)) /\ WF_busVars(Unsubscribe(s))

-----------------------------------------------------------------------------
(* properties *)

\* A send on a closed channel would bring the server down: no channel an
\* emitter can still find is closed.
NoSendOnClosed == subscribers \cap closed = {}

Before(a, b) == a.from = b.from => a.number < b.number

\* What a client has been sent and what waits for it are the events of each
\* request in the order it emitted them.
InOrder ==
  \A s \in Subscribers :
    LET stream == sent[s] \o buffer[s] IN
    \A i, k \in 1 .. Len(stream) : i < k => Before(stream[i], stream[k])

\* An event emitted while a client streams is on its way to it unless its
\* channel was full: nothing else, in particular no other client, costs a
\* client an event.
OnlyOverflowDrops ==
  \A s \in Subscribers, e \in Emitters :
    handler[s] = "streaming" =>
      \A n \in before[s][e] + 1 .. emitted[e] :
        LET event == [from |-> e, number |-> n] IN
        event \in dropped[s] \cup ToSet(sent[s] \o buffer[s])

\* A client's stream is each request's events, in order, less what overflowed.
StreamsFaithful == InOrder /\ OnlyOverflowDrops

\* What is in a client's channel reaches the client, unless it leaves: events
\* only leave a channel by being written, in their order, and a channel is
\* emptied as often as one fills it (each emitter emits finitely many).
Delivered ==
  \A s \in Subscribers : []<>(buffer[s] = <<>> \/ handler[s] # "streaming")
=============================================================================
