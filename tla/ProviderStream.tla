--------------------------- MODULE ProviderStream ---------------------------
(***************************************************************************)
(* Registry.continueStream (internal/provider/registry.go): the goroutine  *)
(* between a provider's stream and its consumer.  It forwards the chunks,  *)
(* asks the provider to go on while the answer is unfinished, repeats an   *)
(* answer that came back empty as an ordinary request, and ends its        *)
(* channel with one Done or one Error.                                     *)
(*                                                                         *)
(* A provider's stream is one goroutine of two kinds.  A "watchful" one    *)
(* (catalogruntime) drops what it was sending and closes its channel when  *)
(* the request's context ends; a "steady" one (compatible) turns that into *)
(* an Error.  Both channels are unbuffered: a send is the receiver's step. *)
(* A piece of text is not spelt: it says which round it came in, where in  *)
(* it, and whether it is nothing but space.                                *)
(***************************************************************************)
EXTENDS Naturals, Sequences, FiniteSets

CONSTANTS
  MaxPieces,  \* bound: pieces of text one provider stream sends
  MaxRounds   \* continuations of one answer (16)

Piece == [round : Nat, at : Nat, blank : BOOLEAN]
NoPiece == [round |-> 0, at |-> 0, blank |-> TRUE]

\* What the consumer may receive: text, or one of the two endings.
Chunk == [kind : {"delta", "done", "error"}, piece : Piece]
Delta(x) == [kind |-> "delta", piece |-> x]
Ending(kind) == [kind |-> kind, piece |-> NoPiece]

ASSUME StreamAssumption == MaxPieces \in Nat \ {0} /\ MaxRounds \in Nat

VARIABLES
  provider,       \* the kind of the provider's goroutine
  streamContext,  \* the request's context
  source,         \* the provider's channel: its stream is open, or closed
  pieces,         \* pieces the current provider stream has sent
  finished,       \* continueStream.finished
  combined,       \* continueStream.combined
  again,          \* history: the answer that was asked for again, once sent
  continued,      \* continueStream.continuations
  phase,          \* continueStream
  out,            \* what the consumer has received
  carried         \* history: pieces the last continuation request carried

streamVars == <<provider, streamContext, source, pieces, finished, combined,
                again, continued, phase, out, carried>>

StreamInit ==
  /\ provider \in {"watchful", "steady"}
  /\ streamContext = "live"
  /\ source = "open"
  /\ pieces = <<>>
  /\ finished = FALSE
  /\ combined = <<>>
  /\ again = <<>>
  /\ continued = 0
  /\ phase = "forward"
  /\ out = <<>>
  /\ carried = <<>>

-----------------------------------------------------------------------------
(* for chunk := range current *)

Send(chunk) == out' = Append(out, chunk)

\* only a steady provider reads on after the end marker
Delivering == phase = "forward" /\ source = "open" /\ (provider = "watchful" => ~finished)

\* the next piece of text a round says
Said(blank) == [round |-> continued, at |-> Len(pieces), blank |-> blank]

ForwardPiece(blank) ==
  /\ Delivering
  /\ Len(pieces) < MaxPieces
  /\ pieces' = Append(pieces, Said(blank))
  /\ combined' = Append(combined, Said(blank))
  /\ Send(Delta(Said(blank)))
  /\ UNCHANGED <<provider, streamContext, source, finished, again, continued, phase, carried>>

\* Done is remembered, not forwarded; a watchful provider closes after it
HearDone ==
  /\ Delivering
  /\ finished' = TRUE
  /\ source' \in IF provider = "watchful" THEN {"closed"} ELSE {"open", "closed"}
  /\ UNCHANGED <<provider, streamContext, pieces, combined, again, continued, phase, out, carried>>

\* an Error is forwarded and ends everything
AfterError == phase' = "closed"

ForwardError ==
  /\ Delivering
  /\ Send(Ending("error"))
  /\ AfterError
  /\ source' = "closed"
  /\ UNCHANGED <<provider, streamContext, pieces, finished, combined, again, continued, carried>>

\* sendStreamChunk gives up: the channel closes without a word
SourceCut ==
  /\ provider = "watchful" /\ streamContext = "ended"
  /\ phase = "forward" /\ source = "open"
  /\ source' = "closed"
  /\ UNCHANGED <<provider, streamContext, pieces, finished, combined, again, continued, phase, out, carried>>

Drained ==
  /\ phase = "forward" /\ source = "closed"
  /\ phase' = "judge"
  /\ UNCHANGED <<provider, streamContext, source, pieces, finished, combined, again, continued, out, carried>>

-----------------------------------------------------------------------------
(* what the stream amounts to *)

Close(kind) == Send(Ending(kind)) /\ phase' = "closed"

\* TrimSpace leaves nothing of it
Blank(text) == \A i \in 1 .. Len(text) : text[i].blank

\* finished and nothing but space: ask once more without streaming.  The space
\* has been sent.
Recover ==
  /\ phase = "judge"
  /\ finished /\ Blank(combined)
  /\ phase' = "recover"
  /\ UNCHANGED <<provider, streamContext, source, pieces, finished, combined, again, continued, out, carried>>

\* sendWithRetry answers with content, which combined does not get, or with an
\* error
RecoverAnswers ==
  /\ phase = "recover"
  /\ again' = <<Said(FALSE)>>
  /\ Send(Delta(Said(FALSE)))
  /\ phase' = "recovered"
  /\ UNCHANGED <<provider, streamContext, source, pieces, finished, combined, continued, carried>>

RecoverFails ==
  /\ phase = "recover"
  /\ Close("error")
  /\ UNCHANGED <<provider, streamContext, source, pieces, finished, combined, again, continued, carried>>

RecoverEnds ==
  /\ phase = "recovered"
  /\ Close("done")
  /\ UNCHANGED <<provider, streamContext, source, pieces, finished, combined, again, continued, carried>>

MoreRounds == continued < MaxRounds

\* done: cut short, out of rounds, or the text is finished
Complete ==
  /\ phase = "judge"
  /\ ~(finished /\ Blank(combined))
  /\ Close("done")
  /\ UNCHANGED <<provider, streamContext, source, pieces, finished, combined, again, continued, carried>>

\* responseNeedsContinuation
Unfinished ==
  /\ phase = "judge"
  /\ finished /\ ~Blank(combined) /\ MoreRounds
  /\ phase' = "continue"
  /\ UNCHANGED <<provider, streamContext, source, pieces, finished, combined, again, continued, out, carried>>

LastPieces == pieces

\* the assistant message of continuationRequest
SoFar == combined

GoOn ==
  /\ phase = "continue"
  /\ carried' = SoFar
  /\ continued' = continued + 1
  /\ source' = "open"
  /\ pieces' = <<>>
  /\ finished' = FALSE
  /\ phase' = "forward"
  /\ UNCHANGED <<provider, streamContext, combined, again, out>>

\* over the budget, or streamWithRetry fails
GoOnFails ==
  /\ phase = "continue"
  /\ Close("error")
  /\ UNCHANGED <<provider, streamContext, source, pieces, finished, combined, again, continued, carried>>

StreamContextEnds ==
  /\ streamContext = "live" /\ phase # "closed"
  /\ streamContext' = "ended"
  /\ UNCHANGED <<provider, source, pieces, finished, combined, again, continued, phase, out, carried>>

Source == (\E blank \in BOOLEAN : ForwardPiece(blank)) \/ HearDone \/ ForwardError \/ SourceCut

\* what continueStream does by itself
Own == Drained \/ Recover \/ RecoverEnds \/ Complete \/ Unfinished

\* what it waits for: sendWithRetry and streamWithRetry, which take the
\* provider's lock and call it
Asked == RecoverAnswers \/ RecoverFails \/ GoOn \/ GoOnFails

\* the end of the request's context ends the provider's stream
CutOff ==
  /\ streamContext = "ended"
  /\ SourceCut \/ (provider = "steady" /\ ForwardError)

Stream == Own \/ Asked

StreamNext == Source \/ Stream \/ StreamContextEnds

-----------------------------------------------------------------------------
(* properties *)

\* The consumer is sent what the rounds said, each piece once and in order,
\* and what a continuation is asked to go on from is what came before it: the
\* pieces of the round follow the text the request carried.  Only after space
\* is an answer asked for again.  The text has exactly one ending, Done or
\* Error, and nothing comes after it.
NothingLost ==
  LET text == combined \o again
  IN  /\ Len(out) = Len(text) + (IF phase = "closed" THEN 1 ELSE 0)
      /\ \A i \in 1 .. Len(text) : out[i] = Delta(text[i])
      /\ phase = "closed" => out[Len(out)].kind # "delta"
      /\ continued > 0 => combined = carried \o pieces
      /\ again # <<>> => Blank(combined)

\* The provider is silent while its request's context lives, or continueStream
\* waits for its next call.
StreamWaits == \/ phase = "forward" /\ source = "open" /\ streamContext = "live"
               \/ phase \in {"recover", "continue"}

\* The stream always ends, however many continuations it takes, unless it waits
\* for its provider for ever.
StreamEnds == <>(phase = "closed") \/ <>[]StreamWaits
=============================================================================
