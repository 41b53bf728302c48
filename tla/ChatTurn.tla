------------------------------ MODULE ChatTurn ------------------------------
(***************************************************************************)
(* One chat exchange: the handler that admits it, the task that prepares,  *)
(* streams, validates and stores the answer (api/chat), the bounded event  *)
(* channel to the client (core/protocol/chat.rs), a client that may stall  *)
(* or leave at any step, a provider that may answer anything, the server's *)
(* shutdown and the forced abort that follows it.                          *)
(*                                                                         *)
(* Text is counted, not spelled: one unit per delta or injected marker.    *)
(***************************************************************************)
EXTENDS Naturals, Sequences

CONSTANTS
  Capacity,     \* CHAT_EVENT_BUFFER
  MaxLen,       \* MAX_RESPONSE_SIZE, in deltas
  MaxRead       \* bound: events the provider's next read carries

\* A turn that asks no provider never fills the channel.
ASSUME TurnAssumption ==
  /\ Capacity \in Nat /\ Capacity >= 5 /\ MaxLen \in Nat \ {0} /\ MaxRead \in Nat \ {0}

VARIABLES
  at,         \* where the chat-turn task is
  outcome,    \* of prepare: "stream", "answer", "failed"; "none" before it
  client,     \* "asking" until the response starts, then "reading", then "gone"
  cancelled,  \* the exchange's cancellation token
  closed,     \* the receiver is dropped
  shutdown,   \* the server's token
  sent,       \* events put on the channel, in order
  read,       \* how many of them the client has taken
  finished,   \* generation_finished
  bytes,      \* provider events of the current read not yet processed
  len,        \* of full_response
  ended,      \* the provider said its answer is complete
  counted,    \* entitlements.record was called
  leased,     \* an ActiveGenerationLease is held
  stored,     \* the assistant message: "none", "complete", "fallback", the marker of a
              \* partial answer, or "lost" when storing that failed
  question,   \* the user message is in the history
  failed      \* ChatFailed was emitted

control == <<at, outcome>>
clientSide == <<client, cancelled, closed, read>>
stream == <<sent, finished>>
answer == <<bytes, len, ended, counted, leased, stored, question, failed>>
turnVars == <<control, clientSide, shutdown, stream, answer>>

Terminal == {"done", "error", "shutdown"}

Markers == {"interrupted", "serverShutdown", "truncated"}

Over == {"ended", "refused", "aborted"}

TurnInit ==
  /\ at = "prepare" /\ outcome = "none"
  /\ client = "asking" /\ cancelled = FALSE /\ closed = FALSE /\ read = 0
  /\ shutdown = FALSE
  /\ sent = <<>> /\ finished = FALSE
  /\ bytes = <<>> /\ len = 0 /\ ended = FALSE /\ counted = FALSE
  /\ leased = FALSE /\ stored = "none" /\ question = FALSE /\ failed = FALSE

-----------------------------------------------------------------------------
(* ChatEventStream.                                                        *)

Terminated == \E i \in DOMAIN sent : sent[i] \in Terminal

Full == Len(sent) - read >= Capacity

\* What emit refuses whatever the channel holds.
Refused(e) ==
  \/ e \in {"citation", "citations"} /\ ~finished
  \/ e = "chunk" /\ finished
  \/ Terminated
  \/ closed

\* emit waits for room, unless it drops the event.
CanEmit(e) == Refused(e) \/ ~Full

Put(e) == sent' = IF Refused(e) THEN sent ELSE Append(sent, e)

\* try_emit_non_terminal never waits.
TryPut(e) == sent' = IF Refused(e) \/ Full THEN sent ELSE Append(sent, e)

-----------------------------------------------------------------------------
(* prepare and the handler.                                                *)

\* validate_and_authorize stores the question; a later error is the response.
Prepare ==
  /\ at = "prepare"
  /\ UNCHANGED <<clientSide, shutdown, finished, bytes, len, ended, counted, leased, stored, failed>>
  /\ \/ at' = "refused" /\ question' \in BOOLEAN /\ UNCHANGED <<outcome, sent>>
     \/ /\ at' = "ready" /\ question' = TRUE
        /\ outcome' \in {"stream", "answer", "failed"}
        \* A turn that fails before retrieval has announced nothing.
        /\ Put("thinking") \/ (outcome' = "failed" /\ UNCHANGED sent)

\* ready_tx: without a listener the turn is cancelled.
Ready ==
  /\ at = "ready"
  /\ at' = IF outcome = "stream" THEN "init" ELSE "free"
  /\ client' = IF client = "asking" THEN "reading" ELSE client
  /\ cancelled' = (cancelled \/ client = "gone")
  /\ UNCHANGED <<outcome, closed, read, shutdown, stream, answer>>

\* The client goes away: its guard cancels the turn, unless the server is stopping
\* and the response had started.
Leave ==
  /\ client \in {"asking", "reading"} /\ at \notin {"refused"}
  /\ cancelled' = (cancelled \/ client = "asking" \/ ~shutdown)
  /\ client' = "gone"
  /\ UNCHANGED <<control, closed, read, shutdown, stream, answer>>

\* The receiver is dropped after the guard.
DropReceiver ==
  /\ client = "gone" /\ ~closed
  /\ closed' = TRUE
  /\ UNCHANGED <<control, client, cancelled, read, shutdown, stream, answer>>

Read ==
  /\ client = "reading" /\ read < Len(sent)
  /\ read' = read + 1
  /\ UNCHANGED <<control, client, cancelled, closed, shutdown, stream, answer>>

RequestShutdown ==
  /\ ~shutdown
  /\ shutdown' = TRUE
  /\ UNCHANGED <<control, clientSide, stream, answer>>

\* The task is dropped at an await, with the transaction it holds; a statement in
\* flight may still have taken effect.
ForceAbort ==
  /\ shutdown /\ at \notin Over
  /\ at' = "aborted" /\ leased' = FALSE
  /\ \/ UNCHANGED stored
     \/ at \in Markers /\ stored' = at
     \/ (at = "commit" \/ (at = "persist" /\ ~leased)) /\ stored' = "complete"
     \/ at = "freeSave" /\ stored' = "fallback"
  /\ UNCHANGED <<outcome, clientSide, shutdown, stream, bytes, len, ended, counted, question, failed>>

-----------------------------------------------------------------------------
(* run_provider_free.                                                      *)

FreeRest == UNCHANGED <<outcome, clientSide, shutdown, bytes, len, ended, counted, leased, question>>

\* A biased select: the server's token, the client's, then the answer itself.
StopFree ==
  /\ at \in {"free", "freeSave"} /\ (shutdown \/ cancelled)
  /\ at' = "ended"
  /\ IF shutdown THEN Put("shutdown") ELSE UNCHANGED sent
  /\ UNCHANGED stored \/ (at = "freeSave" /\ stored' = "fallback")
  /\ FreeRest /\ UNCHANGED <<finished, failed>>

\* None of its events waits, so the select is not left before the answer is stored.
StreamGroundedFallback ==
  /\ \/ /\ at = "free" /\ outcome = "answer" /\ ~shutdown /\ ~cancelled
        /\ at' = "freeCitations" /\ Put("chunk") /\ finished' = TRUE
     \/ at = "freeCitations" /\ at' = "freeMetrics" /\ Put("citations") /\ UNCHANGED finished
     \/ at = "freeMetrics" /\ at' = "freeSave" /\ Put("metrics") /\ UNCHANGED finished
  /\ FreeRest /\ UNCHANGED <<stored, failed>>

\* The client is told the answer is done even when it could not be stored.
FinishFallback ==
  /\ at = "freeSave"
  /\ at' = "ended" /\ stored' \in {"fallback", "none"} /\ Put("done")
  /\ FreeRest /\ UNCHANGED <<finished, failed>>

StreamTurnFailure ==
  /\ at = "free" /\ outcome = "failed" /\ ~shutdown /\ ~cancelled
  /\ at' = "ended" /\ failed' = TRUE /\ Put("error")
  /\ FreeRest /\ UNCHANGED <<finished, stored>>

-----------------------------------------------------------------------------
(* stream_llm_response: waiting for the provider.                          *)

Go(to) == at' = to /\ UNCHANGED <<outcome, clientSide, shutdown>>

\* The shutdown event first, then whatever text there is.
StopForShutdown ==
  /\ at \in {"init", "loop"} /\ shutdown
  /\ Go("telling") /\ UNCHANGED <<stream, answer>>

TellShutdown ==
  /\ at = "telling" /\ CanEmit("shutdown") /\ Put("shutdown")
  /\ Go(IF len > 0 THEN "serverShutdown" ELSE "ended")
  /\ UNCHANGED <<finished, answer>>

StopForClient ==
  /\ at \in {"init", "loop"} /\ ~shutdown /\ cancelled
  /\ Go(IF len > 0 THEN "interrupted" ELSE "ended") /\ UNCHANGED <<stream, answer>>

Listening == ~shutdown /\ ~cancelled

StreamStarts == at = "init" /\ Listening /\ Go("loop") /\ UNCHANGED <<stream, answer>>

\* An error or the timeout of the initialization; an error or an idle stream later.
ProviderFails == at \in {"init", "loop"} /\ Listening /\ Go("failing") /\ UNCHANGED <<stream, answer>>

\* Some(Ok(bytes)): provider events of one read, "[DONE]" or an error at most last.
TakeBytes ==
  /\ at = "loop" /\ Listening
  /\ \E n \in 1 .. MaxRead, last \in {"text", "marker", "done", "error"} :
       bytes' = [i \in 1 .. n |-> IF i = n THEN last ELSE "text"]
  /\ Go("events")
  /\ UNCHANGED <<stream, len, ended, counted, leased, stored, question, failed>>

\* The stream is exhausted without a done event.
StreamIsOver ==
  /\ at = "loop" /\ Listening
  /\ Go("finish") /\ ended' = TRUE
  /\ UNCHANGED <<stream, bytes, len, counted, leased, stored, question, failed>>

-----------------------------------------------------------------------------
(* process_chunk.                                                          *)

Processing == at = "events" /\ bytes # <<>>

EventRest == UNCHANGED <<counted, leased, stored, question, failed>>

\* A delta: size limit, append, then a look at the channel.
TextDelta ==
  /\ Processing /\ Head(bytes) = "text" /\ EventRest /\ UNCHANGED <<stream, ended>>
  /\ IF len + 1 > MaxLen
     THEN Go("truncated") /\ bytes' = <<>> /\ UNCHANGED len
     ELSE /\ len' = len + 1
          /\ IF closed THEN Go("finish") /\ bytes' = <<>>
                       ELSE Go("sending") /\ bytes' = Tail(bytes)

NativeCitation ==
  /\ Processing /\ Head(bytes) = "marker" /\ EventRest /\ UNCHANGED <<stream, ended>>
  /\ IF len + 1 > MaxLen
     THEN Go("truncated") /\ bytes' = <<>> /\ UNCHANGED len
     ELSE Go("sending") /\ len' = len + 1 /\ bytes' = Tail(bytes)

SendChunk ==
  /\ at = "sending" /\ CanEmit("chunk") /\ Put("chunk")
  /\ Go("events") /\ UNCHANGED <<finished, answer>>

ProviderDone ==
  /\ Processing /\ Head(bytes) = "done" /\ EventRest /\ UNCHANGED <<stream, len>>
  /\ Go("finish") /\ bytes' = <<>> /\ ended' = TRUE

ProviderError ==
  /\ Processing /\ Head(bytes) = "error" /\ EventRest /\ UNCHANGED <<stream, len, ended>>
  /\ Go("failing") /\ bytes' = <<>>

\* ChunkResult::Continue: the first text is charged, and the charge may be refused.
Continue ==
  /\ at = "events" /\ bytes = <<>>
  /\ IF ~counted /\ len > 0
     THEN counted' = TRUE /\ (Go("loop") \/ Go("failing"))
     ELSE Go("loop") /\ UNCHANGED counted
  /\ UNCHANGED <<stream, bytes, len, ended, leased, stored, question, failed>>

-----------------------------------------------------------------------------
(* Endings.                                                                *)

SavePartialResponse ==
  /\ at \in Markers
  /\ stored' \in {at, "lost"}
  /\ Go(IF at = "truncated" THEN "tooLong" ELSE "ended")
  /\ UNCHANGED <<stream, bytes, len, ended, counted, leased, question, failed>>

TellTooLong ==
  /\ at = "tooLong" /\ CanEmit("error") /\ Put("error")
  /\ Go("ended") /\ UNCHANGED <<finished, answer>>

\* run_llm_stream: ChatFailed, then the terminal error.
Fail ==
  /\ at = "failing" /\ CanEmit("error") /\ Put("error")
  /\ Go("ended") /\ failed' = TRUE
  /\ UNCHANGED <<finished, bytes, len, ended, counted, leased, stored, question>>

FinishGeneration ==
  /\ at = "finish"
  /\ finished' = TRUE /\ Go("resolve")
  /\ UNCHANGED <<sent, answer>>

\* resolve_citations: a lease is held only for citations that are still active.
ResolveCitations ==
  /\ at = "resolve"
  /\ leased' \in BOOLEAN /\ Go("persist")
  /\ UNCHANGED <<stream, bytes, len, ended, counted, stored, question, failed>>

CompleteRest == UNCHANGED <<bytes, len, ended, counted, question, failed>>

\* Mutant: a failed insert is tolerated, as it is for a fallback answer.
PersistTolerant ==
  /\ at = "persist" /\ CompleteRest /\ UNCHANGED stream
  /\ \/ leased /\ Go("citation") /\ UNCHANGED <<leased, stored>>
     \/ ~leased /\ Go("citations") /\ stored' \in {"complete", "none"} /\ UNCHANGED leased

\* create_message_in_transaction, or create_message without a lease.
Persist ==
  /\ at = "persist" /\ CompleteRest /\ UNCHANGED stream
  /\ \/ leased /\ Go("citation") /\ UNCHANGED <<leased, stored>>
     \/ ~leased /\ Go("citations") /\ stored' = "complete" /\ UNCHANGED leased
     \/ Go("failing") /\ leased' = FALSE /\ UNCHANGED stored

\* Mutant: the citations of a leased answer wait for the client.
EnqueueWaiting ==
  \/ at = "citation" /\ CanEmit("citation") /\ Put("citation") /\ Go("enqueue") /\ UNCHANGED <<finished, answer>>
  \/ at = "enqueue" /\ CanEmit("citations") /\ Put("citations") /\ Go("commit") /\ UNCHANGED <<finished, answer>>

\* Mutant: the list before the single citations.
EnqueueSwapped ==
  \/ at = "citation" /\ TryPut("citations") /\ Go("enqueue") /\ UNCHANGED <<finished, answer>>
  \/ at = "enqueue" /\ TryPut("citation") /\ Go("commit") /\ UNCHANGED <<finished, answer>>

EnqueueCitations ==
  \/ at = "citation" /\ TryPut("citation") /\ Go("enqueue") /\ UNCHANGED <<finished, answer>>
  \/ at = "enqueue" /\ TryPut("citations") /\ Go("commit") /\ UNCHANGED <<finished, answer>>

\* lease.release commits; an error leaves open whether it did.
Release ==
  /\ at = "commit" /\ leased' = FALSE /\ CompleteRest /\ UNCHANGED stream
  /\ \/ Go("metrics") /\ stored' = "complete"
     \/ Go("failing") /\ (stored' = "complete" \/ UNCHANGED stored)

EmitCitations ==
  /\ at = "citations" /\ CanEmit("citations") /\ Put("citations")
  /\ Go("metrics") /\ UNCHANGED <<finished, answer>>

\* The memory tasks are spawned and the RAG log written after the metrics.
EmitMetrics ==
  /\ at = "metrics" /\ CanEmit("metrics") /\ Put("metrics")
  /\ Go("suggest") /\ UNCHANGED <<finished, answer>>

\* Within its timeout, or skipped.
GenerateFollowUpSuggestions ==
  /\ at = "suggest" /\ Go("done") /\ UNCHANGED <<finished, answer>>
  /\ (CanEmit("suggestions") /\ Put("suggestions")) \/ UNCHANGED sent

Done ==
  /\ at = "done" /\ CanEmit("done") /\ Put("done")
  /\ Go("ended") /\ UNCHANGED <<finished, answer>>

-----------------------------------------------------------------------------
Free == StopFree \/ StreamGroundedFallback \/ FinishFallback \/ StreamTurnFailure

Wait == StopForShutdown \/ TellShutdown \/ StopForClient \/ StreamStarts
        \/ ProviderFails \/ TakeBytes \/ StreamIsOver

ProcessChunk == TextDelta \/ NativeCitation \/ SendChunk \/ ProviderDone \/ ProviderError \/ Continue

Complete ==
  \/ FinishGeneration \/ ResolveCitations \/ Persist \/ EnqueueCitations \/ Release
  \/ EmitCitations \/ EmitMetrics \/ GenerateFollowUpSuggestions \/ Done

TaskStep ==
  Prepare \/ Ready \/ Free \/ Wait \/ ProcessChunk
  \/ SavePartialResponse \/ TellTooLong \/ Fail \/ Complete

TurnNext == TaskStep \/ Leave \/ DropReceiver \/ Read \/ RequestShutdown \/ ForceAbort

TurnSpec == TurnInit /\ [][TurnNext]_turnVars

\* The task runs and its provider calls time out; a dropped response drops its
\* receiver.  Nobody has to read, to leave or to stop the server.
TurnFairness == WF_turnVars(TaskStep) /\ WF_turnVars(DropReceiver)

-----------------------------------------------------------------------------
TurnTypeOK ==
  /\ outcome \in {"none", "stream", "answer", "failed"}
  /\ client \in {"asking", "reading", "gone"}
  /\ \A v \in {cancelled, closed, shutdown, finished, ended, counted, leased, question, failed} : v \in BOOLEAN
  /\ read \in 0 .. Len(sent) /\ len \in 0 .. MaxLen /\ Len(bytes) <= MaxRead
  /\ Len(sent) - read <= Capacity
  /\ stored \in {"none", "complete", "fallback", "lost"} \cup Markers

Protocol == INSTANCE ChatProtocol

\* Whatever fails, stalls or stops, the events on the channel are those of the
\* protocol: phases in order, at most one terminal event and nothing after it, and
\* success only for an answer that got through to its metrics.
ImplementsProtocol == Protocol!ProtocolSpec

\* A success the client was told of is in the history: a generated answer is stored
\* whole before its done event, whatever failed on the way.
DoneIsStored ==
  (outcome = "stream" /\ \E i \in DOMAIN sent : sent[i] = "done") => stored = "complete"

\* A turn that ran to its end keeps the text it had streamed, whoever cut it short,
\* unless it failed and said so.
TextIsKept == (at = "ended" /\ len > 0 /\ stored = "none") => failed

\* The locks on the cited sources never wait for the client (comment above the lease
\* in stream_llm_response): with no client reading at all, a lease is released.
LeaseIsReleased == leased ~> ~leased

\* A client that leaves does not keep its turn alive.
LeavingEndsTurn == closed ~> at \in Over

\* A client that keeps reading is told how the turn ended, unless the server aborts
\* the task: a stream that stops in silence means a lost connection.
ReaderIsTold ==
  []<>(read = Len(sent)) =>
    (at # "prepare" ~> at \in {"refused", "aborted"} \/ client = "gone" \/ Terminated)

\* What a turn keeps at every step: done only after the answer was stored, and no streamed text
\* lost on a path that stores.
TurnInv == TurnTypeOK /\ DoneIsStored /\ TextIsKept

\* A turn comes to its end: it gives the row locks of its lease back, it ends when the client
\* leaves, and a client that reads is told how it ended.
TurnEnds == LeaseIsReleased /\ LeavingEndsTurn /\ ReaderIsTold

=============================================================================
