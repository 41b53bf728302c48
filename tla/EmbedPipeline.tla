---------------------------- MODULE EmbedPipeline ----------------------------
(***************************************************************************)
(* embed_and_store: a producer task embeds batches concurrently and sends  *)
(* them through a bounded channel to the build's own task, which stores    *)
(* each in a transaction.  Either side can fail, process_source may drop   *)
(* the consuming side at its deadline, and the server's shutdown cancels   *)
(* the token both sides watch.                                             *)
(*                                                                         *)
(* Order inside the channel is left out: a batch names its own base index. *)
(***************************************************************************)
EXTENDS Naturals, FiniteSets

CONSTANTS
  Batches,          \* what chunks.chunks(batch_size) yields
  Concurrency,      \* embedder.concurrency(), the width of buffer_unordered
  Capacity          \* 2, the channel's bound

ASSUME PipelineAssumption ==
  /\ IsFiniteSet(Batches)
  /\ Concurrency \in Nat \ {0} /\ Capacity \in Nat \ {0}

VARIABLES
  batch,            \* Batches -> where the batch is
  producer,         \* "running", "collected" (try_collect returned), "done"
  result,           \* what try_collect returned, or why it failed
  consumer,         \* "receiving", "storing", "closing", "discarding", "returned", "dropped"
  storageFailed,    \* consumer_error is Some
  rxOpen,
  token,            \* the ingestion token is cancelled
  shutdown,         \* its parent, the server's token, is cancelled
  outcome,          \* of run_build's last stage
  cause             \* the error embed_and_store returned

pipeVars == <<batch, producer, result, consumer, storageFailed, rxOpen,
              token, shutdown, outcome, cause>>

producerVars == <<producer, result>>
consumerVars == <<consumer, storageFailed, rxOpen>>
reportVars   == <<shutdown, outcome, cause>>

Places == {"waiting", "embedding", "sending", "queued", "storing", "stored", "dropped"}
Errors == {"provider", "cancelled", "closed"}

In(place) == {b \in Batches : batch[b] = place}

Stored == In("stored")

InProducer == In("waiting") \cup In("embedding") \cup In("sending")

Move(b, place) == batch' = [batch EXCEPT ![b] = place]

Drop(S) == batch' = [b \in Batches |-> IF b \in S THEN "dropped" ELSE batch[b]]

PipeInit ==
  /\ batch = [b \in Batches |-> "waiting"]
  /\ producer = "running" /\ result = "none"
  /\ consumer = "receiving" /\ storageFailed = FALSE /\ rxOpen = TRUE
  /\ token = FALSE /\ shutdown = FALSE
  /\ outcome = "running" /\ cause = "none"

-----------------------------------------------------------------------------
(* The producer: stream::iter(..).map(..).buffer_unordered(..).try_collect *)

(* The batch's future is created and polled; with every chunk reused there *)
(* is no provider call.                                                    *)
StartBatch(b) ==
  /\ producer = "running" /\ ~token
  /\ batch[b] = "waiting"
  /\ Cardinality(In("embedding") \cup In("sending")) < Concurrency
  /\ Move(b, "embedding") \/ Move(b, "sending")
  /\ UNCHANGED <<producerVars, consumerVars, token, reportVars>>

EmbedAnswers(b) ==
  /\ producer = "running" /\ ~token
  /\ batch[b] = "embedding"
  /\ Move(b, "sending")
  /\ UNCHANGED <<producerVars, consumerVars, token, reportVars>>

Send(b) ==
  /\ producer = "running" /\ rxOpen
  /\ batch[b] = "sending"
  /\ Cardinality(In("queued")) < Capacity
  /\ Move(b, "queued")
  /\ UNCHANGED <<producerVars, consumerVars, token, reportVars>>

(* The first error ends try_collect and drops every other future.          *)
Collect(r) ==
  /\ producer = "running"
  /\ producer' = "collected" /\ result' = r
  /\ Drop(InProducer)
  /\ UNCHANGED <<consumerVars, token, reportVars>>

ProviderFails ==
  /\ In("embedding") # {} /\ ~token
  /\ Collect("provider")

BatchCancelled ==
  /\ token
  /\ \/ In("embedding") # {}
     \/ In("waiting") # {} /\ Cardinality(In("embedding") \cup In("sending")) < Concurrency
  /\ Collect("cancelled")

SendFails ==
  /\ In("sending") # {} /\ ~rxOpen
  /\ Collect("closed")

AllSent ==
  /\ InProducer = {}
  /\ Collect("ok")

(* An error cancels the token; then the last sender is dropped.            *)
ProducerEnds ==
  /\ producer = "collected"
  /\ producer' = "done"
  /\ token' = (token \/ result # "ok")
  /\ UNCHANGED <<batch, result, consumerVars, reportVars>>

-----------------------------------------------------------------------------
(* The consumer: store_batches and what embed_and_store does after it.     *)

Receive ==
  /\ consumer = "receiving" /\ ~token
  /\ \E b \in In("queued") : Move(b, "storing")
  /\ consumer' = "storing"
  /\ UNCHANGED <<producerVars, storageFailed, rxOpen, token, reportVars>>

(* biased: the cancellation is looked at before the channel.               *)
SeeCancelled ==
  /\ consumer = "receiving" /\ token
  /\ consumer' = "closing"
  /\ UNCHANGED <<batch, producerVars, storageFailed, rxOpen, token, reportVars>>

SeeEnd ==
  /\ consumer = "receiving" /\ ~token
  /\ In("queued") = {} /\ producer = "done"
  /\ consumer' = "closing"
  /\ UNCHANGED <<batch, producerVars, storageFailed, rxOpen, token, reportVars>>

(* Waiting for the database returns to process_source's select!, which     *)
(* looks at the server's shutdown first.                                   *)
StoreOk ==
  /\ consumer = "storing" /\ ~shutdown
  /\ batch' = [b \in Batches |-> IF batch[b] = "storing" THEN "stored" ELSE batch[b]]
  /\ consumer' = "receiving"
  /\ UNCHANGED <<producerVars, storageFailed, rxOpen, token, reportVars>>

(* consumer_error.is_some(): tasks.cancel().                               *)
StoreFails ==
  /\ consumer = "storing" /\ ~shutdown
  /\ Drop(In("storing"))
  /\ consumer' = "closing" /\ storageFailed' = TRUE
  /\ token' = TRUE
  /\ UNCHANGED <<producerVars, rxOpen, reportVars>>

Close ==
  /\ consumer = "closing"
  /\ consumer' = "discarding" /\ rxOpen' = FALSE
  /\ UNCHANGED <<batch, producerVars, storageFailed, token, reportVars>>

Discard ==
  /\ consumer = "discarding" /\ ~rxOpen
  /\ \E b \in In("queued") : Move(b, "dropped")
  /\ UNCHANGED <<producerVars, consumerVars, token, reportVars>>

Return(o, c) ==
  /\ consumer' = "returned"
  /\ outcome' = o /\ cause' = c
  /\ UNCHANGED <<batch, producerVars, storageFailed, rxOpen, token, shutdown>>

(* A slip: the producer's error is reported first.                         *)
JoinProducerFirst ==
  /\ consumer = "discarding" /\ In("queued") = {} /\ producer = "done"
  /\ \/ result # "ok" /\ Return("error", result)
     \/ result = "ok" /\ storageFailed /\ Return("error", "storage")
     \/ result = "ok" /\ ~storageFailed /\ Return("ok", "none")

(* A slip: what the producer returned is not looked at.                    *)
JoinIgnoringProducer ==
  /\ consumer = "discarding" /\ In("queued") = {} /\ producer = "done"
  /\ \/ storageFailed /\ Return("error", "storage")
     \/ ~storageFailed /\ Return("ok", "none")

(* producer_handle.await, then the storage error first.                    *)
Join ==
  /\ consumer = "discarding" /\ In("queued") = {} /\ producer = "done"
  /\ \/ storageFailed /\ Return("error", "storage")
     \/ ~storageFailed /\ result # "ok" /\ Return("error", result)
     \/ ~storageFailed /\ result = "ok" /\ Return("ok", "none")

-----------------------------------------------------------------------------
(* process_source around it.                                               *)

BeginShutdown ==
  /\ ~shutdown
  /\ shutdown' = TRUE /\ token' = TRUE
  /\ UNCHANGED <<batch, producerVars, consumerVars, outcome, cause>>

(* The consuming future is dropped with the receiver; a commit it awaited  *)
(* may have reached the database.  Then tasks.cancel().                    *)
Abandon ==
  /\ outcome = "running"
  /\ consumer' = "dropped" /\ rxOpen' = FALSE
  /\ outcome' = "error" /\ cause' = "abandoned"
  /\ token' = TRUE
  /\ \E place \in {"stored", "dropped"} :
       batch' = [b \in Batches |-> IF batch[b] = "storing" THEN place
                                   ELSE IF batch[b] = "queued" THEN "dropped" ELSE batch[b]]
  /\ UNCHANGED <<producerVars, storageFailed, shutdown>>

TimeOut == ~shutdown /\ Abandon

TakeShutdown == shutdown /\ Abandon

(* drain_ingestion's deadline passes: the task is aborted where it is.     *)
AbortProducer ==
  /\ outcome # "running" /\ producer # "done"
  /\ producer' = "done"
  /\ result' = IF result = "none" THEN "cancelled" ELSE result
  /\ Drop(InProducer)
  /\ UNCHANGED <<consumerVars, token, reportVars>>

-----------------------------------------------------------------------------
ProducerStep ==
  \/ \E b \in Batches : StartBatch(b) \/ Send(b)
  \/ BatchCancelled \/ SendFails \/ AllSent \/ ProducerEnds

ConsumerStep ==
  Receive \/ SeeCancelled \/ SeeEnd \/ StoreOk \/ StoreFails \/ Close \/ Discard \/ Join

PipeNext ==
  \/ ProducerStep
  \/ \E b \in Batches : EmbedAnswers(b)
  \/ ProviderFails
  \/ ConsumerStep
  \/ BeginShutdown \/ TimeOut \/ TakeShutdown \/ AbortProducer

PipeSpec == PipeInit /\ [][PipeNext]_pipeVars

(* The runtime polls both sides and the database answers.  Nothing is      *)
(* assumed of the provider, of the deadline or of the drain's abort.       *)
PipeFairness ==
  /\ WF_pipeVars(ProducerStep)
  /\ WF_pipeVars(ConsumerStep)
  /\ WF_pipeVars(TakeShutdown)

-----------------------------------------------------------------------------
PipeTypeOK ==
  /\ batch \in [Batches -> Places]
  /\ producer \in {"running", "collected", "done"}
  /\ result \in {"none", "ok"} \cup Errors
  /\ consumer \in {"receiving", "storing", "closing", "discarding", "returned", "dropped"}
  /\ storageFailed \in BOOLEAN /\ rxOpen \in BOOLEAN
  /\ token \in BOOLEAN /\ shutdown \in BOOLEAN
  /\ outcome \in {"running", "ok", "error"}
  /\ cause \in {"none", "storage", "abandoned"} \cup Errors

Troubled == shutdown \/ storageFailed \/ result \in Errors

(* The inductive invariant behind the three properties below: at most one  *)
(* batch is in the database's hands, nothing is thrown away and the stage  *)
(* does not start to end early unless a side failed or the server stops,   *)
(* and a producer that failed for another side's sake shows whose.         *)
PipeInv ==
  /\ producer = "running" <=> result = "none"
  /\ producer # "running" => InProducer = {}
  /\ \A b, c \in In("storing") : b = c
  /\ In("storing") # {} => consumer = "storing"
  /\ outcome = "running" <=> consumer \notin {"returned", "dropped"}
  /\ outcome = "running" => cause = "none"
  /\ ~rxOpen => consumer \in {"discarding", "returned", "dropped"}
  /\ outcome = "running" /\ (token \/ In("dropped") # {}) => Troubled
  /\ consumer \in {"closing", "discarding"} =>
       Troubled \/ (In("queued") = {} /\ producer = "done")
  /\ outcome = "running" /\ result \in {"cancelled", "closed"} => shutdown \/ storageFailed

(* embed_and_store keeps its contract: it succeeds only with every batch   *)
(* stored, unless the server is shutting down, and a failure is final.     *)
Contract == INSTANCE EmbedAndStore WITH stored <- Stored

KeepsContract == Contract!Spec

(* The error reported is the cause: a storage failure is never reported as *)
(* the cancellation or the closed channel it led to, which only a server   *)
(* shutdown may bring to the surface.                                      *)
CauseIsReported ==
  /\ cause = "provider" => ~storageFailed
  /\ cause \in {"cancelled", "closed"} => shutdown

(* process_source publishes after this: a successful stage leaves nothing  *)
(* embedding, sending or storing behind.                                   *)
NothingBehindSuccess ==
  outcome = "ok" => /\ producer = "done"
                    /\ InProducer \cup In("queued") \cup In("storing") = {}

(* The stage at every step: no batch is lost between the two sides, the    *)
(* error reported is the cause, and success leaves nothing running.        *)
PipeSafe == PipeTypeOK /\ PipeInv /\ CauseIsReported /\ NothingBehindSuccess

(* Once cancelled, by either side's error, the deadline or the shutdown,   *)
(* both sides end by themselves: no send stays blocked on a consumer that  *)
(* stopped reading, no call to a silent provider holds the run open.       *)
CancelEndsBoth ==
  token ~> outcome # "running" /\ producer = "done"
=============================================================================
