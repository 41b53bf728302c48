-------------------------- MODULE SourceProcessing --------------------------
(***************************************************************************)
(* The life of an index build above the store: an HTTP request creates or  *)
(* reprocesses a source, fails abandoned builds, claims a generation and   *)
(* hands it to a task that runs process_source; the maintenance loop       *)
(* recovers what crashed.  Every database call is one action of            *)
(* IndexGenerations, so the store's guarantees hold here as well, and what *)
(* this module adds is who makes which call when.                          *)
(*                                                                         *)
(* Time.  Requests and builds run under timers (the router's TimeoutLayer, *)
(* PROCESSING_TIMEOUT); publication and failure reporting run under none.  *)
(* With Punctual the timers fire on time; without, a paused process may    *)
(* see them late.                                                          *)
(***************************************************************************)
EXTENDS IndexGenerations

CONSTANTS
  Workers,             \* admitted requests, each with the task it leads to
  RequestTimeout,      \* request_timeout_secs, in ticks
  ProcessingTimeout,   \* PROCESSING_TIMEOUT, in ticks
  Punctual,            \* whether timers fire on time
  MaxRestarts,         \* bound on process exits
  LastAdmission        \* bound on when requests still arrive

(* STALE_BUILD_MULTIPLIER is 2; the configuration caps every timeout at    *)
(* the 600 seconds that PROCESSING_TIMEOUT also is.                        *)
ASSUME TimeoutsAssumption ==
  /\ RequestTimeout \in Nat /\ ProcessingTimeout \in Nat
  /\ RequestTimeout <= ProcessingTimeout
  /\ StaleAfter = 2 * ProcessingTimeout
  /\ Punctual \in BOOLEAN
  /\ MaxRestarts \in Nat /\ LastAdmission \in Nat

VARIABLES
  job,                 \* Workers -> the request or task
  server,              \* "up", "draining" after begin_shutdown, "down"
  restarts

procVars == <<vars, job, server, restarts>>

-----------------------------------------------------------------------------
(* Stages.  Preparation is bound to the request, the build stages run      *)
(* under process_source's select!, the reporting stages run to completion. *)

Preparing == {"create", "select", "recover", "refused", "pending"}
BuildStages == {"processing", "extracting", "planning", "embedding", "storing"}
Reporting == {"publishing", "announce", "reclaim", "failing", "failed"}

Job ==
  [pc: {"idle", "done", "gone"} \cup Preparing \cup BuildStages \cup Reporting,
   s: Sources \cup {Null},
   g: Gens \cup {Null},
   create: BOOLEAN,
   since: Nat,                          \* when its timer started
   stale: SUBSET Gens,                  \* rows of STALE_BUILDING_SQL left to fail
   unstored: SUBSET Positions,          \* batches not stored yet
   told: {"nothing", "ready", "error"}] \* terminal event broadcast

Waiting ==
  [pc |-> "idle", s |-> Null, g |-> Null, create |-> FALSE, since |-> 0,
   stale |-> {}, unstored |-> {}, told |-> "nothing"]

At(w, pc) == job[w].pc = pc

Active(w) == job[w].pc \in Preparing \cup BuildStages \cup Reporting

Goto(w, pc) == job' = [job EXCEPT ![w].pc = pc]

Deadline(w) ==
  job[w].since + IF job[w].pc \in Preparing THEN RequestTimeout ELSE ProcessingTimeout

Timed(w) == job[w].pc \in Preparing \cup BuildStages

(* A slip: a build is called stale after a single processing timeout.      *)
StaleOneTimeout ==
  {g \in Gens : /\ generations[g].state = "building"
                /\ OlderThan(g, ProcessingTimeout)}

StaleBuilds ==
  {g \in Gens : generations[g].state = "building" /\ OlderThan(g, StaleAfter)}

-----------------------------------------------------------------------------
(* Preparation: prepare_source_creation, prepare_source_reprocess.         *)

AdmitRequest(w, s) ==
  /\ At(w, "idle")
  /\ server = "up"
  /\ now <= LastAdmission
  /\ \/ sources[s].row = "absent" /\ \A v \in Workers : job[v].s = s => ~At(v, "create")
     \/ Live(s)
  /\ job' = [job EXCEPT ![w] =
       [Waiting EXCEPT !.s = s, !.since = now,
                       !.create = (sources[s].row = "absent"),
                       !.pc = IF Live(s) THEN "select" ELSE "create"]]
  /\ UNCHANGED <<vars, server, restarts>>

CreateRow(w) ==
  /\ At(w, "create")
  /\ CreateSource(job[w].s)
  /\ Goto(w, "select")
  /\ UNCHANGED <<server, restarts>>

(* fail_stale_builds, first the SELECT and then row by row.                *)
SelectStale(w) ==
  /\ At(w, "select")
  /\ job' = [job EXCEPT ![w].pc = "recover", ![w].stale = StaleBuilds]
  /\ UNCHANGED <<vars, server, restarts>>

(* A slip: the failed build's source keeps the status it had.              *)
FailIfBuildingOnly(g) ==
  /\ generations' = IF generations[g].state = "building"
                    THEN [generations EXCEPT ![g].state = "failed"] ELSE generations
  /\ UNCHANGED <<now, sources, chunks>>

FailIfBuilding(g) ==
  \/ /\ generations[g].state = "building"
     /\ generations' = [generations EXCEPT ![g].state = "failed"]
     /\ RestoreStatus(generations[g].source_id)
     /\ UNCHANGED <<now, chunks>>
  \/ /\ generations[g].state # "building"
     /\ UNCHANGED vars

RecoverStale(w) ==
  /\ At(w, "recover")
  /\ \E g \in job[w].stale :
       /\ FailIfBuilding(g)
       /\ job' = [job EXCEPT ![w].stale = @ \ {g}]
  /\ UNCHANGED <<server, restarts>>

ClaimWon(w) ==
  /\ At(w, "recover") /\ job[w].stale = {}
  /\ \E g \in Gens, fp \in Fingerprints :
       /\ Claim(job[w].s, g, fp)
       /\ job' = [job EXCEPT ![w].g = g, ![w].unstored = Positions,
                             ![w].pc = IF job[w].create THEN "processing" ELSE "pending",
                             ![w].since = IF job[w].create THEN now ELSE @]
  /\ UNCHANGED <<server, restarts>>

(* Another worker owns the source's build: answer with its state.          *)
ClaimCoalesced(w) ==
  /\ At(w, "recover") /\ job[w].stale = {}
  /\ Building(job[w].s) # {}
  /\ Goto(w, "done")
  /\ UNCHANGED <<vars, server, restarts>>

(* No embedding provider, unacceptable provenance, or a database error,    *)
(* which may hide a claim that did commit.                                 *)
ClaimRefused(w) ==
  /\ job[w].pc \in {"select", "recover"}
  /\ \/ UNCHANGED vars
     \/ /\ At(w, "recover") /\ job[w].stale = {}
        /\ \E g \in Gens, fp \in Fingerprints : Claim(job[w].s, g, fp)
  /\ Goto(w, "refused")
  /\ UNCHANGED <<server, restarts>>

(* A slip: a status that SourceStatus does not have.                       *)
ReportRefusalUnknown(w) ==
  /\ At(w, "refused")
  /\ UpdateStatus(job[w].s, "refused")
  /\ job' = [job EXCEPT ![w].pc = "done", ![w].told = "error"]
  /\ UNCHANGED <<server, restarts>>

(* The error arm of claim_or_report: write Error, tell the user.           *)
ReportRefusal(w) ==
  /\ At(w, "refused")
  /\ \/ UpdateStatus(job[w].s, "error")
     \/ UNCHANGED vars
  /\ job' = [job EXCEPT ![w].pc = "done", ![w].told = "error"]
  /\ UNCHANGED <<server, restarts>>

(* Reprocessing records `pending' and only then owns a job to run.         *)
MarkPending(w) ==
  /\ At(w, "pending")
  /\ \/ /\ UpdateStatus(job[w].s, "busy")
        /\ job' = [job EXCEPT ![w].pc = "processing", ![w].since = now]
     \/ /\ UNCHANGED vars
        /\ Goto(w, "gone")
  /\ UNCHANGED <<server, restarts>>

(* The client went away or the request timed out: its future is dropped.   *)
CancelRequest(w) ==
  /\ job[w].pc \in Preparing
  /\ Goto(w, "gone")
  /\ UNCHANGED <<vars, server, restarts>>

-----------------------------------------------------------------------------
(* The build: run_build and build_chunks, one database call at a time.     *)

MarkProcessing(w) ==
  /\ At(w, "processing")
  /\ UpdateStatus(job[w].s, "busy")
  /\ Goto(w, "extracting")
  /\ UNCHANGED <<server, restarts>>

(* extract_content and chunk_and_enrich produced at least one chunk.       *)
Extract(w) ==
  /\ At(w, "extracting")
  /\ Goto(w, "planning")
  /\ UNCHANGED <<vars, server, restarts>>

(* The UPDATE's row count is not looked at.                                *)
RecordPlan(w) ==
  /\ At(w, "planning")
  /\ IF generations[job[w].g].state = "building"
     THEN RecordBuildPlan(job[w].g, Cardinality(Positions))
     ELSE UNCHANGED vars
  /\ Goto(w, "embedding")
  /\ UNCHANGED <<server, restarts>>

MarkEmbedding(w) ==
  /\ At(w, "embedding")
  /\ UpdateStatus(job[w].s, "busy")
  /\ Goto(w, "storing")
  /\ UNCHANGED <<server, restarts>>

(* One iteration of store_batches; batches arrive in any order.            *)
StoreBatch(w) ==
  /\ At(w, "storing")
  /\ \E p \in job[w].unstored :
       /\ StoreChunkBatch(job[w].g, job[w].s, {p})
       /\ job' = [job EXCEPT ![w].unstored = @ \ {p}]
  /\ UNCHANGED <<server, restarts>>

(* embed_and_store returned Ok: everything is stored, or the consumer saw  *)
(* the shutdown and threw the remaining batches away without an error.     *)
FinishStoring(w) ==
  /\ At(w, "storing")
  /\ job[w].unstored = {} \/ server = "draining"
  /\ Goto(w, "publishing")
  /\ UNCHANGED <<vars, server, restarts>>

(* Any stage's error, the deadline, or the shutdown signal.                *)
BuildFails(w) ==
  /\ job[w].pc \in BuildStages
  /\ Goto(w, "failing")
  /\ UNCHANGED <<vars, server, restarts>>

-----------------------------------------------------------------------------
(* publish_generation and fail_generation.                                 *)

(* Publication commits; the acknowledgement may still get lost.            *)
PublishBuild(w) ==
  /\ At(w, "publishing")
  /\ \E at \in 0 .. now : Publish(job[w].g, job[w].s, at)
  /\ \/ Goto(w, "announce")
     \/ Goto(w, "failing")
  /\ UNCHANGED <<server, restarts>>

(* A slip: a refused publication is not treated as a failure.              *)
PublishRefusedIgnored(w) ==
  /\ At(w, "publishing")
  /\ Goto(w, "announce")
  /\ UNCHANGED <<vars, server, restarts>>

(* The guard refused it, or the database did.                              *)
PublishRefused(w) ==
  /\ At(w, "publishing")
  /\ Goto(w, "failing")
  /\ UNCHANGED <<vars, server, restarts>>

AnnounceReady(w) ==
  /\ At(w, "announce")
  /\ job' = [job EXCEPT ![w].pc = "reclaim", ![w].told = "ready"]
  /\ UNCHANGED <<vars, server, restarts>>

(* Not fallible: an error is logged.                                       *)
ReclaimObsolete(w) ==
  /\ At(w, "reclaim")
  /\ \/ Reclaim(job[w].s)
     \/ UNCHANGED vars
  /\ Goto(w, "done")
  /\ UNCHANGED <<server, restarts>>

(* mark_failed, or an error of its own that is only logged.                *)
FailGeneration(w) ==
  /\ At(w, "failing")
  /\ \/ MarkFailed(job[w].g, job[w].s)
     \/ UNCHANGED vars
  /\ Goto(w, "failed")
  /\ UNCHANGED <<server, restarts>>

BroadcastError(w) ==
  /\ At(w, "failed")
  /\ job' = [job EXCEPT ![w].pc = "done", ![w].told = "error"]
  /\ UNCHANGED <<vars, server, restarts>>

-----------------------------------------------------------------------------
(* The process and its environment.                                        *)

(* A slip: the maintenance pass runs at start-up only.                     *)
MaintainAtStartOnly ==
  /\ server = "up" /\ now = 0
  /\ \E g \in StaleBuilds : FailIfBuilding(g)
  /\ UNCHANGED <<job, server, restarts>>

(* run_generation_maintenance, at start-up and every day; a pass under way *)
(* when the shutdown begins goes on.                                       *)
MaintainRecover ==
  /\ server # "down"
  /\ \E g \in StaleBuilds : FailIfBuilding(g)
  /\ UNCHANGED <<job, server, restarts>>

MaintainReclaim ==
  /\ server # "down"
  /\ \E s \in Sources : Reclaim(s)
  /\ UNCHANGED <<job, server, restarts>>

DeleteRequest ==
  /\ server # "down"
  /\ \E s \in Sources : DeleteSource(s)
  /\ UNCHANGED <<job, server, restarts>>

BeginShutdown ==
  /\ server = "up" /\ restarts < MaxRestarts
  /\ server' = "draining"
  /\ UNCHANGED <<vars, job, restarts>>

(* A crash, or the end of a shutdown: abort_remaining drops what is left.  *)
Exit ==
  /\ server # "down" /\ restarts < MaxRestarts
  /\ server' = "down"
  /\ restarts' = restarts + 1
  /\ job' = [w \in Workers |-> IF Active(w) THEN [job[w] EXCEPT !.pc = "gone"] ELSE job[w]]
  /\ UNCHANGED vars

Restart ==
  /\ server = "down"
  /\ server' = "up"
  /\ UNCHANGED <<vars, job, restarts>>

Pass ==
  /\ Tick
  /\ Punctual => \A w \in Workers : Timed(w) => now < Deadline(w)
  /\ UNCHANGED <<job, server, restarts>>

-----------------------------------------------------------------------------
ProcInit ==
  /\ Init
  /\ job = [w \in Workers |-> Waiting]
  /\ server = "up"
  /\ restarts = 0

WorkerStep(w) ==
  \/ CreateRow(w) \/ SelectStale(w) \/ RecoverStale(w)
  \/ ClaimWon(w) \/ ClaimCoalesced(w) \/ ClaimRefused(w) \/ ReportRefusal(w)
  \/ MarkPending(w)
  \/ MarkProcessing(w) \/ Extract(w) \/ RecordPlan(w) \/ MarkEmbedding(w)
  \/ StoreBatch(w) \/ FinishStoring(w) \/ BuildFails(w)
  \/ PublishBuild(w) \/ PublishRefused(w) \/ AnnounceReady(w) \/ ReclaimObsolete(w)
  \/ FailGeneration(w) \/ BroadcastError(w)

ProcNext ==
  \/ \E w \in Workers, s \in Sources : AdmitRequest(w, s)
  \/ \E w \in Workers : WorkerStep(w) \/ CancelRequest(w)
  \/ MaintainRecover \/ MaintainReclaim \/ DeleteRequest
  \/ BeginShutdown \/ Exit \/ Restart
  \/ Pass

ProcSpec == ProcInit /\ [][ProcNext]_procVars

(* The runtime polls every ready task, the maintenance loop keeps coming   *)
(* back, a shutdown ends within its deadline and the operator restarts.    *)
TaskFairness ==
  /\ \A w \in Workers : WF_procVars(WorkerStep(w))
  /\ WF_procVars(MaintainRecover)
  /\ WF_procVars(server = "draining" /\ Exit)
  /\ WF_procVars(Restart)

FairProcSpec == ProcSpec /\ TaskFairness /\ WF_procVars(Pass)

-----------------------------------------------------------------------------
(* Properties. *)

ProcTypeOK ==
  /\ TypeOK
  /\ job \in [Workers -> Job]
  /\ server \in {"up", "draining", "down"}
  /\ restarts \in 0 .. MaxRestarts

(* Recovery leaves a build inside its deadline alone: until its timer      *)
(* fires, a worker's generation is building, unless the source is deleted. *)
(* This, and no generation id, is what keeps the status writes of the      *)
(* build stages from reaching a source that somebody else rebuilds.        *)
TimedBuildKeepsOwnership ==
  \A w \in Workers :
    Timed(w) /\ job[w].g # Null
      => /\ generations[job[w].g].source_id = job[w].s
         /\ generations[job[w].g].state \in {"building", "deleted"}

(* A source nobody builds is never left showing work in progress, however  *)
(* its last build ended, except one whose first build was never claimed.   *)
IdleMeansSettled ==
  \A s \in Sources :
    Live(s) /\ Building(s) = {} /\ sources[s].status = "busy"
      => \A g \in Gens : generations[g].source_id # s

(* Readers are told a source is ready only once its build is published     *)
(* whole, whatever shutdown discarded or recovery failed in the meantime.  *)
ReadyIsPublished ==
  \A w \in Workers :
    job[w].told = "ready" => generations[job[w].g].state \in {"published", "deleted"}

(* A source's status tells the truth about its builds.                     *)
StatusTellsTruth == IdleMeansSettled /\ ReadyIsPublished

(* Every claimed build ends, also when its request was cancelled, its      *)
(* worker crashed or its failure could not be recorded.                    *)
EveryBuildEnds ==
  \A g \in Gens :
    generations[g].state = "building" ~> generations[g].state # "building"
=============================================================================
