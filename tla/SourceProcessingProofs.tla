----------------------- MODULE SourceProcessingProofs -----------------------
(***************************************************************************)
(* Proofs about SourceProcessing, for any number of sources, generations,  *)
(* requests and restarts and any timeouts in the documented proportion:    *)
(* the callers only ever make calls of the store, so its guarantees hold   *)
(* under them, and timers that fire on time keep a build in its owner's    *)
(* hands.  And about PdfExtraction, for any uploads and documents: the     *)
(* pages a build ends with are those of its document.                      *)
(***************************************************************************)
EXTENDS SourceProcessing, PdfExtraction, IndexGenerationsProofs, PlacesProofs

(* What holds of one request or task between its steps.  The last two      *)
(* conjuncts are the arithmetic of the timers: a claim is no older than    *)
(* the request, and a build starts within the request's timeout of it.     *)
JobOK(w) ==
  /\ job[w].pc # "idle" => job[w].s \in Sources
  /\ job[w].pc \in {"pending"} \cup BuildStages \cup Reporting => job[w].g \in Gens
  /\ job[w].g # Null => generations[job[w].g].state # "absent"
  /\ \A h \in job[w].stale :
       /\ generations[h].state # "absent"
       /\ generations[h].state = "building" => OlderThan(h, StaleAfter)
  /\ Timed(w) => job[w].since <= now

TimersOK(w) ==
  /\ Timed(w) => now <= Deadline(w)
  /\ Timed(w) /\ job[w].g # Null =>
       /\ generations[job[w].g].source_id = job[w].s
       /\ generations[job[w].g].state \in {"building", "deleted"}
       /\ generations[job[w].g].state = "building" =>
            IF job[w].pc \in Preparing
            THEN job[w].since <= generations[job[w].g].created_at
            ELSE job[w].since <= generations[job[w].g].created_at + RequestTimeout

OneJob ==
  \A v, w \in Workers : job[v].g = job[w].g /\ job[v].g # Null => v = w

CallInv ==
  /\ ProcTypeOK
  /\ now <= MaxTime
  /\ \A w \in Workers : JobOK(w)

-----------------------------------------------------------------------------
(* The store: what any call may do to a generation's row.                  *)

GensMove ==
  \A g \in Gens :
    /\ generations[g].state # "absent" =>
         /\ generations'[g].state # "absent"
         /\ generations'[g].source_id = generations[g].source_id
    /\ generations[g].state \notin {"absent", "building"}
         => generations'[g].state # "building"
    /\ generations[g].state = "building" /\ generations'[g].state = "building"
         => generations'[g].created_at = generations[g].created_at
    /\ generations[g].state = "deleted" => generations'[g].state = "deleted"

(* A row is born building, changes hands never, and does not come back.    *)
LEMMA StoreMoves ==
  ASSUME TypeOK, [Next]_vars
  PROVE  GensMove
<1> USE DEF GensMove, TypeOK, GenerationRow
<1>1. CASE UNCHANGED generations
  BY <1>1
<1>2. ASSUME NEW s \in Sources, NEW g \in Gens, NEW fp \in Fingerprints, Claim(s, g, fp)
      PROVE  GensMove
  BY <1>2 DEF Claim
<1>3. ASSUME NEW g \in Gens, NEW n \in 0 .. Cardinality(Positions), RecordBuildPlan(g, n)
      PROVE  GensMove
  BY <1>3 DEF RecordBuildPlan
<1>4. ASSUME NEW g \in Gens, NEW s \in Sources, NEW at \in 0 .. MaxTime, Publish(g, s, at)
      PROVE  GensMove
  <2>1. generations[g].state = "building"
    BY <1>4 DEF Publish, Publishable
  <2> QED BY <1>4, <2>1 DEF Publish
<1>5. ASSUME NEW g \in Gens, NEW s \in Sources, MarkFailed(g, s) PROVE GensMove
  BY <1>5 DEF MarkFailed
<1>6. ASSUME NEW g \in Gens, FailStaleBuild(g) PROVE GensMove
  BY <1>6 DEF FailStaleBuild
<1>7. ASSUME NEW D \in SUBSET {g \in Gens : Exists(g)}, Drop(D) PROVE GensMove
  BY <1>7 DEF Drop, NewGeneration, Exists
<1>8. ASSUME NEW s \in Sources, Reclaim(s) PROVE GensMove
  <2>1. \A at : Reclaimable(s, at) \in SUBSET {g \in Gens : Exists(g)}
    BY DEF Reclaimable, Owned
  <2> QED BY <1>7, <1>8, <2>1 DEF Reclaim
<1>9. ASSUME NEW s \in Sources, DeleteSource(s) PROVE GensMove
  <2>1. {g \in Gens : Owned(g, s)} \in SUBSET {g \in Gens : Exists(g)}
    BY DEF Owned
  <2> QED BY <1>7, <1>9, <2>1 DEF DeleteSource
<1> QED
  BY <1>1, <1>2, <1>3, <1>4, <1>5, <1>6, <1>8, <1>9
     DEF Next, vars, Tick, CreateSource, StoreChunkBatch, RollbackToPrevious, UpdateStatus

-----------------------------------------------------------------------------
(* The callers: every step is one call of the store or leaves it alone.    *)

(* Recovery fails only builds that were stale when it selected them.       *)
LEMMA RecoveryIsCall ==
  ASSUME NEW g \in Gens, FailIfBuilding(g),
         generations[g].state = "building" => OlderThan(g, StaleAfter)
  PROVE  [Next]_vars
BY DEF FailIfBuilding, FailStaleBuild, Next, vars

LEMMA StepIsCall ==
  ASSUME CallInv, [ProcNext]_procVars
  PROVE  [Next]_vars
<1> USE DEF CallInv, ProcTypeOK, JobOK, At
<1>1. CASE UNCHANGED vars
  BY <1>1
<1>2. ASSUME NEW w \in Workers, CreateRow(w) PROVE [Next]_vars
  BY <1>2 DEF CreateRow, Next
<1>3. ASSUME NEW w \in Workers, RecoverStale(w) PROVE [Next]_vars
  <2>1. PICK g \in job[w].stale : FailIfBuilding(g)
    BY <1>3 DEF RecoverStale
  <2>2. g \in Gens
    BY DEF Job
  <2> QED BY <2>1, <2>2, RecoveryIsCall
<1>4. ASSUME NEW w \in Workers, ClaimWon(w) \/ ClaimRefused(w) PROVE [Next]_vars
  BY <1>4 DEF ClaimWon, ClaimRefused, Next
<1>5. ASSUME NEW w \in Workers, ReportRefusal(w) \/ MarkPending(w) \/ MarkProcessing(w) \/ MarkEmbedding(w)
      PROVE  [Next]_vars
  <2>1. job[w].s \in Sources
    BY <1>5 DEF ReportRefusal, MarkPending, MarkProcessing, MarkEmbedding
  <2>2. UNCHANGED vars \/ \E st \in WrittenStatuses : UpdateStatus(job[w].s, st)
    BY <1>5 DEF ReportRefusal, MarkPending, MarkProcessing, MarkEmbedding, WrittenStatuses
  <2> QED BY <2>1, <2>2 DEF Next
<1>6. ASSUME NEW w \in Workers, RecordPlan(w) PROVE [Next]_vars
  <2>1. job[w].g \in Gens
    BY <1>6 DEF RecordPlan, BuildStages
  <2>2. Cardinality(Positions) \in 0 .. Cardinality(Positions)
    BY ChunkCount
  <2> QED BY <1>6, <2>1, <2>2 DEF RecordPlan, Next
<1>7. ASSUME NEW w \in Workers, StoreBatch(w) PROVE [Next]_vars
  <2>1. job[w].g \in Gens /\ job[w].s \in Sources
    BY <1>7 DEF StoreBatch, BuildStages
  <2>2. PICK p \in job[w].unstored : StoreChunkBatch(job[w].g, job[w].s, {p})
    BY <1>7 DEF StoreBatch
  <2>3. {p} \in (SUBSET Positions) \ {{}}
    BY DEF Job
  <2> QED BY <2>1, <2>2, <2>3 DEF Next
<1>8. ASSUME NEW w \in Workers, PublishBuild(w) PROVE [Next]_vars
  <2>1. job[w].g \in Gens /\ job[w].s \in Sources
    BY <1>8 DEF PublishBuild, Reporting
  <2>2. PICK at \in 0 .. now : Publish(job[w].g, job[w].s, at)
    BY <1>8 DEF PublishBuild
  <2>3. at \in 0 .. MaxTime
    <3>1. now \in Nat /\ now <= MaxTime /\ MaxTime \in Nat
      BY TimeAssumption DEF TypeOK
    <3> QED BY <3>1
  <2> QED BY <2>1, <2>2, <2>3 DEF Next
<1>9. ASSUME NEW w \in Workers, ReclaimObsolete(w) \/ FailGeneration(w) PROVE [Next]_vars
  <2>1. job[w].g \in Gens /\ job[w].s \in Sources
    BY <1>9 DEF ReclaimObsolete, FailGeneration, Reporting
  <2> QED BY <1>9, <2>1 DEF ReclaimObsolete, FailGeneration, Next
<1>10. CASE MaintainRecover
  <2>1. PICK g \in StaleBuilds : FailIfBuilding(g)
    BY <1>10 DEF MaintainRecover
  <2>2. g \in Gens /\ OlderThan(g, StaleAfter)
    BY DEF StaleBuilds
  <2> QED BY <2>1, <2>2, RecoveryIsCall
<1>11. CASE MaintainReclaim \/ DeleteRequest \/ Pass
  BY <1>11 DEF MaintainReclaim, DeleteRequest, Pass, Next
<1>12. ASSUME NEW w \in Workers,
              SelectStale(w) \/ ClaimCoalesced(w) \/ Extract(w) \/ FinishStoring(w) \/ BuildFails(w)
                \/ PublishRefused(w) \/ AnnounceReady(w) \/ BroadcastError(w) \/ CancelRequest(w)
       PROVE  UNCHANGED vars
  BY <1>12 DEF SelectStale, ClaimCoalesced, Extract, FinishStoring, BuildFails,
               PublishRefused, AnnounceReady, BroadcastError, CancelRequest
<1>13. ASSUME NEW w \in Workers, NEW s \in Sources, AdmitRequest(w, s) PROVE UNCHANGED vars
  BY <1>13 DEF AdmitRequest
<1>14. CASE BeginShutdown \/ Exit \/ Restart
  BY <1>14 DEF BeginShutdown, Exit, Restart
<1>15. CASE UNCHANGED procVars
  BY <1>15 DEF procVars
<1>16. ASSUME NEW w \in Workers, WorkerStep(w) PROVE [Next]_vars
  BY <1>16, <1>2, <1>3, <1>4, <1>5, <1>6, <1>7, <1>8, <1>9, <1>12 DEF WorkerStep
<1> QED
  BY <1>10, <1>11, <1>12, <1>13, <1>14, <1>15, <1>16 DEF ProcNext

-----------------------------------------------------------------------------
(* The invariant of the callers.                                           *)

LEMMA CallInitially == ProcInit => CallInv
<1> SUFFICES ASSUME ProcInit PROVE CallInv
  OBVIOUS
<1>1. TypeOK
  BY TypingInit DEF ProcInit
<1>2. Waiting \in Job
  BY DEF Waiting, Job
<1>3. job \in [Workers -> Job] /\ server = "up" /\ restarts \in 0 .. MaxRestarts
  BY <1>2, TimeoutsAssumption DEF ProcInit
<1>4. now <= MaxTime
  BY TimeAssumption DEF ProcInit, Init
<1>5. ASSUME NEW w \in Workers PROVE JobOK(w)
  BY DEF ProcInit, Waiting, JobOK, Timed, Preparing, BuildStages, Reporting
<1> QED BY <1>1, <1>3, <1>4, <1>5 DEF CallInv, ProcTypeOK

(* A job the step does not touch stays in order whatever the store does.   *)
LEMMA OthersStayOK ==
  ASSUME CallInv, TypeOK', GensMove, now <= now', NEW w \in Workers, job'[w] = job[w]
  PROVE  JobOK(w)'
<1>1. ASSUME NEW h \in Gens, generations[h].state # "absent",
             generations[h].state = "building" => OlderThan(h, StaleAfter)
      PROVE  /\ generations'[h].state # "absent"
             /\ generations'[h].state = "building" => OlderThan(h, StaleAfter)'
  BY <1>1, TimeAssumption DEF GensMove, OlderThan, CallInv, ProcTypeOK, TypeOK, GenerationRow
<1>2. job[w] \in Job /\ now \in Nat /\ now' \in Nat
  BY DEF CallInv, ProcTypeOK, TypeOK
<1>3. job[w].stale \subseteq Gens /\ job[w].g \in Gens \cup {Null} /\ job[w].since \in Nat
  BY <1>2 DEF Job
<1> QED BY <1>1, <1>2, <1>3 DEF JobOK, CallInv, GensMove, Timed

(* A job that only moves on keeps what it holds.                           *)
LEMMA MovesOnOK ==
  ASSUME CallInv, TypeOK', GensMove, now' = now, NEW w \in Workers,
         job'[w].s = job[w].s, job'[w].g = job[w].g, job'[w].stale \subseteq job[w].stale,
         job'[w].since = job[w].since \/ job'[w].since = now,
         job[w].pc # "idle",
         Timed(w)' => Timed(w) \/ job'[w].since = now,
         job'[w].pc \in {"pending"} \cup BuildStages \cup Reporting
           => job[w].pc \in {"pending"} \cup BuildStages \cup Reporting
  PROVE  JobOK(w)'
<1>1. ASSUME NEW h \in Gens, generations[h].state # "absent",
             generations[h].state = "building" => OlderThan(h, StaleAfter)
      PROVE  /\ generations'[h].state # "absent"
             /\ generations'[h].state = "building" => OlderThan(h, StaleAfter)'
  BY <1>1, TimeAssumption DEF GensMove, OlderThan, CallInv, ProcTypeOK, TypeOK, GenerationRow
<1>2. job[w] \in Job /\ now \in Nat
  BY DEF CallInv, ProcTypeOK, TypeOK
<1>3. job[w].stale \subseteq Gens /\ job[w].g \in Gens \cup {Null} /\ job[w].since \in Nat
  BY <1>2 DEF Job
<1> QED BY <1>1, <1>2, <1>3 DEF JobOK, CallInv, GensMove

(* The acting worker's job after a step that changes no more than that.    *)
LEMMA WorkerMovesOn ==
  ASSUME CallInv, TypeOK', GensMove, NEW w \in Workers,
         \/ CreateRow(w) \/ RecoverStale(w) \/ ClaimCoalesced(w) \/ ClaimRefused(w)
         \/ ReportRefusal(w) \/ MarkPending(w) \/ MarkProcessing(w) \/ Extract(w)
         \/ RecordPlan(w) \/ MarkEmbedding(w) \/ StoreBatch(w) \/ FinishStoring(w)
         \/ BuildFails(w) \/ PublishBuild(w) \/ PublishRefused(w) \/ AnnounceReady(w)
         \/ ReclaimObsolete(w) \/ FailGeneration(w) \/ BroadcastError(w) \/ CancelRequest(w)
  PROVE  JobOK(w)' /\ job' \in [Workers -> Job] /\ UNCHANGED <<now, server, restarts>>
         /\ \A v \in Workers \ {w} : job'[v] = job[v]
<1> USE DEF At, Goto, Preparing, BuildStages, Reporting
<1>1. UNCHANGED <<now, server, restarts>>
  BY DEF CreateRow, RecoverStale, ClaimCoalesced, ClaimRefused, ReportRefusal, MarkPending,
         MarkProcessing, Extract, RecordPlan, MarkEmbedding, StoreBatch, FinishStoring,
         BuildFails, PublishBuild, PublishRefused, AnnounceReady, ReclaimObsolete,
         FailGeneration, BroadcastError, CancelRequest, CreateSource, FailIfBuilding, Claim,
         UpdateStatus, RecordBuildPlan, StoreChunkBatch, Publish, Reclaim, MarkFailed, vars
<1>2. job \in [Workers -> Job] /\ now \in Nat
  BY DEF CallInv, ProcTypeOK, TypeOK
<1>3. \/ \E pc \in {"select", "done", "refused", "gone", "extracting", "planning", "embedding",
                    "storing", "publishing", "failing", "announce", "failed"} :
           /\ job' = [job EXCEPT ![w].pc = pc]
           /\ pc \in Reporting \cup BuildStages => job[w].pc \in BuildStages \cup Reporting
           /\ pc \in Preparing => job[w].pc \in Preparing
           /\ pc \in BuildStages => job[w].pc \in BuildStages
           /\ job[w].pc # "idle"
      \/ \E h \in job[w].stale : job[w].pc = "recover" /\ job' = [job EXCEPT ![w].stale = @ \ {h}]
      \/ \E p \in job[w].unstored : job[w].pc = "storing" /\ job' = [job EXCEPT ![w].unstored = @ \ {p}]
      \/ \E told \in {"ready", "error"}, pc \in {"reclaim", "done"} :
           /\ job' = [job EXCEPT ![w].pc = pc, ![w].told = told]
           /\ pc = "reclaim" => job[w].pc = "announce"
           /\ job[w].pc # "idle"
      \/ /\ job' = [job EXCEPT ![w].pc = "processing", ![w].since = now]
         /\ job[w].pc = "pending"
  BY DEF CreateRow, RecoverStale, ClaimCoalesced, ClaimRefused, ReportRefusal, MarkPending,
         MarkProcessing, Extract, RecordPlan, MarkEmbedding, StoreBatch, FinishStoring,
         BuildFails, PublishBuild, PublishRefused, AnnounceReady, ReclaimObsolete,
         FailGeneration, BroadcastError, CancelRequest
<1>4. job' \in [Workers -> Job] /\ \A v \in Workers \ {w} : job'[v] = job[v]
  BY <1>2, <1>3 DEF Job
<1>5. JobOK(w)'
  BY <1>1, <1>2, <1>3, MovesOnOK DEF Job, Timed
<1> QED BY <1>1, <1>4, <1>5

LEMMA CallInvStep ==
  ASSUME CallInv, [ProcNext]_procVars
  PROVE  CallInv'
<1> DEFINE JobsKept == \A w \in Workers : JobOK(w)'
           TypesKept == /\ job' \in [Workers -> Job]
                        /\ server' \in {"up", "draining", "down"} /\ restarts' \in 0 .. MaxRestarts
<1>1. [Next]_vars
  BY StepIsCall
<1>2. TypeOK' /\ GensMove
  BY <1>1, TypingStep, StoreMoves DEF CallInv, ProcTypeOK
<1>3. now \in Nat /\ now <= now' /\ now' <= MaxTime
  <2>1. now' = now \/ (now < MaxTime /\ now' = now + 1)
    BY <1>1 DEF Next, vars, Tick, CreateSource, Claim, RecordBuildPlan, StoreChunkBatch, Publish,
                MarkFailed, FailStaleBuild, RollbackToPrevious, Reclaim, DeleteSource, UpdateStatus
  <2> QED BY <2>1, TimeAssumption DEF CallInv, ProcTypeOK, TypeOK
<1>4. /\ job \in [Workers -> Job]
      /\ server \in {"up", "draining", "down"} /\ restarts \in 0 .. MaxRestarts
  BY DEF CallInv, ProcTypeOK
<1>5. ASSUME NEW w \in Workers, \A v \in Workers \ {w} : job'[v] = job[v], JobOK(w)'
      PROVE  JobsKept
  BY <1>2, <1>3, <1>5, OthersStayOK
<1>6. ASSUME NEW w \in Workers, NEW s \in Sources, AdmitRequest(w, s)
      PROVE  JobsKept /\ TypesKept
  <2> DEFINE new == [Waiting EXCEPT !.s = s, !.since = now,
                                    !.create = (sources[s].row = "absent"),
                                    !.pc = IF Live(s) THEN "select" ELSE "create"]
  <2>1. new \in Job
    BY <1>3 DEF Waiting, Job, Preparing
  <2>2. new.g = Null /\ new.stale = {} /\ new.since = now /\ new.s = s
        /\ new.pc \in {"select", "create"}
    BY DEF Waiting
  <2>3. job' = [job EXCEPT ![w] = new] /\ UNCHANGED <<now, generations, server, restarts>>
    BY <1>6 DEF AdmitRequest, vars
  <2>4. JobOK(w)'
    BY <1>3, <1>4, <2>2, <2>3 DEF JobOK, Timed, Preparing, BuildStages, Reporting
  <2> QED BY <1>4, <1>5, <2>1, <2>3, <2>4
<1>7. ASSUME NEW w \in Workers, SelectStale(w) PROVE JobsKept /\ TypesKept
  <2>1. job' = [job EXCEPT ![w].pc = "recover", ![w].stale = StaleBuilds] /\ job[w].pc = "select"
        /\ UNCHANGED <<now, generations, server, restarts>>
    BY <1>7 DEF SelectStale, At, vars
  <2>2. StaleBuilds \subseteq Gens
        /\ \A h \in StaleBuilds : generations[h].state = "building" /\ OlderThan(h, StaleAfter)
    BY DEF StaleBuilds
  <2>3. job' \in [Workers -> Job]
    <3> DEFINE new == [job[w] EXCEPT !.pc = "recover", !.stale = StaleBuilds]
    <3>1. new \in Job
      BY <1>4, <2>2 DEF Job, Preparing
    <3>2. job' = [job EXCEPT ![w] = new]
      BY <1>4, <2>1 DEF Job
    <3> QED BY <1>4, <3>1, <3>2
  <2>4. JobOK(w)'
    BY <1>4, <2>1, <2>2 DEF CallInv, JobOK, OlderThan, Timed, Job, Preparing, BuildStages, Reporting
  <2> QED BY <1>4, <1>5, <2>1, <2>3, <2>4
<1>8. ASSUME NEW w \in Workers, ClaimWon(w) PROVE JobsKept /\ TypesKept
  <2>1. PICK g \in Gens, fp \in Fingerprints :
          /\ Claim(job[w].s, g, fp)
          /\ job' = [job EXCEPT ![w].g = g, ![w].unstored = Positions,
                                ![w].pc = IF job[w].create THEN "processing" ELSE "pending",
                                ![w].since = IF job[w].create THEN now ELSE @]
    BY <1>8 DEF ClaimWon
  <2>2. job[w].pc = "recover" /\ job[w].stale = {} /\ UNCHANGED <<now, server, restarts>>
    BY <1>8, <2>1 DEF ClaimWon, At, Claim
  <2>3. job' \in [Workers -> Job]
    <3> DEFINE new == [job[w] EXCEPT !.g = g, !.unstored = Positions,
                                     !.pc = IF job[w].create THEN "processing" ELSE "pending",
                                     !.since = IF job[w].create THEN now ELSE @]
    <3>1. new \in Job
      BY <1>3, <1>4, ZenonT(40) DEF Job, Preparing, BuildStages
    <3>2. job' = [job EXCEPT ![w] = new]
      BY <1>4, <2>1 DEF Job
    <3> QED BY <1>4, <3>1, <3>2
  <2>4. generations'[g].state = "building"
    BY <2>1 DEF Claim, NewGeneration, CallInv, ProcTypeOK, TypeOK
  <2>5. JobOK(w)'
    BY <1>3, <1>4, <2>1, <2>2, <2>4
       DEF CallInv, JobOK, Timed, Job, Preparing, BuildStages, Reporting
  <2> QED BY <1>4, <1>5, <2>1, <2>2, <2>3, <2>5
<1>9. ASSUME NEW w \in Workers, WorkerStep(w) \/ CancelRequest(w) PROVE JobsKept /\ TypesKept
  <2>1. CASE SelectStale(w) \/ ClaimWon(w)
    BY <2>1, <1>7, <1>8
  <2>2. CASE ~(SelectStale(w) \/ ClaimWon(w))
    BY <1>2, <1>4, <1>5, <1>9, <2>2, WorkerMovesOn DEF WorkerStep
  <2> QED BY <2>1, <2>2
<1>10. ASSUME \/ MaintainRecover \/ MaintainReclaim \/ DeleteRequest
              \/ BeginShutdown \/ Restart \/ Pass \/ UNCHANGED procVars
       PROVE  JobsKept /\ TypesKept
  <2>1. job' = job /\ TypesKept
    BY <1>4, <1>10 DEF MaintainRecover, MaintainReclaim, DeleteRequest, BeginShutdown, Restart, Pass,
                       procVars
  <2> QED BY <1>2, <1>3, <2>1, OthersStayOK
<1>11. ASSUME Exit PROVE JobsKept /\ TypesKept
  <2>1. job' = [w \in Workers |-> IF Active(w) THEN [job[w] EXCEPT !.pc = "gone"] ELSE job[w]]
        /\ now' = now /\ server' = "down" /\ restarts' = restarts + 1 /\ restarts < MaxRestarts
    BY <1>11 DEF Exit, vars
  <2>2. TypesKept
    <3>1. ASSUME NEW w \in Workers PROVE [job[w] EXCEPT !.pc = "gone"] \in Job
      BY <1>4 DEF Job
    <3> QED BY <1>4, <2>1, <3>1, TimeoutsAssumption
  <2>3. ASSUME NEW w \in Workers, Active(w) PROVE JobOK(w)'
    BY <1>2, <1>4, <2>1, <2>3, MovesOnOK
       DEF Active, Timed, Job, Preparing, BuildStages, Reporting
  <2>4. ASSUME NEW w \in Workers, ~Active(w) PROVE JobOK(w)'
    BY <1>2, <1>3, <2>1, <2>4, OthersStayOK
  <2> QED BY <2>2, <2>3, <2>4
<1>12. JobsKept /\ TypesKept
  BY <1>6, <1>9, <1>10, <1>11 DEF ProcNext
<1> QED BY <1>2, <1>3, <1>12 DEF CallInv, ProcTypeOK

(* The API, the tasks and the maintenance loop only make the calls the     *)
(* store was checked for, so whatever is proved of the store holds here.   *)
THEOREM ProcessingMakesCalls == ProcSpec => Spec
<1>1. ProcInit => Init
  BY DEF ProcInit
<1> QED BY <1>1, CallInitially, CallInvStep, StepIsCall, PTL DEF ProcSpec, Spec

(* Types of the jobs as well as of the tables.                             *)
THEOREM ProcessingTyping == ProcSpec => []ProcTypeOK
<1>1. CallInv => ProcTypeOK
  BY DEF CallInv
<1> QED BY <1>1, CallInitially, CallInvStep, PTL DEF ProcSpec

(* Search reads a whole index whatever the callers do: discarded batches,  *)
(* lost acknowledgements, crashes and recoveries included.                 *)
THEOREM ProcessingKeepsIndexWhole == ProcSpec => []ActiveIndexComplete
BY ProcessingMakesCalls, ActiveIndexIsComplete

-----------------------------------------------------------------------------
(* Ownership, when timers fire on time.                                    *)

TimedInv == CallInv /\ OneJob /\ \A w \in Workers : TimersOK(w)

(* The row of the build a job owns while its timer runs.                   *)
Held(w) == Timed(w) /\ job[w].g # Null

LEMMA HeldRow ==
  ASSUME TimedInv, NEW w \in Workers, Held(w)
  PROVE  /\ job[w].g \in Gens
         /\ generations[job[w].g].created_at \in Nat
         /\ generations[job[w].g].state # "absent"
BY DEF TimedInv, CallInv, ProcTypeOK, TypeOK, GenerationRow, Job, Held, JobOK

(* A build inside its timer is at most one request's and one build's       *)
(* timeout old, which is no more than twice the longer.                    *)
LEMMA HeldIsNotStale ==
  ASSUME TimedInv, NEW w \in Workers, Held(w), generations[job[w].g].state = "building"
  PROVE  ~OlderThan(job[w].g, StaleAfter)
<1> DEFINE c == generations[job[w].g].created_at
           t == job[w].since
<1>1. c \in Nat /\ t \in Nat /\ now \in Nat
  BY HeldRow DEF TimedInv, CallInv, ProcTypeOK, TypeOK, Job
<1>2. t <= c + RequestTimeout
  BY <1>1, TimeoutsAssumption DEF TimedInv, TimersOK, Held
<1>3. now <= t + ProcessingTimeout
  BY <1>1, TimeoutsAssumption DEF TimedInv, TimersOK, Held, Deadline
<1>4. now <= c + StaleAfter
  BY <1>1, <1>2, <1>3, TimeoutsAssumption
<1> QED BY <1>1, <1>4, TimeAssumption DEF OlderThan

(* Nobody but its owner, or the deletion of its source, ends such a build. *)
LEMMA HeldStaysBuilding ==
  ASSUME TimedInv, [ProcNext]_procVars, NEW v \in Workers, Held(v),
         generations[job[v].g].state = "building"
  PROVE  generations'[job[v].g].state \in {"building", "deleted"}
<1> DEFINE g == job[v].g
<1>1. g \in Gens /\ generations \in [Gens -> GenerationRow]
  BY HeldRow DEF TimedInv, CallInv, ProcTypeOK, TypeOK
<1>2. CASE UNCHANGED generations
  BY <1>2
<1>3. ASSUME NEW h \in Gens, FailIfBuilding(h), OlderThan(h, StaleAfter) \/ generations[h].state # "building"
      PROVE  generations'[g].state \in {"building", "deleted"}
  <2>1. h # g
    BY <1>3, HeldIsNotStale
  <2> QED BY <1>1, <1>3, <2>1 DEF FailIfBuilding, vars
<1>4. ASSUME NEW w \in Workers, RecoverStale(w)
      PROVE  generations'[g].state \in {"building", "deleted"}
  <2>1. PICK h \in job[w].stale : FailIfBuilding(h)
    BY <1>4 DEF RecoverStale
  <2>2. h \in Gens /\ (generations[h].state = "building" => OlderThan(h, StaleAfter))
    BY DEF TimedInv, CallInv, ProcTypeOK, JobOK, Job
  <2> QED BY <1>3, <2>1, <2>2
<1>5. CASE MaintainRecover
  <2>1. PICK h \in StaleBuilds : FailIfBuilding(h)
    BY <1>5 DEF MaintainRecover
  <2> QED BY <1>3, <2>1 DEF StaleBuilds
<1>6. ASSUME NEW w \in Workers, ClaimWon(w) \/ ClaimRefused(w)
      PROVE  generations'[g].state \in {"building", "deleted"}
  <2>1. UNCHANGED generations \/ \E h \in Gens, fp \in Fingerprints : Claim(job[w].s, h, fp)
    BY <1>6 DEF ClaimWon, ClaimRefused, vars
  <2> QED BY <1>1, <1>2, <2>1 DEF Claim
<1>7. ASSUME NEW w \in Workers, RecordPlan(w)
      PROVE  generations'[g].state \in {"building", "deleted"}
  BY <1>1, <1>7 DEF RecordPlan, RecordBuildPlan, vars, GenerationRow
<1>8. ASSUME NEW w \in Workers, PublishBuild(w) \/ FailGeneration(w)
      PROVE  generations'[g].state \in {"building", "deleted"}
  <2>1. job[w].g \in Gens /\ ~Timed(w)
    BY <1>8 DEF PublishBuild, FailGeneration, At, TimedInv, CallInv, JobOK, Timed,
                Preparing, BuildStages, Reporting
  <2>2. job[w].g # g
    BY <2>1, NullAssumption DEF TimedInv, OneJob, Held
  <2>3. generations'[g] = generations[g]
    BY <1>1, <1>8, <2>1, <2>2 DEF PublishBuild, FailGeneration, Publish, MarkFailed, vars
  <2> QED BY <2>3
<1>9. ASSUME NEW D, Drop(D) PROVE generations'[g].state \in {"building", "deleted"}
  BY <1>1, <1>9 DEF Drop, NewGeneration
<1>10. ASSUME NEW w \in Workers, ReclaimObsolete(w)
       PROVE  generations'[g].state \in {"building", "deleted"}
  BY <1>2, <1>9, <1>10 DEF ReclaimObsolete, Reclaim, vars
<1>11. CASE MaintainReclaim \/ DeleteRequest
  BY <1>9, <1>11 DEF MaintainReclaim, DeleteRequest, Reclaim, DeleteSource
<1>12. ASSUME NEW w \in Workers, WorkerStep(w) \/ CancelRequest(w)
       PROVE  generations'[g].state \in {"building", "deleted"}
  <2>1. CASE \/ CreateRow(w) \/ SelectStale(w) \/ ClaimCoalesced(w) \/ ReportRefusal(w)
             \/ MarkPending(w) \/ MarkProcessing(w) \/ Extract(w) \/ MarkEmbedding(w)
             \/ StoreBatch(w) \/ FinishStoring(w) \/ BuildFails(w) \/ PublishRefused(w)
             \/ AnnounceReady(w) \/ BroadcastError(w) \/ CancelRequest(w)
    <3>1. UNCHANGED generations
      BY <2>1 DEF CreateRow, SelectStale, ClaimCoalesced, ReportRefusal, MarkPending, MarkProcessing,
                  Extract, MarkEmbedding, StoreBatch, FinishStoring, BuildFails, PublishRefused,
                  AnnounceReady, BroadcastError, CancelRequest, CreateSource, UpdateStatus,
                  StoreChunkBatch, vars
    <3> QED BY <1>2, <3>1
  <2> QED BY <1>4, <1>6, <1>7, <1>8, <1>10, <1>12, <2>1 DEF WorkerStep
<1>13. ASSUME \/ \E w \in Workers, s \in Sources : AdmitRequest(w, s)
              \/ BeginShutdown \/ Exit \/ Restart \/ Pass \/ UNCHANGED procVars
       PROVE  UNCHANGED generations
  BY <1>13 DEF AdmitRequest, BeginShutdown, Exit, Restart, Pass, Tick, procVars, vars
<1> QED
  BY <1>2, <1>5, <1>11, <1>12, <1>13 DEF ProcNext

(* A job that keeps its timer keeps what the timer guarantees.             *)
LEMMA TimerKept ==
  ASSUME TimedInv, [ProcNext]_procVars, GensMove, now' = now, NEW w \in Workers,
         job'[w].g = job[w].g, job'[w].s = job[w].s, job'[w].since = job[w].since,
         Timed(w)' => Timed(w) /\ (job'[w].pc \in Preparing <=> job[w].pc \in Preparing)
  PROVE  TimersOK(w)'
<1> SUFFICES ASSUME Timed(w)' PROVE TimersOK(w)'
  BY DEF TimersOK
<1>1. Timed(w) /\ TimersOK(w)
  BY DEF TimedInv
<1>2. now' <= Deadline(w)'
  BY <1>1 DEF TimersOK, Deadline
<1>3. ASSUME job[w].g # Null
      PROVE  /\ generations'[job[w].g].source_id = job[w].s
             /\ generations'[job[w].g].state \in {"building", "deleted"}
             /\ generations'[job[w].g].state = "building" =>
                  /\ generations[job[w].g].state = "building"
                  /\ generations'[job[w].g].created_at = generations[job[w].g].created_at
  <2>1. Held(w)
    BY <1>1, <1>3 DEF Held
  <2>2. job[w].g \in Gens /\ generations[job[w].g].state \in {"building", "deleted"}
        /\ generations[job[w].g].source_id = job[w].s
    BY <1>1, <1>3, <2>1, HeldRow DEF TimersOK
  <2>3. generations'[job[w].g].state \in {"building", "deleted"}
    BY <2>1, <2>2, HeldStaysBuilding DEF GensMove
  <2> QED BY <2>2, <2>3 DEF GensMove
<1> QED BY <1>1, <1>2, <1>3 DEF TimersOK

LEMMA TimedInitially == ProcInit => TimedInv
<1> SUFFICES ASSUME ProcInit PROVE TimedInv
  OBVIOUS
<1>1. \A w \in Workers : job[w] = Waiting
  BY DEF ProcInit
<1> QED BY <1>1, CallInitially
        DEF TimedInv, OneJob, TimersOK, Timed, Waiting, Preparing, BuildStages

LEMMA TimedInvStep ==
  ASSUME Punctual, TimedInv, [ProcNext]_procVars
  PROVE  TimedInv'
<1> USE DEF At, Goto
<1>1. CallInv'
  BY CallInvStep DEF TimedInv
<1>2. GensMove
  BY StepIsCall, StoreMoves DEF TimedInv, CallInv, ProcTypeOK
<1>3. job \in [Workers -> Job] /\ now \in Nat
  BY DEF TimedInv, CallInv, ProcTypeOK, TypeOK
<1>4. ASSUME \A w \in Workers :
               /\ job'[w].g = job[w].g /\ job'[w].s = job[w].s /\ job'[w].since = job[w].since
               /\ Timed(w)' => Timed(w) /\ (job'[w].pc \in Preparing <=> job[w].pc \in Preparing),
             now' = now
      PROVE  TimedInv'
  <2>1. OneJob'
    BY <1>4 DEF TimedInv, OneJob
  <2> QED BY <1>1, <1>2, <1>4, <2>1, TimerKept DEF TimedInv
<1>5. ASSUME NEW w \in Workers, \A v \in Workers \ {w} : job'[v] = job[v], TimersOK(w)', OneJob',
             now' = now
      PROVE  TimedInv'
  <2>1. ASSUME NEW v \in Workers, v # w PROVE TimersOK(v)'
    BY <1>2, <1>5, <2>1, TimerKept DEF Timed
  <2> QED BY <1>1, <1>5, <2>1 DEF TimedInv
<1>6. ASSUME NEW w \in Workers, NEW s \in Sources, AdmitRequest(w, s) PROVE TimedInv'
  <2>1. /\ job'[w].g = Null /\ job'[w].since = now /\ now' = now
        /\ job'[w].pc \in {"select", "create"}
        /\ \A v \in Workers \ {w} : job'[v] = job[v]
    BY <1>3, <1>6 DEF AdmitRequest, Waiting, vars
  <2>2. TimersOK(w)'
    BY <1>3, <2>1, TimeoutsAssumption DEF TimersOK, Deadline, Timed, Preparing
  <2>3. OneJob'
    BY <2>1 DEF TimedInv, OneJob
  <2> QED BY <1>5, <2>1, <2>2, <2>3
<1>7. ASSUME NEW w \in Workers, ClaimWon(w) PROVE TimedInv'
  <2>1. PICK g \in Gens, fp \in Fingerprints :
          /\ Claim(job[w].s, g, fp)
          /\ job' = [job EXCEPT ![w].g = g, ![w].unstored = Positions,
                                ![w].pc = IF job[w].create THEN "processing" ELSE "pending",
                                ![w].since = IF job[w].create THEN now ELSE @]
    BY <1>7 DEF ClaimWon
  <2>2. /\ job[w].pc = "recover" /\ Timed(w) /\ TimersOK(w) /\ job[w].since <= now
        /\ job[w].since \in Nat /\ now' = now
    BY <1>3, <1>7, <2>1 DEF ClaimWon, Claim, Timed, Preparing, TimedInv, CallInv, JobOK, Job
  <2>3. /\ job'[w].g = g /\ job'[w].s = job[w].s
        /\ \/ job'[w].pc = "processing" /\ job'[w].since = now
           \/ job'[w].pc = "pending" /\ job'[w].since = job[w].since
        /\ \A v \in Workers \ {w} : job'[v] = job[v]
    BY <1>3, <2>1 DEF Job
  <2>4. /\ generations[g].state = "absent"
        /\ generations'[g].state = "building" /\ generations'[g].source_id = job[w].s
        /\ generations'[g].created_at = now
    BY <2>1 DEF Claim, NewGeneration, TimedInv, CallInv, ProcTypeOK, TypeOK
  <2>5. TimersOK(w)'
    BY <1>3, <2>2, <2>3, <2>4, TimeoutsAssumption
       DEF TimersOK, Deadline, Timed, Preparing, BuildStages
  <2>6. OneJob'
    <3>1. ASSUME NEW v \in Workers, v # w PROVE job'[v].g # g
      BY <2>3, <2>4, <3>1, NullAssumption DEF TimedInv, CallInv, JobOK
    <3> QED BY <2>3, <3>1 DEF TimedInv, OneJob
  <2> QED BY <1>5, <2>2, <2>3, <2>5, <2>6
<1>8. ASSUME NEW w \in Workers, MarkPending(w) PROVE TimedInv'
  <2>1. CASE job' = [job EXCEPT ![w].pc = "gone"]
    <3>1. now' = now
      BY <1>8 DEF MarkPending, UpdateStatus, vars
    <3> QED BY <1>3, <1>4, <2>1, <3>1 DEF Job, Timed, Preparing, BuildStages
  <2>2. CASE job' = [job EXCEPT ![w].pc = "processing", ![w].since = now]
    <3>1. /\ job[w].pc = "pending" /\ Timed(w) /\ UNCHANGED <<now, generations>>
          /\ job[w].since \in Nat
      BY <1>3, <1>8, <2>2 DEF MarkPending, UpdateStatus, Timed, Preparing, Job, vars
    <3>2. /\ job'[w].g = job[w].g /\ job'[w].s = job[w].s
          /\ job'[w].pc = "processing" /\ job'[w].since = now
          /\ \A v \in Workers \ {w} : job'[v] = job[v]
      BY <1>3, <2>2 DEF Job
    <3>3. now <= job[w].since + RequestTimeout
      BY <3>1 DEF TimedInv, TimersOK, Deadline, Preparing
    <3>4. TimersOK(w)'
      <4>1. CASE job[w].g = Null
        BY <1>3, <3>1, <3>2, <4>1, TimeoutsAssumption DEF TimersOK, Deadline, Timed, Preparing, BuildStages
      <4>2. CASE job[w].g # Null
        <5>1. generations[job[w].g].created_at \in Nat
          BY <3>1, <4>2, HeldRow DEF Held
        <5>2. generations[job[w].g].state = "building"
                => now <= generations[job[w].g].created_at + RequestTimeout
          BY <1>3, <3>1, <3>3, <4>2, <5>1, TimeoutsAssumption DEF TimedInv, TimersOK, Preparing
        <5>3. /\ generations[job[w].g].source_id = job[w].s
              /\ generations[job[w].g].state \in {"building", "deleted"}
          BY <3>1, <4>2 DEF TimedInv, TimersOK
        <5> QED BY <1>3, <3>1, <3>2, <5>2, <5>3, TimeoutsAssumption
                DEF TimersOK, Deadline, Timed, Preparing, BuildStages
      <4> QED BY <4>1, <4>2
    <3>5. OneJob'
      BY <3>2 DEF TimedInv, OneJob
    <3> QED BY <1>5, <3>1, <3>2, <3>4, <3>5
  <2> QED BY <1>8, <2>1, <2>2 DEF MarkPending
<1>9. ASSUME NEW w \in Workers, WorkerStep(w) \/ CancelRequest(w), ~ClaimWon(w), ~MarkPending(w)
      PROVE  TimedInv'
  <2>1. now' = now
    BY <1>9 DEF WorkerStep, CreateRow, SelectStale, RecoverStale, ClaimCoalesced, ClaimRefused,
         ReportRefusal, MarkProcessing, Extract, RecordPlan, MarkEmbedding, StoreBatch,
         FinishStoring, BuildFails, PublishBuild, PublishRefused, AnnounceReady, ReclaimObsolete,
         FailGeneration, BroadcastError, CancelRequest, CreateSource, FailIfBuilding, Claim,
         UpdateStatus, RecordBuildPlan, StoreChunkBatch, Publish, Reclaim, MarkFailed, vars
  <2>2. \/ \E pc \in {"select", "done", "refused", "gone", "extracting", "planning", "embedding",
                      "storing", "publishing", "failing", "announce", "failed"} :
             /\ job' = [job EXCEPT ![w].pc = pc]
             /\ pc \in Preparing => job[w].pc \in Preparing
             /\ pc \in BuildStages => job[w].pc \in BuildStages
        \/ job[w].pc = "select"
             /\ job' = [job EXCEPT ![w].pc = "recover", ![w].stale = StaleBuilds]
        \/ \E h \in job[w].stale : job' = [job EXCEPT ![w].stale = @ \ {h}]
        \/ \E p \in job[w].unstored : job' = [job EXCEPT ![w].unstored = @ \ {p}]
        \/ \E told \in {"ready", "error"}, pc \in {"reclaim", "done"} :
             job' = [job EXCEPT ![w].pc = pc, ![w].told = told]
    BY <1>9 DEF WorkerStep, CreateRow, SelectStale, RecoverStale, ClaimCoalesced, ClaimRefused,
         ReportRefusal, MarkProcessing, Extract, RecordPlan, MarkEmbedding, StoreBatch,
         FinishStoring, BuildFails, PublishBuild, PublishRefused, AnnounceReady, ReclaimObsolete,
         FailGeneration, BroadcastError, CancelRequest, Preparing, BuildStages
  <2>3. /\ \A v \in Workers \ {w} : job'[v] = job[v]
        /\ job'[w].g = job[w].g /\ job'[w].s = job[w].s /\ job'[w].since = job[w].since
        /\ Timed(w)' => Timed(w) /\ (job'[w].pc \in Preparing <=> job[w].pc \in Preparing)
    BY <1>3, <2>2 DEF Job, Timed, Preparing, BuildStages
  <2> QED BY <1>4, <2>1, <2>3 DEF Timed
<1>10. ASSUME MaintainRecover \/ MaintainReclaim \/ DeleteRequest \/ BeginShutdown \/ Restart
              \/ UNCHANGED procVars
       PROVE  TimedInv'
  <2>1. job' = job /\ now' = now
    BY <1>10 DEF MaintainRecover, MaintainReclaim, DeleteRequest, BeginShutdown, Restart, procVars,
                 vars, FailIfBuilding, Reclaim, DeleteSource
  <2> QED BY <1>4, <2>1 DEF Timed
<1>11. ASSUME Exit PROVE TimedInv'
  <2>1. job' = [w \in Workers |-> IF Active(w) THEN [job[w] EXCEPT !.pc = "gone"] ELSE job[w]]
        /\ now' = now
    BY <1>11 DEF Exit, vars
  <2> QED BY <1>3, <1>4, <2>1 DEF Job, Timed, Preparing, BuildStages
<1>12. ASSUME Pass PROVE TimedInv'
  <2>1. /\ job' = job /\ generations' = generations /\ now' = now + 1
        /\ \A w \in Workers : Timed(w) => now < Deadline(w)
    BY <1>12 DEF Pass, Tick
  <2>2. ASSUME NEW w \in Workers PROVE TimersOK(w)'
    <3>1. Deadline(w) \in Nat
      BY <1>3, TimeoutsAssumption DEF Deadline, Job
    <3> QED BY <1>3, <2>1, <3>1 DEF TimedInv, TimersOK, Timed, Deadline
  <2>3. OneJob'
    BY <2>1 DEF TimedInv, OneJob
  <2> QED BY <1>1, <2>2, <2>3 DEF TimedInv
<1> QED
  BY <1>6, <1>7, <1>8, <1>9, <1>10, <1>11, <1>12 DEF ProcNext

(* When timers fire on time, recovery never takes a build away from a      *)
(* worker inside its deadline: the factor STALE_BUILD_MULTIPLIER is enough *)
(* whatever the timeouts are, as long as a request's is not the longer.    *)
THEOREM TimersProtectOwnership == Punctual => (ProcSpec => []TimedBuildKeepsOwnership)
<1> SUFFICES ASSUME Punctual PROVE ProcSpec => []TimedBuildKeepsOwnership
  OBVIOUS
<1>1. TimedInv => TimedBuildKeepsOwnership
  BY DEF TimedInv, TimersOK, TimedBuildKeepsOwnership
<1>2. TimedInv /\ [ProcNext]_procVars => TimedInv'
  BY TimedInvStep
<1> QED BY <1>1, <1>2, TimedInitially, PTL DEF ProcSpec

-----------------------------------------------------------------------------
(* Statuses, when timers fire on time.                                     *)

(* A generation names a source that was created; deleting is for good.     *)
SourcesKnown ==
  \A g \in Gens, s \in Sources :
    generations[g].source_id = s => sources[s].row # "absent"

(* Only a deleted source loses the build a worker is inside of, a worker   *)
(* that announces has published, and every generation's source was there.  *)
TruthInv ==
  /\ TimedInv
  /\ StatusTellsTruth
  /\ SourcesKnown
  /\ \A w \in Workers :
       /\ Held(w) /\ generations[job[w].g].state = "deleted" => ~Live(job[w].s)
       /\ job[w].pc \in {"announce", "reclaim"} \/ job[w].told = "ready"
            => /\ job[w].g \in Gens
               /\ generations[job[w].g].state \in {"published", "deleted"}
       /\ job[w].told = "ready" => job[w].pc \in {"reclaim", "done", "gone"}

(* The row of a source is created once, and deleted for good.              *)
LEMMA RowMoves ==
  ASSUME TypeOK, [Next]_vars, NEW s \in Sources
  PROVE  /\ Live(s)' => Live(s) \/ sources[s].row = "absent"
         /\ sources[s].row # "absent" => sources'[s].row # "absent"
<1> USE DEF TypeOK, SourceRow, Live
<1>1. CASE UNCHANGED sources
  BY <1>1
<1>2. ASSUME NEW r \in Sources, RestoreStatus(r) PROVE sources'[s].row = sources[s].row
  BY <1>2, RestoreStatusEffect
<1>3. ASSUME NEW g \in Gens, FailStaleBuild(g) PROVE sources'[s].row = sources[s].row
  <2>1. CASE generations[g].source_id \in Sources
    BY <1>2, <1>3, <2>1 DEF FailStaleBuild
  <2>2. CASE generations[g].source_id \notin Sources
    BY <1>3, <2>2 DEF FailStaleBuild, RestoreStatus
  <2> QED BY <2>1, <2>2
<1>4. ASSUME NEW g \in Gens, NEW r \in Sources, MarkFailed(g, r) PROVE sources'[s].row = sources[s].row
  BY <1>2, <1>4 DEF MarkFailed
<1>5. ASSUME NEW r \in Sources, CreateSource(r) \/ DeleteSource(r)
      PROVE  /\ Live(s)' => Live(s) \/ sources[s].row = "absent"
             /\ sources'[s].row # "absent"  \/ sources[s].row = "absent"
  BY <1>5 DEF CreateSource, DeleteSource, NewSource
<1>7. ASSUME NEW r \in Sources, NEW st \in WrittenStatuses, UpdateStatus(r, st)
      PROVE  sources'[s].row = sources[s].row
  BY <1>7 DEF UpdateStatus
<1>8. ASSUME NEW r \in Sources, RollbackToPrevious(r)
      PROVE  sources'[s].row = sources[s].row
  BY <1>8 DEF RollbackToPrevious
<1>6. ASSUME NEW g \in Gens, NEW r \in Sources, NEW at \in 0 .. MaxTime, Publish(g, r, at)
      PROVE  sources'[s].row = sources[s].row
  BY <1>6 DEF Publish
<1> QED
  BY <1>1, <1>3, <1>4, <1>5, <1>6, <1>7, <1>8
     DEF Next, vars, Tick, Claim, RecordBuildPlan, StoreChunkBatch, Reclaim

(* A generation belongs to one source, which was live when it was claimed, *)
(* and a build is only deleted with its source.                            *)
LEMMA OwnerMoves ==
  ASSUME TypeOK, [Next]_vars, NEW g \in Gens, NEW s \in Sources
  PROVE  /\ generations'[g].source_id = s => generations[g].source_id = s \/ Live(s)
         /\ generations[g].state = "building" /\ generations'[g].state = "deleted"
              /\ generations[g].source_id = s => ~Live(s)'
<1> USE DEF TypeOK, GenerationRow
<1>1. CASE UNCHANGED generations
  BY <1>1
<1>2. ASSUME NEW r \in Sources, NEW h \in Gens, NEW fp \in Fingerprints, Claim(r, h, fp)
      PROVE  /\ generations'[g].source_id = s => generations[g].source_id = s \/ Live(s)
             /\ generations[g].state # "absent" => generations'[g] = generations[g]
  BY <1>2 DEF Claim, NewGeneration
<1>3. ASSUME NEW h \in Gens,
             \/ \E n \in 0 .. Cardinality(Positions) : RecordBuildPlan(h, n)
             \/ \E r \in Sources, at \in 0 .. MaxTime : Publish(h, r, at)
             \/ \E r \in Sources : MarkFailed(h, r)
             \/ FailStaleBuild(h)
      PROVE  /\ generations'[g].source_id = generations[g].source_id
             /\ generations[g].state # "building" => generations'[g].state = generations[g].state
             /\ generations[g].state = "building"
                  => generations'[g].state \in {"building", "published", "failed"}
  <2>1. CASE \E n \in 0 .. Cardinality(Positions) : RecordBuildPlan(h, n)
    BY <2>1 DEF RecordBuildPlan
  <2>2. CASE \E r \in Sources, at \in 0 .. MaxTime : Publish(h, r, at)
    BY <2>2 DEF Publish, Publishable
  <2>3. CASE (\E r \in Sources : MarkFailed(h, r)) \/ FailStaleBuild(h)
    BY <2>3 DEF MarkFailed, FailStaleBuild
  <2> QED BY <1>3, <2>1, <2>2, <2>3
<1>4. ASSUME NEW r \in Sources, Reclaim(r)
      PROVE  /\ generations'[g].source_id = generations[g].source_id
             /\ generations'[g].state \in {generations[g].state, "deleted"}
             /\ generations[g].state = "building" => generations'[g].state = "building"
  BY <1>4 DEF Reclaim, Drop, Reclaimable, NewGeneration
<1>5. ASSUME NEW r \in Sources, DeleteSource(r)
      PROVE  /\ generations'[g].source_id = generations[g].source_id
             /\ generations'[g].state \in {generations[g].state, "deleted"}
             /\ generations[g].state # "deleted" /\ generations'[g].state = "deleted"
                  => generations[g].source_id = r /\ ~Live(r)'
  BY <1>5 DEF DeleteSource, Drop, NewGeneration, NewSource, Owned, Live
<1> QED
  BY <1>1, <1>2, <1>3, <1>4, <1>5
     DEF Next, vars, Tick, CreateSource, StoreChunkBatch, RollbackToPrevious, UpdateStatus

(* A call that leaves a live source busy without a build, though it has    *)
(* had one, found it so or is an unguarded status write.                   *)
LEMMA SettledCall ==
  ASSUME TypeOK, SourcesKnown, IdleMeansSettled, [Next]_vars, NEW s \in Sources,
         Live(s)', Building(s)' = {}, sources'[s].status = "busy",
         NEW g \in Gens, generations'[g].source_id = s
  PROVE  UpdateStatus(s, "busy")
<1> USE DEF Building, Owned, Exists
<1> USE DEF TypeOK, SourceRow, GenerationRow
<1>1. CASE UNCHANGED <<sources, generations>>
  BY <1>1 DEF IdleMeansSettled, Live
<1>2. CASE \E r \in Sources : CreateSource(r)
  BY <1>2 DEF CreateSource, SourcesKnown, IdleMeansSettled, Live, NewSource
<1>3. ASSUME NEW r \in Sources, NEW h \in Gens, NEW fp \in Fingerprints, Claim(r, h, fp)
      PROVE  FALSE
  <2>1. UNCHANGED sources
    BY <1>3 DEF Claim
  <2>2. generations' = [generations EXCEPT ![h] = NewGeneration("building", r, fp, now)]
        /\ generations[h].state = "absent"
    BY <1>3 DEF Claim
  <2>3. r # s
    BY <2>2 DEF NewGeneration
  <2>4. Building(s) = {}
    BY <2>2
  <2> QED BY <2>1, <2>2, <2>3, <2>4 DEF IdleMeansSettled, Live, NewGeneration
<1>4. ASSUME NEW h \in Gens, NEW n \in 0 .. Cardinality(Positions), RecordBuildPlan(h, n)
      PROVE  FALSE
  BY <1>4 DEF RecordBuildPlan, IdleMeansSettled, Live
<1>5. ASSUME NEW h \in Gens, NEW r \in Sources, NEW at \in 0 .. MaxTime, Publish(h, r, at)
      PROVE  FALSE
  <2>1. r # s
    BY <1>5 DEF Publish
  <2>2. /\ generations[h].source_id = r /\ sources'[s] = sources[s]
        /\ \A k \in Gens \ {h} : generations'[k] = generations[k]
        /\ generations'[h].source_id = r
    BY <1>5, <2>1 DEF Publish, Publishable
  <2>3. generations[g].source_id = s
    BY <2>1, <2>2
  <2>4. ASSUME NEW k \in Building(s) PROVE k \in Building(s)'
    BY <2>1, <2>2
  <2> QED BY <2>2, <2>3, <2>4 DEF IdleMeansSettled, Live
<1>6. ASSUME NEW h \in Gens, NEW r, RestoreStatus(r),
             generations[h].source_id = r,
             generations' = IF generations[h].state = "building"
                            THEN [generations EXCEPT ![h].state = "failed"] ELSE generations
      PROVE  FALSE
  <2>1. r # s
    BY <1>6 DEF RestoreStatus, DerivedStatus
  <2>2. sources'[s] = sources[s] /\ Building(s) = {} /\ generations[g].source_id = s
    BY <1>6, <2>1 DEF RestoreStatus
  <2> QED BY <2>2 DEF IdleMeansSettled, Live
<1>7. ASSUME NEW D \in SUBSET Gens, Drop(D), \A h \in D : generations[h].state # "building",
             UNCHANGED sources
      PROVE  FALSE
  BY <1>7 DEF Drop, NewGeneration, IdleMeansSettled, Live
<1>8. ASSUME NEW r \in Sources, DeleteSource(r) PROVE FALSE
  BY <1>8, ZenonT(40) DEF DeleteSource, Drop, NewGeneration, NewSource, IdleMeansSettled, Live
<1>9. CASE \E r \in Sources : RollbackToPrevious(r)
  BY <1>9 DEF RollbackToPrevious, IdleMeansSettled, Live
<1>10. ASSUME NEW r \in Sources, NEW st \in WrittenStatuses, UpdateStatus(r, st)
       PROVE  UpdateStatus(s, "busy")
  BY <1>10, ZenonT(40) DEF UpdateStatus, IdleMeansSettled, Live
<1> QED
  BY <1>1, <1>2, <1>3, <1>4, <1>5, <1>6, <1>7, <1>8, <1>9, <1>10
     DEF Next, vars, Tick, StoreChunkBatch, MarkFailed, FailStaleBuild, Reclaim, Reclaimable

(* Only a worker inside its build writes that it is busy.                  *)
LEMMA BusyIsTheWorkers ==
  ASSUME CallInv, [ProcNext]_procVars, NEW s \in Sources, UpdateStatus(s, "busy"),
         sources' # sources
  PROVE  \E w \in Workers :
           /\ s = job[w].s /\ Held(w)
           /\ job[w].g \in Gens
<1> USE DEF CallInv, ProcTypeOK, TypeOK, SourceRow
<1>1. /\ UNCHANGED <<now, generations, chunks>> /\ Live(s) /\ sources[s].status # "busy"
      /\ sources'[s].status = "busy" /\ sources'[s].row = "live"
      /\ sources'[s].active = sources[s].active
  BY DEF UpdateStatus, Live
<1>2. ~Pass
  BY <1>1 DEF Pass, Tick
<1>3. ASSUME NEW g, NEW r, NEW fp, Claim(r, g, fp), g \in Gens PROVE FALSE
  BY <1>1, <1>3 DEF Claim, NewGeneration, GenerationRow
<1>4. ASSUME NEW g, FailIfBuilding(g), g \in Gens PROVE FALSE
  BY <1>1, <1>4 DEF FailIfBuilding, vars, GenerationRow
<1>5. ASSUME NEW r, RestoreStatus(r) PROVE FALSE
  BY <1>1, <1>5 DEF RestoreStatus, DerivedStatus
<1>6. ASSUME NEW r, CreateSource(r) \/ DeleteSource(r) PROVE FALSE
  BY <1>1, <1>6 DEF CreateSource, DeleteSource, NewSource, Live
<1>7. ASSUME NEW w \in Workers, MarkPending(w) \/ MarkProcessing(w) \/ MarkEmbedding(w)
      PROVE  s = job[w].s /\ Held(w) /\ job[w].g \in Gens
  <2>1. UpdateStatus(job[w].s, "busy")
    BY <1>7 DEF MarkPending, MarkProcessing, MarkEmbedding, vars
  <2>2. s = job[w].s
    BY <1>1, <2>1 DEF UpdateStatus
  <2>3. job[w].g \in Gens /\ Timed(w)
    BY <1>7 DEF MarkPending, MarkProcessing, MarkEmbedding, At, JobOK, Timed, Preparing, BuildStages
  <2> QED BY <2>2, <2>3, NullAssumption DEF Held
<1>8. ASSUME NEW w \in Workers, ReportRefusal(w) PROVE FALSE
  BY <1>1, <1>8 DEF ReportRefusal, UpdateStatus, vars
<1>9. ASSUME NEW g, NEW r, NEW at, Publish(g, r, at) PROVE FALSE
  BY <1>1, <1>9 DEF Publish
<1>10. ASSUME NEW w \in Workers, WorkerStep(w) \/ CancelRequest(w),
              ~(MarkPending(w) \/ MarkProcessing(w) \/ MarkEmbedding(w))
       PROVE  FALSE
  <2>1. UNCHANGED sources \/ CreateRow(w) \/ RecoverStale(w) \/ ClaimWon(w) \/ ClaimRefused(w)
        \/ ReportRefusal(w) \/ PublishBuild(w) \/ FailGeneration(w)
    BY <1>10 DEF WorkerStep, SelectStale, ClaimCoalesced, Extract, RecordPlan, StoreBatch, FinishStoring,
                 BuildFails, PublishRefused, AnnounceReady, ReclaimObsolete, BroadcastError,
                 CancelRequest, RecordBuildPlan, StoreChunkBatch, Reclaim, vars
  <2>2. ~CreateRow(w)
    BY <1>6 DEF CreateRow
  <2>3. ~RecoverStale(w)
    <3>1. job[w].stale \subseteq Gens
      BY DEF Job
    <3> QED BY <1>4, <3>1 DEF RecoverStale
  <2>4. ~ClaimWon(w) /\ ~ClaimRefused(w)
    BY <1>1, <1>3 DEF ClaimWon, ClaimRefused, vars
  <2>5. ~PublishBuild(w)
    BY <1>9 DEF PublishBuild
  <2>6. ~FailGeneration(w)
    BY <1>5 DEF FailGeneration, MarkFailed, vars
  <2> QED BY <1>8, <2>1, <2>2, <2>3, <2>4, <2>5, <2>6
<1>11. ~MaintainRecover
  BY <1>4 DEF MaintainRecover, StaleBuilds
<1>12. ~DeleteRequest
  BY <1>6 DEF DeleteRequest
<1>13. ASSUME \/ \E w \in Workers, r \in Sources : AdmitRequest(w, r)
              \/ MaintainReclaim \/ BeginShutdown \/ Exit \/ Restart \/ UNCHANGED procVars
       PROVE  UNCHANGED sources
  BY <1>13 DEF AdmitRequest, MaintainReclaim, Reclaim, BeginShutdown, Exit, Restart, procVars, vars
<1> QED
  BY <1>2, <1>7, <1>10, <1>11, <1>12, <1>13 DEF ProcNext

(* Every step keeps all four parts; the ownership of the running timers is *)
(* what excludes a status written for somebody else's build.               *)
LEMMA TruthStep ==
  ASSUME Punctual, TruthInv, [ProcNext]_procVars
  PROVE  TruthInv'
<1> USE DEF TruthInv
<1>1. TypeOK /\ [Next]_vars /\ GensMove /\ CallInv
  BY StepIsCall, StoreMoves DEF TimedInv, CallInv, ProcTypeOK
<1>2. TimedInv'
  BY TimedInvStep
<1>3. SourcesKnown'
  BY <1>1, RowMoves, OwnerMoves DEF SourcesKnown, Live
<1>4. IdleMeansSettled'
  <2> SUFFICES ASSUME NEW s \in Sources, Live(s)', Building(s)' = {}, sources'[s].status = "busy",
                      NEW g \in Gens, generations'[g].source_id = s
               PROVE  FALSE
    BY DEF IdleMeansSettled
  <2>1. UpdateStatus(s, "busy")
    BY <1>1, SettledCall DEF StatusTellsTruth
  <2>2. sources' # sources
    <3>1. UNCHANGED generations
      BY <2>1 DEF UpdateStatus
    <3> QED BY <3>1 DEF StatusTellsTruth, IdleMeansSettled, Live, Building, Owned, Exists
  <2>3. PICK w \in Workers : s = job[w].s /\ Held(w) /\ job[w].g \in Gens
    BY <1>1, <2>1, <2>2, BusyIsTheWorkers
  <2>4. /\ generations[job[w].g].source_id = s
        /\ generations[job[w].g].state \in {"building", "deleted"}
    BY <2>3 DEF TimedInv, TimersOK, Held
  <2>5. generations[job[w].g].state = "building"
    BY <2>1, <2>3, <2>4 DEF UpdateStatus
  <2> QED BY <2>1, <2>3, <2>4, <2>5 DEF UpdateStatus, Building, Owned, Exists
<1> DEFINE Truthful(w) ==
             /\ Held(w) /\ generations[job[w].g].state = "deleted" => ~Live(job[w].s)
             /\ job[w].pc \in {"announce", "reclaim"} \/ job[w].told = "ready"
                  => /\ job[w].g \in Gens
                     /\ generations[job[w].g].state \in {"published", "deleted"}
             /\ job[w].told = "ready" => job[w].pc \in {"reclaim", "done", "gone"}
<1>5. job \in [Workers -> Job] /\ \A w \in Workers : Truthful(w)
  BY <1>1 DEF CallInv, ProcTypeOK
<1>6. ASSUME NEW w \in Workers, job'[w].g = job[w].g, job'[w].s = job[w].s,
             Held(w)' => Held(w),
             job'[w].pc \in {"announce", "reclaim"} \/ job'[w].told = "ready"
               => \/ job[w].pc \in {"announce", "reclaim"} \/ job[w].told = "ready"
                  \/ job[w].g \in Gens /\ generations'[job[w].g].state = "published",
             job'[w].told = "ready" => job'[w].pc \in {"reclaim", "done", "gone"}
      PROVE  Truthful(w)'
  <2>1. ASSUME Held(w)', generations'[job[w].g].state = "deleted" PROVE ~Live(job[w].s)'
    <3>1. /\ generations[job[w].g].source_id = job[w].s
          /\ generations[job[w].g].state \in {"building", "deleted"}
      BY <1>6, <2>1 DEF TimedInv, TimersOK, Held
    <3>2. job[w].g \in Gens /\ job[w].s \in Sources
      BY <1>1, <1>5, <1>6, <2>1, HeldRow DEF CallInv, JobOK, Held, Timed, Preparing, BuildStages
    <3>3. CASE generations[job[w].g].state = "building"
      BY <1>1, <1>6, <2>1, <3>1, <3>2, <3>3, OwnerMoves DEF Live
    <3>4. CASE generations[job[w].g].state = "deleted"
      BY <1>1, <1>3, <1>5, <1>6, <2>1, <3>1, <3>2, <3>4, RowMoves DEF SourcesKnown, Live
    <3> QED BY <3>1, <3>3, <3>4
  <2>2. ASSUME job'[w].pc \in {"announce", "reclaim"} \/ job'[w].told = "ready"
        PROVE  /\ job[w].g \in Gens
               /\ generations'[job[w].g].state \in {"published", "deleted"}
    BY <1>1, <1>5, <1>6, <2>2, GenerationMoves
  <2> QED BY <1>6, <2>1, <2>2
<1>7. \A w \in Workers : Truthful(w)'
  <2>1. ASSUME NEW w \in Workers, job'[w] = job[w] PROVE Truthful(w)'
    BY <1>6, <2>1 DEF Held, Timed
  <2>2. ASSUME NEW w \in Workers, NEW s \in Sources, AdmitRequest(w, s) PROVE Truthful(w)'
    <3>1. job'[w].g = Null /\ job'[w].pc \in {"select", "create"} /\ job'[w].told = "nothing"
      BY <1>5, <2>2 DEF AdmitRequest, Waiting
    <3> QED BY <3>1 DEF Held
  <2>3. ASSUME NEW w \in Workers, ClaimWon(w) PROVE Truthful(w)'
    <3>1. PICK g \in Gens, fp \in Fingerprints :
            /\ Claim(job[w].s, g, fp)
            /\ job' = [job EXCEPT ![w].g = g, ![w].unstored = Positions,
                                  ![w].pc = IF job[w].create THEN "processing" ELSE "pending",
                                  ![w].since = IF job[w].create THEN now ELSE @]
      BY <2>3 DEF ClaimWon
    <3>2. generations'[g].state = "building"
      BY <1>1, <3>1 DEF Claim, NewGeneration, TypeOK
    <3>3. /\ job'[w].g = g /\ job'[w].pc \in {"processing", "pending"}
          /\ job'[w].told = job[w].told /\ job[w].told # "ready"
      BY <1>5, <2>3, <3>1 DEF ClaimWon, At, Job
    <3> QED BY <3>2, <3>3
  <2>4. ASSUME NEW w \in Workers, PublishBuild(w) PROVE Truthful(w)'
    <3>1. job[w].g \in Gens /\ job[w].pc = "publishing" /\ job[w].told # "ready"
      BY <1>1, <2>4 DEF PublishBuild, At, CallInv, JobOK, Reporting
    <3>2. PICK at \in 0 .. now : Publish(job[w].g, job[w].s, at)
      BY <2>4 DEF PublishBuild
    <3>3. generations'[job[w].g].state = "published"
      BY <1>1, <3>1, <3>2 DEF Publish, TypeOK, GenerationRow
    <3>4. /\ job'[w].g = job[w].g /\ job'[w].s = job[w].s /\ job'[w].told = job[w].told
          /\ job'[w].pc \in {"announce", "failing"}
      BY <1>5, <2>4 DEF PublishBuild, Goto, Job
    <3>5. ~Held(w)'
      BY <3>4 DEF Held, Timed, Preparing, BuildStages
    <3> QED BY <1>6, <3>1, <3>3, <3>4, <3>5
  <2>5. ASSUME NEW w \in Workers, WorkerStep(w) \/ CancelRequest(w), ~ClaimWon(w), ~PublishBuild(w)
        PROVE  Truthful(w)'
    <3>1. \/ \E pc \in {"select", "done", "refused", "gone", "extracting", "planning", "embedding",
                        "storing", "publishing", "failing", "failed"} :
               /\ job' = [job EXCEPT ![w].pc = pc]
               /\ pc \in Preparing \cup BuildStages => job[w].pc \in Preparing \cup BuildStages
               /\ job[w].pc \notin {"done", "gone"}
               /\ pc = "done" \/ job[w].pc # "reclaim"
          \/ job[w].pc = "select"
               /\ job' = [job EXCEPT ![w].pc = "recover", ![w].stale = StaleBuilds]
          \/ \E h \in job[w].stale : job' = [job EXCEPT ![w].stale = @ \ {h}]
          \/ \E p \in job[w].unstored : job' = [job EXCEPT ![w].unstored = @ \ {p}]
          \/ job' = [job EXCEPT ![w].pc = "processing", ![w].since = now] /\ job[w].pc = "pending"
          \/ job' = [job EXCEPT ![w].pc = "done", ![w].told = "error"]
          \/ job[w].pc = "announce" /\ job' = [job EXCEPT ![w].pc = "reclaim", ![w].told = "ready"]
      BY <2>5 DEF WorkerStep, CreateRow, SelectStale, RecoverStale, ClaimCoalesced, ClaimRefused,
         ReportRefusal, MarkPending, MarkProcessing, Extract, RecordPlan, MarkEmbedding, StoreBatch,
         FinishStoring, BuildFails, PublishRefused, AnnounceReady, ReclaimObsolete, FailGeneration,
         BroadcastError, CancelRequest, At, Goto, Preparing, BuildStages
    <3>2. /\ job'[w].g = job[w].g /\ job'[w].s = job[w].s
          /\ job'[w].pc \in Preparing \cup BuildStages => job[w].pc \in Preparing \cup BuildStages
          /\ job'[w].pc \in {"announce", "reclaim"} => job[w].pc \in {"announce", "reclaim"}
          /\ job'[w].told = "ready" => job[w].told = "ready" \/ job[w].pc = "announce"
          /\ job'[w].told = "ready" => job'[w].pc \in {"reclaim", "done", "gone"}
      BY <1>5, <3>1 DEF Job, Preparing, BuildStages
    <3> QED BY <1>6, <3>2 DEF Held, Timed
  <2>6. ASSUME NEW v \in Workers, WorkerStep(v) \/ CancelRequest(v), NEW w \in Workers, w # v
        PROVE  job'[w] = job[w]
    BY <1>5, <2>6 DEF WorkerStep, CreateRow, SelectStale, RecoverStale, ClaimWon, ClaimCoalesced,
       ClaimRefused, ReportRefusal, MarkPending, MarkProcessing, Extract, RecordPlan, MarkEmbedding,
       StoreBatch, FinishStoring, BuildFails, PublishBuild, PublishRefused, AnnounceReady,
       ReclaimObsolete, FailGeneration, BroadcastError, CancelRequest, Goto
  <2>7. ASSUME Exit, NEW w \in Workers PROVE Truthful(w)'
    <3>1. \/ job'[w] = job[w]
          \/ /\ job'[w].g = job[w].g /\ job'[w].s = job[w].s /\ job'[w].told = job[w].told
             /\ job'[w].pc = "gone"
      BY <1>5, <2>7 DEF Exit, Job
    <3> QED BY <1>6, <2>1, <3>1 DEF Held, Timed, Preparing, BuildStages
  <2>8. ASSUME NEW v \in Workers, NEW s \in Sources, AdmitRequest(v, s), NEW w \in Workers, w # v
        PROVE  job'[w] = job[w]
    BY <1>5, <2>8 DEF AdmitRequest
  <2>9. ASSUME \/ MaintainRecover \/ MaintainReclaim \/ DeleteRequest \/ BeginShutdown \/ Restart
              \/ Pass \/ UNCHANGED procVars
        PROVE  job' = job
    BY <2>9 DEF MaintainRecover, MaintainReclaim, DeleteRequest, BeginShutdown, Restart, Pass, procVars
  <2> QED
    BY <2>1, <2>2, <2>3, <2>4, <2>5, <2>6, <2>7, <2>8, <2>9 DEF ProcNext
<1> QED BY <1>2, <1>3, <1>4, <1>7 DEF StatusTellsTruth, ReadyIsPublished

(* When timers fire on time, a source nobody builds never shows work in    *)
(* progress, and readers are told it is ready only of a published build,   *)
(* although update_status checks nothing: whoever writes `processing' or   *)
(* `embedding' still owns a build of that source or the source is gone.    *)
THEOREM StatusStaysTrue == Punctual => (ProcSpec => []StatusTellsTruth)
<1> SUFFICES ASSUME Punctual PROVE ProcSpec => []StatusTellsTruth
  OBVIOUS
<1>1. ProcInit => TruthInv
  <2> SUFFICES ASSUME ProcInit PROVE TruthInv
    OBVIOUS
  <2>1. TimedInv
    BY TimedInitially
  <2>2. /\ \A w \in Workers : job[w] = Waiting
        /\ \A g \in Gens : generations[g].source_id = Null
        /\ \A s \in Sources : sources[s].row = "absent"
    BY DEF ProcInit, Init, NewSource, NewGeneration
  <2>3. StatusTellsTruth
    BY <2>2 DEF StatusTellsTruth, IdleMeansSettled, ReadyIsPublished, Live, Waiting
  <2>4. SourcesKnown
    BY <2>2, NullAssumption DEF SourcesKnown
  <2> QED BY <2>1, <2>2, <2>3, <2>4 DEF TruthInv, Held, Waiting
<1>2. TruthInv /\ [ProcNext]_procVars => TruthInv'
  BY TruthStep
<1>3. TruthInv => StatusTellsTruth
  BY DEF TruthInv
<1> QED BY <1>1, <1>2, <1>3, PTL DEF ProcSpec

-----------------------------------------------------------------------------
(* The pages of a PDF.                                                     *)

PdfStages == {"idle", "reading", "permitted", "calling", "recording", "storing", "done", "failed"}

BuildRecord ==
  [pc: PdfStages, pages: Seq(Nat), processed: Nat, answered: BOOLEAN, charged: Nat]

CacheRow == [owner: Uploads, document: Documents, model: OcrModels, pages: Seq(Nat)]

(* What stands on a page was read from it, or from a later one where the   *)
(* provider read the whole document and left pages out.                    *)
Shifted(u, pages) == WholeDocument(u) /\ Len(pages) < Len(document[u])

Placed(u, pages) ==
  \A i \in 1 .. Len(pages) : pages[i] # NoText =>
    i <= pages[i] /\ (~Shifted(u, pages) => pages[i] = i)

(* Pages that are those of the upload's document, and keep its own text.   *)
PagesFit(u, pages) ==
  /\ pages \in Seq(Nat)
  /\ Len(pages) <= Len(document[u])
  /\ \A i \in 1 .. Len(pages) : pages[i] = NoText \/ pages[i] \in 1 .. Len(document[u])
  /\ Placed(u, pages)

KeepsNative(u, pages) ==
  \A i \in 1 .. reading[u].extracted :
    document[u][i] = "text" => i \in 1 .. Len(pages) /\ pages[i] = i

(* A build between its steps: it has read something once it records, and   *)
(* is charged once, between recording and storing.                         *)
BuildFits(u, b) ==
  /\ PagesFit(u, b.pages)
  /\ b.pc \in {"recording", "storing", "done"} => KeepsNative(u, b.pages)
  /\ b.pc \in {"reading", "permitted", "calling", "recording"} => b.charged = 0
  /\ b.pc = "recording" => b.answered
  /\ b.charged <= IF b.answered THEN PagesNeeded(u) ELSE 0

RowFits(row) ==
  /\ row.owner \in live
  /\ \A u \in Uploads : document[u] = row.document =>
       PagesFit(u, row.pages) /\ KeepsNative(u, row.pages)

(* What was uploaded does not change, and two uploads of one document are  *)
(* read alike.                                                             *)
UploadsFit ==
  /\ document \in [Uploads -> Documents]
  /\ \A u \in Uploads : reading[u] \in Readings(document[u])
  /\ \A u, v \in Uploads : document[u] = document[v] => reading[u] = reading[v]

PdfIInv ==
  /\ UploadsFit
  /\ model \in OcrModels /\ live \subseteq Uploads
  /\ build \in [Uploads -> BuildRecord]
  /\ cache \subseteq CacheRow
  /\ \A u \in Uploads : BuildFits(u, build[u])
  /\ \A row \in cache : RowFits(row)

LEMMA DocumentType ==
  ASSUME UploadsFit, NEW u \in Uploads
  PROVE  /\ document[u] \in Seq({"text", "sparse", "scan", "blank"}) /\ document[u] # <<>>
         /\ Len(document[u]) \in Nat \ {0}
         /\ \A i \in 1 .. Len(document[u]) : document[u][i] \in {"text", "sparse", "scan", "blank"}
         /\ reading[u].extracted \in 0 .. Len(document[u])
         /\ reading[u].extracted \in Nat
         /\ reading[u].counted \in BOOLEAN
  <1>1. document[u] \in Seq({"text", "sparse", "scan", "blank"}) /\ document[u] # <<>>
    BY PdfAssumption DEF UploadsFit
  <1>2. Len(document[u]) \in Nat \ {0}
    BY <1>1
  <1>3. reading[u] \in Readings(document[u])
    BY DEF UploadsFit
  <1>4. /\ reading[u].extracted \in 0 .. Len(document[u]) /\ reading[u].counted \in BOOLEAN
    <2>1. CASE reading[u] \in [extracted: 0 .. Len(document[u]), counted: BOOLEAN, fails: {FALSE}]
      BY <2>1
    <2>2. CASE reading[u] \in [extracted: {0}, counted: {FALSE}, fails: {TRUE}]
      <3>1. reading[u].extracted \in {0} /\ reading[u].counted \in {FALSE}
        BY <2>2, Zenon
      <3>2. reading[u].extracted \in 0 .. Len(document[u])
        BY <1>2, <3>1
      <3>3. reading[u].counted \in BOOLEAN
        BY <3>1, Zenon
      <3> QED  BY <3>2, <3>3
    <2> QED  BY <1>3, <2>1, <2>2 DEF Readings
  <1> QED  BY <1>1, <1>2, <1>4

(* What was read natively fits, and there are pages to name.               *)
LEMMA SegmentsFit ==
  ASSUME UploadsFit, NEW u \in Uploads
  PROVE  /\ PagesFit(u, Segments(u)) /\ KeepsNative(u, Segments(u))
         /\ Len(Segments(u)) \in 0 .. Len(document[u])
         /\ \A i \in 1 .. Len(Segments(u)) : Segments(u)[i] \in {NoText, i}
         /\ \A i \in 1 .. reading[u].extracted : i <= Len(Segments(u))
         /\ PageCount(u) \in {0, Len(document[u])}
  <1> DEFINE n == Len(document[u])
             x == reading[u].extracted
             c == IF PageCount(u) > x THEN PageCount(u) ELSE x
  <1>1. /\ n \in Nat \ {0} /\ x \in 0 .. n /\ reading[u].counted \in BOOLEAN
        /\ \A i \in 1 .. n : document[u][i] \in {"text", "sparse", "scan", "blank"}
    BY DocumentType
  <1>2. PageCount(u) \in {0, n}
    BY DEF PageCount
  <1>3. c \in 0 .. n /\ x <= c
    BY <1>1, <1>2
  <1>4. Segments(u) = [i \in 1 .. c |-> IF i <= x THEN NativePage(document[u], i) ELSE NoText]
    BY DEF Segments
  <1> HIDE DEF c, x, n
  <1>5. \A i \in 1 .. c : NativePage(document[u], i) \in {NoText, i}
    BY DEF NativePage
  <1>6. Segments(u) \in Seq(Nat) /\ Len(Segments(u)) = c
    BY <1>1, <1>3, <1>4, <1>5 DEF NoText
  <1>7. \A i \in 1 .. c : Segments(u)[i] \in {NoText, i}
    BY <1>4, <1>5
  <1>8. PagesFit(u, Segments(u))
    <2>1. \A i \in 1 .. c : i \in 1 .. n
      BY <1>1, <1>3
    <2>2. Placed(u, Segments(u))
      BY <1>6, <1>7, <2>1, <1>1 DEF Placed
    <2> QED  BY <1>1, <1>3, <1>6, <1>7, <2>1, <2>2 DEF PagesFit, n
  <1>9. KeepsNative(u, Segments(u))
    <2>1. \A i \in 1 .. x : i \in 1 .. c
      BY <1>1, <1>3
    <2>2. \A i \in 1 .. x : document[u][i] = "text" => Segments(u)[i] = i
      BY <1>4, <2>1 DEF NativePage
    <2> QED  BY <1>6, <2>1, <2>2 DEF KeepsNative, x
  <1> QED  BY <1>1, <1>2, <1>3, <1>6, <1>7, <1>8, <1>9 DEF x, n

(* What recognition may be asked for is no more than the document has, or  *)
(* than one request may hold.                                              *)
LEMMA NeededType ==
  ASSUME UploadsFit, NEW u \in Uploads
  PROVE  /\ PagesNeeded(u) \in Nat
         /\ Wanted(u) \subseteq 1 .. Len(Segments(u))
         /\ Wanted(u) \subseteq Sparse(u)
  <1>1. Len(Segments(u)) \in Nat
    BY SegmentsFit, DocumentType
  <1>2. /\ Wanted(u) \subseteq Sparse(u)
        /\ Sparse(u) \subseteq 1 .. Len(Segments(u))
    BY DEF Wanted, Sparse, Number
  <1>3. IsFiniteSet(1 .. Len(Segments(u)))
    BY <1>1, FS_Interval
  <1>4. IsFiniteSet(Wanted(u))
    BY <1>2, <1>3, FS_Subset
  <1>5. Cardinality(Wanted(u)) \in Nat
    BY <1>4, FS_CardinalityType
  <1> QED  BY <1>2, <1>5, PdfAssumption DEF PagesNeeded

(* Whatever the provider answers and however it is put together.           *)
LEMMA MergedFit ==
  ASSUME UploadsFit, NEW u \in Uploads, NEW answered \in SUBSET Wanted(u)
  PROVE  PagesFit(u, MergeOcrPages(u, answered)) /\ KeepsNative(u, MergeOcrPages(u, answered))
  <1> DEFINE n == Len(document[u])
             c == Len(Segments(u))
             merged == MergeOcrPages(u, answered)
  <1>1. n \in Nat \ {0} /\ c \in 0 .. n /\ reading[u].extracted \in 0 .. n
    BY DocumentType, SegmentsFit
  <1>2. /\ answered \subseteq 1 .. c /\ answered \subseteq Sparse(u)
    BY NeededType
  <1>3. merged = [i \in 1 .. c |-> IF i \in answered THEN OcrPage(document[u], i) ELSE Segments(u)[i]]
    BY DEF MergeOcrPages, Number
  <1>4. \A i \in 1 .. c : Segments(u)[i] \in {NoText, i}
    BY SegmentsFit
  <1> HIDE DEF n, c, merged
  <1>5. \A i \in 1 .. c : OcrPage(document[u], i) \in {NoText, i}
    BY DEF OcrPage
  <1>6. \A i \in 1 .. c : merged[i] \in {NoText, i}
    BY <1>3, <1>4, <1>5
  <1>7. \A i \in 1 .. c : merged[i] \in Nat
    BY <1>1, <1>6 DEF NoText
  <1>8. merged \in Seq(Nat) /\ Len(merged) = c
    BY <1>1, <1>3, <1>7
  <1>9. PagesFit(u, merged)
    <2>1. Placed(u, merged)
      BY <1>1, <1>6, <1>8 DEF Placed
    <2> QED  BY <1>1, <1>6, <1>8, <2>1 DEF PagesFit, n
  <1>10. KeepsNative(u, merged)
    <2> SUFFICES ASSUME NEW i \in 1 .. reading[u].extracted, document[u][i] = "text"
                 PROVE  i \in 1 .. Len(merged) /\ merged[i] = i
      BY DEF KeepsNative
    <2>1. i \notin Sparse(u)
      BY <1>1 DEF Sparse
    <2>2. i \in 1 .. c /\ Segments(u)[i] = i
      BY SegmentsFit DEF KeepsNative, c
    <2> QED  BY <1>2, <1>3, <1>8, <2>1, <2>2
  <1> QED  BY <1>9, <1>10 DEF merged

(* Ascending page numbers never fall behind their places, and fill them    *)
(* where there are as many numbers as pages.                               *)
LEMMA AscendingPlaces ==
  ASSUME NEW n \in Nat, NEW c \in Nat, c <= n, NEW f \in [1 .. c -> 1 .. n],
         \A i, j \in 1 .. c : i < j => f[i] < f[j]
  PROVE  \A i \in 1 .. c : i <= f[i] /\ (c = n => f[i] = i)
  <1>1. \A i \in 1 .. c : f[i] \in Nat /\ 1 <= f[i] /\ f[i] <= n
    OBVIOUS
  <1> DEFINE Behind == {i \in 1 .. c : ~(i <= f[i])}
             Ahead == {k \in Nat : k < c /\ ~(f[c - k] <= n - k)}
  <1>2. Behind = {}
    <2> SUFFICES ASSUME Behind # {} PROVE FALSE
      OBVIOUS
    <2>1. Behind \subseteq Nat
      OBVIOUS
    <2>2. PICK i \in Behind : \A j \in Behind : i <= j
      BY <2>1, LeastOf
    <2>3. i \in 1 .. c /\ ~(i <= f[i]) /\ i # 1
      BY <1>1, <2>2
    <2>4. i - 1 \in 1 .. c /\ i - 1 < i /\ i - 1 \notin Behind
      BY <2>2, <2>3
    <2>5. i - 1 <= f[i - 1] /\ f[i - 1] < f[i] /\ f[i - 1] \in Nat /\ f[i] \in Nat
      BY <1>1, <2>3, <2>4
    <2> QED  BY <2>3, <2>5
  <1>3. Ahead = {}
    <2> SUFFICES ASSUME Ahead # {} PROVE FALSE
      OBVIOUS
    <2>1. Ahead \subseteq Nat
      OBVIOUS
    <2>2. PICK k \in Ahead : \A l \in Ahead : k <= l
      BY <2>1, LeastOf
    <2>3. k \in Nat /\ k < c /\ ~(f[c - k] <= n - k) /\ c - k \in 1 .. c
      BY <2>2
    <2>4. k # 0
      <3> SUFFICES ASSUME k = 0 PROVE FALSE
        OBVIOUS
      <3>1. c - k = c /\ n - k = n
        BY <2>3
      <3> QED  BY <1>1, <2>3, <3>1
    <2>5. k - 1 \in Nat /\ k - 1 < c /\ k - 1 < k /\ c - (k - 1) \in 1 .. c /\ c - k < c - (k - 1)
      BY <2>3, <2>4
    <2>6. f[c - (k - 1)] <= n - (k - 1)
      <3>1. k - 1 \notin Ahead
        <4> SUFFICES ASSUME k - 1 \in Ahead PROVE FALSE
          OBVIOUS
        <4>1. k <= k - 1
          BY <2>2
        <4> QED  BY <2>3, <4>1
      <3> QED  BY <2>5, <3>1
    <2>7. f[c - k] < f[c - (k - 1)] /\ f[c - k] \in Nat /\ f[c - (k - 1)] \in Nat
      BY <1>1, <2>3, <2>5
    <2> QED  BY <2>3, <2>6, <2>7
  <1> SUFFICES ASSUME NEW i \in 1 .. c
               PROVE  i <= f[i] /\ (c = n => f[i] = i)
    OBVIOUS
  <1>4. i <= f[i]
    BY <1>2
  <1>5. ASSUME c = n PROVE f[i] <= i
    <2>1. c - i \in Nat /\ c - i < c /\ c - (c - i) = i /\ n - (c - i) = i
      BY <1>5
    <2>2. f[c - (c - i)] <= n - (c - i)
      BY <1>3, <2>1
    <2> QED  BY <2>1, <2>2
  <1> QED  BY <1>1, <1>4, <1>5

LEMMA InOrderFit ==
  ASSUME UploadsFit, NEW u \in Uploads, WholeDocument(u),
         NEW answered \in SUBSET (1 .. Len(document[u]))
  PROVE  PagesFit(u, InOrder(u, answered)) /\ KeepsNative(u, InOrder(u, answered))
  <1> DEFINE n == Len(document[u])
             c == Cardinality(answered)
             f == Ascending(answered)
             pages == InOrder(u, answered)
  <1>1. n \in Nat \ {0}
    BY DocumentType
  <1>2. IsFiniteSet(1 .. n) /\ Cardinality(1 .. n) = n
    BY <1>1, FS_Interval
  <1>3. c \in Nat /\ c <= n
    BY <1>2, FS_Subset, FS_CardinalityType
  <1>4. f \in [1 .. c -> answered] /\ \A i, j \in 1 .. c : i < j => f[i] < f[j]
    <2>1. answered \in SUBSET (1 .. n)
      OBVIOUS
    <2> HIDE DEF n
    <2>2. IsFiniteSet(answered)
      BY <1>2, <2>1, FS_Subset
    <2>3. answered \in SUBSET Int
      BY <1>1, <2>1
    <2> QED  BY <2>2, <2>3, AscendingIsInOrder
  <1>5. pages = [i \in 1 .. c |-> OcrPage(document[u], f[i])]
    BY DEF InOrder
  <1> HIDE DEF n, c, f, pages
  <1>6. \A i \in 1 .. c : f[i] \in 1 .. n
    BY <1>4 DEF n
  <1>7. \A i \in 1 .. c : pages[i] = NoText \/ pages[i] \in 1 .. n
    BY <1>5, <1>6 DEF OcrPage
  <1>8. \A i \in 1 .. c : pages[i] \in Nat
    BY <1>1, <1>7 DEF NoText
  <1>9. pages \in Seq(Nat) /\ Len(pages) = c
    BY <1>3, <1>5, <1>8
  <1>10. PagesFit(u, pages)
    <2>1. ASSUME NEW i \in 1 .. c, NEW j \in 1 .. c, i < j
          PROVE  f[i] < f[j]
      BY <1>4, <2>1
    <2>2. f \in [1 .. c -> 1 .. n]
      BY <1>6, <1>4
    <2>3. \A i \in 1 .. c : i <= f[i] /\ (c = n => f[i] = i)
      BY <1>1, <1>3, <2>1, <2>2, AscendingPlaces
    <2>4. Placed(u, pages)
      <3> SUFFICES ASSUME NEW i \in 1 .. c, pages[i] # NoText
                   PROVE  i <= pages[i] /\ (~Shifted(u, pages) => pages[i] = i)
        BY <1>9 DEF Placed
      <3>1. pages[i] = f[i]
        BY <1>5 DEF OcrPage
      <3>2. ~Shifted(u, pages) => c = n
        BY <1>1, <1>3, <1>9 DEF Shifted, n
      <3> QED  BY <2>3, <3>1, <3>2
    <2> QED  BY <1>3, <1>7, <1>9, <2>4 DEF PagesFit, n
  <1>11. KeepsNative(u, pages)
    BY DEF KeepsNative, WholeDocument
  <1> QED  BY <1>10, <1>11 DEF pages

-----------------------------------------------------------------------------
(* One build takes a step and the rest stays as it is.                     *)
LEMMA BuildMoves ==
  ASSUME PdfIInv, NEW u \in Uploads,
         build' \in [Uploads -> BuildRecord],
         \A v \in Uploads : v # u => build'[v] = build[v],
         BuildFits(u, build'[u]),
         document' = document, reading' = reading
  PROVE  \A v \in Uploads : BuildFits(v, build[v])'
  <1>1. \A v \in Uploads : BuildFits(v, build'[v])
    BY DEF PdfIInv
  <1> SUFFICES ASSUME NEW v \in Uploads
               PROVE  BuildFits(v, build[v])'
    OBVIOUS
  <1>2. PagesNeeded(v)' = PagesNeeded(v)
    BY DEF PagesNeeded, WholeDocument, Wanted, Sparse, Segments, PageCount, Number
  <1> QED
    BY <1>1, <1>2
    DEF BuildFits, PagesFit, KeepsNative, Placed, Shifted, WholeDocument, PageCount

(* A build that only changes its stage.                                    *)
LEMMA ContinueFits ==
  ASSUME PdfIInv, NEW u \in Uploads, NEW pc \in {"failed", "permitted", "calling"},
         Continue(u, pc),
         pc = "permitted" => build[u].pc = "reading",
         pc = "calling" => build[u].pc = "permitted"
  PROVE  /\ build' \in [Uploads -> BuildRecord]
         /\ \A v \in Uploads : v # u => build'[v] = build[v]
         /\ BuildFits(u, build'[u])
  <1>1. build \in [Uploads -> BuildRecord] /\ BuildFits(u, build[u])
    BY DEF PdfIInv
  <1>2. build' \in [Uploads -> BuildRecord]
    BY <1>1 DEF Continue, BuildRecord, PdfStages
  <1>3. /\ \A v \in Uploads : v # u => build'[v] = build[v]
        /\ build'[u].pc = pc /\ build'[u].pages = build[u].pages
        /\ build'[u].answered = build[u].answered /\ build'[u].charged = build[u].charged
    BY <1>1 DEF Continue, BuildRecord
  <1> QED  BY <1>1, <1>2, <1>3 DEF BuildFits

(* A build that ends with pages that fit.                                  *)
LEMMA FinishFits ==
  ASSUME PdfIInv, NEW u \in Uploads, NEW pages, Finish(u, pages),
         PagesFit(u, pages), KeepsNative(u, pages)
  PROVE  /\ build' \in [Uploads -> BuildRecord]
         /\ \A v \in Uploads : v # u => build'[v] = build[v]
         /\ BuildFits(u, build'[u])
  <1>1. build \in [Uploads -> BuildRecord] /\ BuildFits(u, build[u])
    BY DEF PdfIInv
  <1>2. pages \in Seq(Nat)
    BY DEF PagesFit
  <1>3. build' \in [Uploads -> BuildRecord]
    BY <1>1, <1>2, ZenonT(40) DEF Finish, BuildRecord, PdfStages
  <1>4. /\ \A v \in Uploads : v # u => build'[v] = build[v]
        /\ build'[u].pc = "done" /\ build'[u].pages = pages
        /\ build'[u].answered = build[u].answered /\ build'[u].charged = build[u].charged
    BY <1>1, <1>2 DEF Finish, BuildRecord
  <1> QED  BY <1>1, <1>3, <1>4 DEF BuildFits

LEMMA StartFits ==
  ASSUME PdfIInv, NEW u \in Uploads, Start(u)
  PROVE  /\ build' \in [Uploads -> BuildRecord]
         /\ \A v \in Uploads : v # u => build'[v] = build[v]
         /\ BuildFits(u, build'[u])
  <1>1. build \in [Uploads -> BuildRecord] /\ UploadsFit
    BY DEF PdfIInv
  <1> DEFINE b == [Idle EXCEPT !.pc = "reading"]
  <1>2. /\ b.pc = "reading" /\ b.pages = <<>> /\ b.answered = FALSE /\ b.charged = 0
        /\ b.processed = 0
    BY DEF Idle
  <1>6. b \in BuildRecord
    <2>1. <<>> \in Seq(Nat) /\ 0 \in Nat /\ "reading" \in PdfStages
      BY DEF PdfStages
    <2>2. FALSE \in BOOLEAN /\ "idle" \in PdfStages
      BY DEF PdfStages
    <2>3. Idle \in BuildRecord
      BY <2>1, <2>2, Zenon DEF BuildRecord, Idle
    <2> QED  BY <2>1, <2>3 DEF BuildRecord
  <1>3. build' = [build EXCEPT ![u] = b]
    BY DEF Start
  <1> HIDE DEF b
  <1>4. /\ build' \in [Uploads -> BuildRecord]
        /\ \A v \in Uploads : v # u => build'[v] = build[v]
        /\ build'[u] = b
    BY <1>1, <1>3, <1>6
  <1>5. PagesFit(u, <<>>)
    BY <1>1, DocumentType DEF PagesFit, Placed
  <1> QED  BY <1>2, <1>4, <1>5, <1>1, NeededType DEF BuildFits

LEMMA DropFits ==
  ASSUME PdfIInv, NEW u \in Uploads, DropBuild(u)
  PROVE  /\ build' \in [Uploads -> BuildRecord]
         /\ \A v \in Uploads : v # u => build'[v] = build[v]
         /\ BuildFits(u, build'[u])
  <1>1. build \in [Uploads -> BuildRecord] /\ BuildFits(u, build[u]) /\ UploadsFit
    BY DEF PdfIInv
  <1>2. build' \in [Uploads -> BuildRecord]
    <2>1. <<>> \in Seq(Nat) /\ 0 \in Nat /\ "failed" \in PdfStages
      BY DEF PdfStages
    <2> QED  BY <1>1, <2>1 DEF DropBuild, BuildRecord
  <1>3. /\ \A v \in Uploads : v # u => build'[v] = build[v]
        /\ build'[u].pc = "failed" /\ build'[u].pages = <<>>
        /\ build'[u].answered = build[u].answered /\ build'[u].charged = build[u].charged
    BY <1>1 DEF DropBuild, BuildRecord
  <1>4. PagesFit(u, <<>>)
    BY <1>1, DocumentType DEF PagesFit, Placed
  <1> QED  BY <1>1, <1>2, <1>3, <1>4 DEF BuildFits

LEMMA CallFits ==
  ASSUME PdfIInv, NEW u \in Uploads, CallOcr(u)
  PROVE  /\ build' \in [Uploads -> BuildRecord]
         /\ \A v \in Uploads : v # u => build'[v] = build[v]
         /\ BuildFits(u, build'[u])
  <1>1. build \in [Uploads -> BuildRecord] /\ BuildFits(u, build[u]) /\ UploadsFit
        /\ build[u].pc = "calling"
    BY DEF PdfIInv, CallOcr
  <1> DEFINE asked == IF WholeDocument(u) THEN Number(document[u]) ELSE Wanted(u)
  <1>2. PICK answered \in SUBSET asked, processed \in {0, Len(document[u])} :
          build' = [build EXCEPT ![u] =
            [@ EXCEPT !.pc = "recording", !.answered = TRUE,
                      !.pages = IF WholeDocument(u) THEN InOrder(u, answered)
                                ELSE MergeOcrPages(u, answered),
                      !.processed = IF processed = 0 THEN Cardinality(answered) ELSE processed]]
    BY DEF CallOcr
  <1> DEFINE pages == IF WholeDocument(u) THEN InOrder(u, answered) ELSE MergeOcrPages(u, answered)
  <1>4. PagesFit(u, pages) /\ KeepsNative(u, pages)
    <2>1. CASE WholeDocument(u)
      BY <1>1, <2>1, InOrderFit DEF Number
    <2>2. CASE ~WholeDocument(u)
      <3>1. answered \in SUBSET Wanted(u) /\ pages = MergeOcrPages(u, answered)
        BY <2>2
      <3> QED  BY <1>1, <3>1, MergedFit
    <2> QED  BY <2>1, <2>2
  <1>5. Cardinality(answered) \in Nat
    <2>1. asked \subseteq 1 .. Len(document[u]) \/ asked \subseteq 1 .. Len(Segments(u))
      BY <1>1, NeededType DEF Number
    <2>2. IsFiniteSet(1 .. Len(document[u])) /\ IsFiniteSet(1 .. Len(Segments(u)))
      BY <1>1, DocumentType, SegmentsFit, FS_Interval
    <2>3. IsFiniteSet(answered)
      BY <2>1, <2>2, FS_Subset
    <2> QED  BY <2>3, FS_CardinalityType
  <1> DEFINE units == IF processed = 0 THEN Cardinality(answered) ELSE processed
  <1>6. units \in Nat
    BY <1>1, <1>5, DocumentType
  <1>7. pages \in Seq(Nat)
    BY <1>4 DEF PagesFit
  <1>8. build' = [build EXCEPT ![u] =
          [@ EXCEPT !.pc = "recording", !.answered = TRUE, !.pages = pages, !.processed = units]]
    BY <1>2
  <1> HIDE DEF units, asked, pages
  <1>9. build' \in [Uploads -> BuildRecord]
    BY <1>1, <1>6, <1>7, <1>8 DEF BuildRecord, PdfStages
  <1>10. /\ \A v \in Uploads : v # u => build'[v] = build[v]
         /\ build'[u].pc = "recording" /\ build'[u].pages = pages
         /\ build'[u].charged = build[u].charged
    BY <1>1, <1>8 DEF BuildRecord
  <1>11. build'[u].answered
    BY <1>1, <1>8 DEF BuildRecord
  <1>12. build[u].charged = 0
    BY <1>1 DEF BuildFits
  <1> QED  BY <1>1, <1>4, <1>9, <1>10, <1>11, <1>12, NeededType DEF BuildFits

LEMMA RecordFits ==
  ASSUME PdfIInv, NEW u \in Uploads, RecordUsage(u)
  PROVE  /\ build' \in [Uploads -> BuildRecord]
         /\ \A v \in Uploads : v # u => build'[v] = build[v]
         /\ BuildFits(u, build'[u])
  <1>1. build \in [Uploads -> BuildRecord] /\ BuildFits(u, build[u]) /\ UploadsFit
        /\ build[u].pc = "recording"
    BY DEF PdfIInv, RecordUsage
  <1> DEFINE units == ClampUnits(u, build[u].processed)
  <1>2. PICK recorded \in {0, units} :
          build' = [build EXCEPT ![u].pc = "storing", ![u].processed = units, ![u].charged = @ + recorded]
    BY DEF RecordUsage
  <1>3. build[u].charged = 0 /\ build[u].processed \in Nat /\ build[u].pages \in Seq(Nat)
    BY <1>1 DEF BuildFits, BuildRecord
  <1>4. PagesNeeded(u) \in Nat
    BY <1>1, NeededType
  <1>5. units \in Nat /\ units <= PagesNeeded(u)
    BY <1>3, <1>4 DEF ClampUnits
  <1> HIDE DEF units
  <1>6. recorded \in Nat /\ recorded <= PagesNeeded(u)
    BY <1>2, <1>4, <1>5
  <1>7. build' \in [Uploads -> BuildRecord]
    <2>1. build[u].charged + recorded \in Nat
      BY <1>3, <1>6
    <2>2. build[u] \in BuildRecord /\ "storing" \in PdfStages
      BY <1>1 DEF PdfStages
    <2> DEFINE b == [build[u] EXCEPT !.pc = "storing", !.processed = units, !.charged = @ + recorded]
    <2>3. b \in BuildRecord
      BY <1>5, <2>1, <2>2 DEF BuildRecord
    <2>4. build' = [build EXCEPT ![u] = b]
      BY <1>1, <1>2
    <2> HIDE DEF b
    <2> QED  BY <1>1, <2>3, <2>4
  <1>8. /\ \A v \in Uploads : v # u => build'[v] = build[v]
        /\ build'[u].pc = "storing" /\ build'[u].pages = build[u].pages
        /\ build'[u].answered = build[u].answered
        /\ build'[u].charged = build[u].charged + recorded
    BY <1>1, <1>2 DEF BuildRecord
  <1>9. build'[u].answered
    BY <1>1, <1>8 DEF BuildFits
  <1>10. build'[u].charged <= PagesNeeded(u)
    BY <1>3, <1>6, <1>8
  <1> QED  BY <1>1, <1>7, <1>8, <1>9, <1>10 DEF BuildFits

-----------------------------------------------------------------------------
(* The cache: a hit is a row of this document, and what is stored is a     *)
(* build's pages under its upload, or a row that changes owner.            *)
LEMMA HitFits ==
  ASSUME PdfIInv, NEW u \in Uploads, NEW row \in Hits(u)
  PROVE  PagesFit(u, row.pages) /\ KeepsNative(u, row.pages)
  BY DEF Hits, PdfIInv, RowFits

LEMMA UpsertFits ==
  ASSUME PdfIInv, NEW u \in Uploads, NEW pages, Upsert(u, pages),
         PagesFit(u, pages), KeepsNative(u, pages)
  PROVE  /\ cache' \subseteq CacheRow
         /\ \A row \in cache' : RowFits(row)
  <1> DEFINE same == {row \in cache : row.document = document[u] /\ row.model = model}
             kept == {row \in cache \ same : row.owner # u}
             fresh == [owner |-> u, document |-> document[u], model |-> model, pages |-> pages]
  <1>1. /\ UploadsFit /\ model \in OcrModels /\ cache \subseteq CacheRow /\ u \in live
        /\ \A row \in cache : RowFits(row)
    BY DEF PdfIInv, Upsert
  <1>2. pages \in Seq(Nat) /\ document[u] \in Documents
    BY <1>1 DEF UploadsFit, PagesFit
  <1>3. fresh \in CacheRow /\ RowFits(fresh)
    <2>1. fresh \in CacheRow
      BY <1>1, <1>2 DEF CacheRow
    <2>2. fresh.owner = u /\ fresh.document = document[u] /\ fresh.pages = pages
      OBVIOUS
    <2> HIDE DEF fresh
    <2>3. ASSUME NEW v \in Uploads, document[v] = fresh.document
          PROVE  PagesFit(v, pages) /\ KeepsNative(v, pages)
      <3>1. document[v] = document[u] /\ reading[v] = reading[u]
        BY <1>1, <2>2, <2>3 DEF UploadsFit
      <3> QED  BY <3>1 DEF PagesFit, KeepsNative, Placed, Shifted, WholeDocument, PageCount
    <2> QED  BY <1>1, <2>1, <2>2, <2>3 DEF RowFits
  <1>4. ASSUME NEW row \in same
        PROVE  [row EXCEPT !.owner = u] \in CacheRow /\ RowFits([row EXCEPT !.owner = u])
    <2> DEFINE moved == [row EXCEPT !.owner = u]
    <2>1. row \in CacheRow /\ RowFits(row)
      BY <1>1
    <2>2. /\ moved \in CacheRow /\ moved.owner = u
          /\ moved.document = row.document /\ moved.pages = row.pages
      BY <2>1 DEF CacheRow
    <2> HIDE DEF moved
    <2>3. RowFits(moved)
      BY <1>1, <2>1, <2>2 DEF RowFits
    <2> QED  BY <2>2, <2>3 DEF moved
  <1>5. cache' = kept \cup (IF same = {} THEN {fresh} ELSE {[row EXCEPT !.owner = u] : row \in same})
    BY DEF Upsert
  <1>6. kept \subseteq cache
    OBVIOUS
  <1> HIDE DEF same, kept, fresh
  <1>7. ASSUME NEW row \in cache'
        PROVE  row \in CacheRow /\ RowFits(row)
    <2>1. CASE row \in kept
      BY <1>1, <1>6, <2>1
    <2>2. CASE row = fresh
      BY <1>3, <2>2
    <2>3. CASE \E old \in same : row = [old EXCEPT !.owner = u]
      BY <1>4, <2>3
    <2> QED  BY <1>5, <2>1, <2>2, <2>3
  <1> QED  BY <1>7

-----------------------------------------------------------------------------
LEMMA PdfInitFits == PdfInit => PdfIInv
  <1> SUFFICES ASSUME PdfInit PROVE PdfIInv
    OBVIOUS
  <1>1. UploadsFit
    BY DEF PdfInit, UploadsFit
  <1>2. Idle \in BuildRecord
    <2>1. <<>> \in Seq(Nat) /\ 0 \in Nat /\ FALSE \in BOOLEAN /\ "idle" \in PdfStages
      BY DEF PdfStages
    <2> QED  BY <2>1, Zenon DEF BuildRecord, Idle
  <1>3. build \in [Uploads -> BuildRecord]
    BY <1>2 DEF PdfInit
  <1>4. ASSUME NEW u \in Uploads
        PROVE  BuildFits(u, build[u])
    <2>1. build[u] = Idle
      BY DEF PdfInit
    <2>2. Idle.pc = "idle" /\ Idle.pages = <<>> /\ Idle.charged = 0
      BY DEF Idle
    <2>3. PagesFit(u, <<>>)
      BY <1>1, DocumentType DEF PagesFit, Placed
    <2> QED  BY <1>1, <2>1, <2>2, <2>3, NeededType DEF BuildFits
  <1> QED  BY <1>1, <1>3, <1>4 DEF PdfInit, PdfIInv

(* What every step but a store, a deletion and a restart leaves alone.     *)
LEMMA BuildStepFits ==
  ASSUME PdfIInv, NEW u \in Uploads,
         build' \in [Uploads -> BuildRecord],
         \A v \in Uploads : v # u => build'[v] = build[v],
         BuildFits(u, build'[u]),
         document' = document, reading' = reading, model' = model, live' = live, cache' = cache
  PROVE  PdfIInv'
  <1>1. \A v \in Uploads : BuildFits(v, build[v])'
    BY BuildMoves
  <1> QED
    BY <1>1
    DEF PdfIInv, UploadsFit, RowFits, PagesFit, KeepsNative, Placed, Shifted, WholeDocument, PageCount

LEMMA PdfStepFits == PdfIInv /\ [PdfNext]_pdfVars => PdfIInv'
  <1> SUFFICES ASSUME PdfIInv, [PdfNext]_pdfVars PROVE PdfIInv'
    OBVIOUS
  <1>0. UploadsFit /\ \A u \in Uploads : BuildFits(u, build[u])
    BY DEF PdfIInv
  <1>1. ASSUME NEW u \in Uploads, Start(u) PROVE PdfIInv'
    BY <1>1, StartFits, BuildStepFits DEF Start
  <1>2. ASSUME NEW u \in Uploads, ReadNatively(u) PROVE PdfIInv'
    <2>1. CASE Finish(u, Segments(u))
      BY <1>0, <1>2, <2>1, SegmentsFit, FinishFits, BuildStepFits DEF ReadNatively
    <2>2. CASE Continue(u, "permitted")
      <3>1. build[u].pc = "reading"
        BY <1>2 DEF ReadNatively
      <3>2. /\ build' \in [Uploads -> BuildRecord]
            /\ \A v \in Uploads : v # u => build'[v] = build[v]
            /\ BuildFits(u, build'[u])
        BY <2>2, <3>1, ContinueFits
      <3> QED  BY <1>2, <3>2, BuildStepFits DEF ReadNatively
    <2>3. CASE Continue(u, "failed")
      <3>1. /\ build' \in [Uploads -> BuildRecord]
            /\ \A v \in Uploads : v # u => build'[v] = build[v]
            /\ BuildFits(u, build'[u])
        BY <2>3, ContinueFits
      <3> QED  BY <1>2, <3>1, BuildStepFits DEF ReadNatively
    <2> QED  BY <1>2, <2>1, <2>2, <2>3 DEF ReadNatively
  <1>3. ASSUME NEW u \in Uploads, ReadingFails(u) \/ OcrFails(u) PROVE PdfIInv'
    <2>1. Continue(u, "failed")
      BY <1>3 DEF ReadingFails, OcrFails
    <2>2. /\ build' \in [Uploads -> BuildRecord]
          /\ \A v \in Uploads : v # u => build'[v] = build[v]
          /\ BuildFits(u, build'[u])
      BY <2>1, ContinueFits
    <2> QED  BY <1>3, <2>2, BuildStepFits DEF ReadingFails, OcrFails
  <1>4. ASSUME NEW u \in Uploads, CacheHit(u) PROVE PdfIInv'
    <2>1. PICK row \in Hits(u) : Finish(u, row.pages)
      BY <1>4 DEF CacheHit
    <2>2. PagesFit(u, row.pages) /\ KeepsNative(u, row.pages)
      BY HitFits
    <2>3. /\ build' \in [Uploads -> BuildRecord]
          /\ \A v \in Uploads : v # u => build'[v] = build[v]
          /\ BuildFits(u, build'[u])
      BY <2>1, <2>2, FinishFits
    <2> QED  BY <1>4, <2>3, BuildStepFits DEF CacheHit
  <1>5. ASSUME NEW u \in Uploads, CacheMiss(u) PROVE PdfIInv'
    <2>1. build[u].pc = "permitted" /\ Continue(u, "calling")
      BY <1>5 DEF CacheMiss
    <2>2. /\ build' \in [Uploads -> BuildRecord]
          /\ \A v \in Uploads : v # u => build'[v] = build[v]
          /\ BuildFits(u, build'[u])
      BY <2>1, ContinueFits
    <2> QED  BY <1>5, <2>2, BuildStepFits DEF CacheMiss
  <1>6. ASSUME NEW u \in Uploads, CallOcr(u) PROVE PdfIInv'
    BY <1>6, CallFits, BuildStepFits DEF CallOcr
  <1>7. ASSUME NEW u \in Uploads, RecordUsage(u) PROVE PdfIInv'
    BY <1>7, RecordFits, BuildStepFits DEF RecordUsage
  <1>8. ASSUME NEW u \in Uploads, NotStored(u) PROVE PdfIInv'
    <2>1. PagesFit(u, build[u].pages) /\ KeepsNative(u, build[u].pages)
      BY <1>0, <1>8 DEF NotStored, BuildFits
    <2>2. /\ build' \in [Uploads -> BuildRecord]
          /\ \A v \in Uploads : v # u => build'[v] = build[v]
          /\ BuildFits(u, build'[u])
      BY <1>8, <2>1, FinishFits DEF NotStored
    <2> QED  BY <1>8, <2>2, BuildStepFits DEF NotStored
  <1>9. ASSUME NEW u \in Uploads, StoreReading(u) PROVE PdfIInv'
    <2>1. PagesFit(u, build[u].pages) /\ KeepsNative(u, build[u].pages)
      BY <1>0, <1>9 DEF StoreReading, BuildFits
    <2>2. /\ build' \in [Uploads -> BuildRecord]
          /\ \A v \in Uploads : v # u => build'[v] = build[v]
          /\ BuildFits(u, build'[u])
      BY <1>9, <2>1, FinishFits DEF StoreReading
    <2>3. cache' \subseteq CacheRow /\ \A row \in cache' : RowFits(row)
      BY <1>9, <2>1, UpsertFits DEF StoreReading
    <2>4. \A v \in Uploads : BuildFits(v, build[v])'
      BY <1>9, <2>2, BuildMoves DEF StoreReading
    <2> QED
      BY <1>9, <2>2, <2>3, <2>4
      DEF StoreReading, PdfIInv, UploadsFit, RowFits, PagesFit, KeepsNative, Placed, Shifted,
          WholeDocument, PageCount
  <1>10. ASSUME NEW u \in Uploads, DropBuild(u) PROVE PdfIInv'
    BY <1>10, DropFits, BuildStepFits DEF DropBuild
  <1>11. ASSUME NEW u \in Uploads, DeleteUpload(u) PROVE PdfIInv'
    <2>1. /\ build' = build /\ document' = document /\ reading' = reading /\ model' = model
          /\ live' = live \ {u} /\ cache' = {row \in cache : row.owner # u}
      BY <1>11 DEF DeleteUpload
    <2>2. \A v \in Uploads : BuildFits(v, build[v])'
      BY <1>0, <2>1, BuildMoves DEF PdfIInv
    <2> QED
      BY <2>1, <2>2
      DEF PdfIInv, UploadsFit, RowFits, PagesFit, KeepsNative, Placed, Shifted, WholeDocument, PageCount
  <1>12. ASSUME Reconfigure PROVE PdfIInv'
    <2>1. /\ build' = build /\ document' = document /\ reading' = reading /\ model' \in OcrModels
          /\ live' = live /\ cache' = cache
      BY <1>12 DEF Reconfigure
    <2>2. \A v \in Uploads : BuildFits(v, build[v])'
      BY <1>0, <2>1, BuildMoves DEF PdfIInv
    <2> QED
      BY <2>1, <2>2
      DEF PdfIInv, UploadsFit, RowFits, PagesFit, KeepsNative, Placed, Shifted, WholeDocument, PageCount
  <1>13. CASE UNCHANGED pdfVars
    <2>1. /\ build' = build /\ document' = document /\ reading' = reading /\ model' = model
          /\ live' = live /\ cache' = cache
      BY <1>13 DEF pdfVars
    <2>2. \A v \in Uploads : BuildFits(v, build[v])'
      BY <1>0, <2>1, BuildMoves DEF PdfIInv
    <2> QED
      BY <2>1, <2>2
      DEF PdfIInv, UploadsFit, RowFits, PagesFit, KeepsNative, Placed, Shifted, WholeDocument, PageCount
  <1> QED
    BY <1>1, <1>2, <1>3, <1>4, <1>5, <1>6, <1>7, <1>8, <1>9, <1>10, <1>11, <1>12, <1>13 DEF PdfNext

LEMMA PdfIInvImplies == PdfIInv => PdfInv
  <1> SUFFICES ASSUME PdfIInv PROVE PdfInv
    OBVIOUS
  <1>1. /\ UploadsFit /\ build \in [Uploads -> BuildRecord]
        /\ \A u \in Uploads : BuildFits(u, build[u])
    BY DEF PdfIInv
  <1>2. PdfTypeOK
    <2>1. ASSUME NEW u \in Uploads
          PROVE  /\ build[u].pc \in {"idle", "reading", "permitted", "calling", "recording",
                                     "storing", "done", "failed"}
                 /\ Len(build[u].pages) <= Len(document[u])
                 /\ Range(build[u].pages) \subseteq {NoText} \cup Number(document[u])
                 /\ build[u].processed \in Nat
      <3>1. build[u] \in BuildRecord /\ PagesFit(u, build[u].pages)
        BY <1>1 DEF BuildFits
      <3>2. build[u].pages \in Seq(Nat)
        BY <3>1 DEF PagesFit
      <3>3. Range(build[u].pages) \subseteq {NoText} \cup Number(document[u])
        BY <3>1, <3>2 DEF PagesFit, Range, Number
      <3> QED  BY <3>1, <3>3 DEF BuildRecord, PdfStages, PagesFit
    <2> QED  BY <2>1 DEF PdfTypeOK, PdfIInv
  <1>3. NativeTextIsKept
    BY <1>1 DEF NativeTextIsKept, BuildFits, KeepsNative, Number
  <1>4. ChargedWithinPermits
    BY <1>1 DEF ChargedWithinPermits, BuildFits
  <1>5. DeletedTextIsGone
    BY DEF DeletedTextIsGone, PdfIInv, RowFits
  <1> QED  BY <1>2, <1>3, <1>4, <1>5 DEF PdfInv

(* For any uploads, documents, models and limits: whatever the libraries   *)
(* read, the provider answers and the cache holds, a finished document     *)
(* has the text it had of its own, no build is charged for more than its   *)
(* permit or without an answer, and the cache holds no text of a source    *)
(* that is gone (extract_pdf, ocr_cache).                                  *)
THEOREM PagesKeepTheirText == PdfSpec => []PdfInv
  <1>1. PdfInit => PdfIInv
    BY PdfInitFits
  <1>2. PdfIInv /\ [PdfNext]_pdfVars => PdfIInv'
    BY PdfStepFits
  <1>3. PdfIInv => PdfInv
    BY PdfIInvImplies
  <1> QED  BY <1>1, <1>2, <1>3, PTL DEF PdfSpec

-----------------------------------------------------------------------------
(* The layout of a document, and the page an offset is on.                 *)

(* Where a page starts that follows one of text p, starting at s.          *)
Following(s, p) == IF s + TextLength(p) = 0 THEN 0 ELSE s + TextLength(p) + SeparatorLength

LEMMA StartsFollow ==
  ASSUME NEW pages \in Seq(Nat), pages # <<>>
  PROVE  /\ PageStarts(pages) \in [1 .. Len(pages) -> Nat]
         /\ PageStarts(pages)[1] = 0
         /\ \A i \in 2 .. Len(pages) :
              PageStarts(pages)[i] = Following(PageStarts(pages)[i - 1], pages[i - 1])
  <1> DEFINE N == Len(pages)
             Up(m) == {t \in [1 .. m -> Nat] :
                         t[1] = 0 /\ \A i \in 2 .. m : t[i] = Following(t[i - 1], pages[i - 1])}
             Bad == {m \in 1 .. N : Up(m) = {}}
  <1>1. N \in Nat /\ N >= 1
    OBVIOUS
  <1>2. \A s \in Nat, p \in Nat : Following(s, p) \in Nat
    BY PdfAssumption DEF Following, TextLength, SeparatorLength
  <1>3. \A i \in 1 .. N : pages[i] \in Nat
    OBVIOUS
  <1> HIDE DEF N
  <1>4. Up(1) # {}
    <2> DEFINE t == [i \in 1 .. 1 |-> 0]
    <2>1. t \in Up(1)
      OBVIOUS
    <2> QED  BY <2>1
  <1>5. ASSUME NEW m \in Nat, 1 <= m, m + 1 <= N, Up(m) # {}
        PROVE  Up(m + 1) # {}
    <2>1. PICK t \in Up(m) : TRUE
      BY <1>5
    <2> DEFINE last == Following(t[m], pages[m])
               u == [i \in 1 .. m + 1 |-> IF i <= m THEN t[i] ELSE last]
    <2>2. t \in [1 .. m -> Nat] /\ t[1] = 0 /\ \A i \in 2 .. m : t[i] = Following(t[i - 1], pages[i - 1])
      OBVIOUS
    <2>3. last \in Nat
      <3>1. t[m] \in Nat /\ pages[m] \in Nat
        BY <1>1, <1>3, <1>5, <2>2
      <3> QED  BY <1>2, <3>1
    <2>4. last = Following(t[m], pages[m])
      OBVIOUS
    <2> HIDE DEF last
    <2>5. u \in [1 .. m + 1 -> Nat] /\ u[1] = 0
      BY <1>5, <2>2, <2>3
    <2>6. ASSUME NEW i \in 2 .. m + 1 PROVE u[i] = Following(u[i - 1], pages[i - 1])
      <3>1. CASE i <= m
        <4>1. u[i] = t[i] /\ u[i - 1] = t[i - 1] /\ i \in 2 .. m
          BY <1>5, <3>1
        <4> QED  BY <2>2, <4>1
      <3>2. CASE i = m + 1
        <4>1. u[i] = last /\ u[i - 1] = t[m] /\ i - 1 = m
          BY <1>5, <3>2
        <4> QED  BY <2>4, <4>1
      <3> QED  BY <1>5, <3>1, <3>2
    <2> HIDE DEF u
    <2>7. u \in Up(m + 1)
      BY <2>5, <2>6
    <2> QED  BY <2>7
  <1> HIDE DEF Up
  <1>6. Bad = {}
    <2> SUFFICES ASSUME Bad # {} PROVE FALSE
      OBVIOUS
    <2>1. Bad \subseteq Nat
      BY <1>1
    <2>2. PICK m \in Bad : \A k \in Bad : m <= k
      BY <2>1, LeastOf
    <2>3. m \in 1 .. N /\ Up(m) = {} /\ m # 1
      BY <1>4, <2>2
    <2>4. m - 1 \in 1 .. N /\ m - 1 \notin Bad /\ (m - 1) + 1 = m
      BY <1>1, <2>2, <2>3
    <2>5. Up(m - 1) # {}
      BY <2>4
    <2> QED  BY <1>1, <1>5, <2>3, <2>4, <2>5
  <1>7. N \in 1 .. N
    BY <1>1
  <1>8. PICK t \in Up(N) : TRUE
    BY <1>6, <1>7
  <1>9. t \in [1 .. N -> Nat] /\ t[1] = 0 /\ \A i \in 2 .. N : t[i] = Following(t[i - 1], pages[i - 1])
    BY DEF Up
  <1> DEFINE Fill(s) == [i \in 1 .. Len(pages) |->
                           IF i = 1 THEN 0
                           ELSE IF s[i - 1] + TextLength(pages[i - 1]) = 0 THEN 0
                                ELSE s[i - 1] + TextLength(pages[i - 1]) + SeparatorLength]
             T == PageStarts(pages)
  <1>10. \A s : Fill(s) = [i \in 1 .. N |-> IF i = 1 THEN 0 ELSE Following(s[i - 1], pages[i - 1])]
    BY DEF Following, N
  <1>11. T = CHOOSE s : s = Fill(s)
    BY DEF PageStarts
  <1> HIDE DEF Fill, T
  <1>12. t = Fill(t)
    <2>1. \A i \in 1 .. N : i = 1 \/ i \in 2 .. N
      BY <1>1
    <2> QED  BY <1>9, <1>10, <2>1
  <1>13. T = Fill(T)
    BY <1>11, <1>12
  <1>14. T = [i \in 1 .. N |-> IF i = 1 THEN 0 ELSE Following(T[i - 1], pages[i - 1])]
    BY <1>10, <1>13
  <1>15. T[1] = 0 /\ \A i \in 2 .. N : T[i] = Following(T[i - 1], pages[i - 1])
    <2>1. 1 \in 1 .. N /\ \A i \in 2 .. N : i \in 1 .. N /\ i # 1
      BY <1>1
    <2> QED  BY <1>14, <2>1
  <1> DEFINE Off == {m \in 1 .. N : T[m] \notin Nat}
  <1>16. Off = {}
    <2> SUFFICES ASSUME Off # {} PROVE FALSE
      OBVIOUS
    <2>1. Off \subseteq Nat
      BY <1>1
    <2>2. PICK m \in Off : \A k \in Off : m <= k
      BY <2>1, LeastOf
    <2>3. m \in 1 .. N /\ m # 1 /\ T[m] \notin Nat
      BY <1>15, <2>2
    <2>4. m \in 2 .. N /\ m - 1 \in 1 .. N /\ m - 1 \notin Off
      BY <1>1, <2>2, <2>3
    <2>5. T[m - 1] \in Nat /\ pages[m - 1] \in Nat
      BY <1>3, <2>4
    <2> QED  BY <1>2, <1>15, <2>3, <2>4, <2>5
  <1>17. T \in [1 .. N -> Nat]
    BY <1>14, <1>16
  <1> QED  BY <1>15, <1>17 DEF N, T

(* Pages start one after the other, and the next one after a page's text.  *)
LEMMA StartsAscend ==
  ASSUME NEW pages \in Seq(Nat), NEW i \in 1 .. Len(pages), NEW k \in 1 .. Len(pages)
  PROVE  /\ PageStarts(pages)[i] \in Nat /\ PageStarts(pages)[k] \in Nat
         /\ k <= i => PageStarts(pages)[k] <= PageStarts(pages)[i]
         /\ i < k /\ pages[i] # NoText =>
              PageStarts(pages)[i] + PageLength <= PageStarts(pages)[k] /\ PageStarts(pages)[k] # PageStarts(pages)[i] + PageLength
  <1> DEFINE S == PageStarts(pages)
             N == Len(pages)
  <1>1. N \in Nat /\ pages # <<>> /\ \A j \in 1 .. N : pages[j] \in Nat
    OBVIOUS
  <1>2. S \in [1 .. N -> Nat] /\ \A j \in 2 .. N : S[j] = Following(S[j - 1], pages[j - 1])
    BY <1>1, StartsFollow
  <1> HIDE DEF S, N
  <1>3. ASSUME NEW s \in Nat, NEW p \in Nat
        PROVE  s <= Following(s, p) /\ (p # NoText => s + PageLength < Following(s, p))
    BY PdfAssumption DEF Following, TextLength, SeparatorLength, NoText
  <1>4. ASSUME NEW j \in 2 .. N
        PROVE  /\ S[j - 1] \in Nat /\ S[j] \in Nat /\ S[j - 1] <= S[j]
               /\ pages[j - 1] # NoText => S[j - 1] + PageLength < S[j]
    <2>1. j - 1 \in 1 .. N /\ j \in 1 .. N
      BY <1>1
    <2>2. S[j - 1] \in Nat /\ pages[j - 1] \in Nat /\ S[j] \in Nat
      BY <1>1, <1>2, <2>1
    <2> QED  BY <1>2, <1>3, <2>2
  <1>5. ASSUME NEW a \in 1 .. N, NEW b \in 1 .. N, a <= b
        PROVE  S[a] <= S[b]
    <2> DEFINE Lower == {c \in 1 .. N : a <= c /\ ~(S[a] <= S[c])}
    <2>1. Lower = {}
      <3> SUFFICES ASSUME Lower # {} PROVE FALSE
        OBVIOUS
      <3>1. Lower \subseteq Nat
        BY <1>1
      <3>2. PICK c \in Lower : \A d \in Lower : c <= d
        BY <3>1, LeastOf
      <3>3. c \in 1 .. N /\ a <= c /\ ~(S[a] <= S[c]) /\ S[a] \in Nat
        BY <1>2, <3>2
      <3>4. c # a
        BY <3>3
      <3>5. c \in 2 .. N /\ c - 1 \in 1 .. N /\ a <= c - 1 /\ ~(c <= c - 1)
        BY <1>1, <3>3, <3>4
      <3>6. S[a] <= S[c - 1]
        BY <3>2, <3>5
      <3>7. S[c - 1] \in Nat /\ S[c] \in Nat /\ S[c - 1] <= S[c]
        BY <1>4, <3>5
      <3> QED  BY <3>3, <3>6, <3>7
    <2> QED  BY <1>5, <2>1
  <1>6. S[i] \in Nat /\ S[k] \in Nat
    BY <1>2 DEF N
  <1>7. ASSUME i < k, pages[i] # NoText
        PROVE  S[i] + PageLength < S[k]
    <2>1. i \in Nat /\ k \in Nat /\ k <= N /\ i >= 1 /\ i \in 1 .. N /\ k \in 1 .. N
      BY <1>1 DEF N
    <2>2. i + 1 \in 2 .. N /\ (i + 1) - 1 = i /\ i + 1 <= k /\ i + 1 \in 1 .. N
      BY <1>1, <1>7, <2>1
    <2>3. S[i] + PageLength < S[i + 1] /\ S[i + 1] \in Nat
      <3>1. S[(i + 1) - 1] + PageLength < S[i + 1] /\ S[i + 1] \in Nat
        BY <1>4, <1>7, <2>2
      <3> QED  BY <2>2, <3>1
    <2>4. S[i + 1] <= S[k]
      BY <1>5, <2>1, <2>2
    <2> QED  BY <1>6, <2>3, <2>4, PdfAssumption
  <1>8. k <= i => S[k] <= S[i]
    BY <1>5 DEF N
  <1> QED  BY <1>6, <1>7, <1>8, PdfAssumption DEF S

(* An offset within the text of a page is on that page.                    *)
LEMMA OffsetsFindTheirPage ==
  ASSUME NEW pages \in Seq(Nat), NEW i \in 1 .. Len(pages), pages[i] # NoText,
         NEW offset \in PageStarts(pages)[i] .. PageStarts(pages)[i] + PageLength - 1
  PROVE  PageFor(pages, offset) = i
  <1> DEFINE S == PageStarts(pages)
             N == Len(pages)
             B == {k \in 1 .. N : S[k] <= offset}
  <1>1. N \in Nat /\ i \in Nat /\ i >= 1 /\ i <= N
    OBVIOUS
  <1>2. S[i] \in Nat /\ offset \in Nat /\ S[i] <= offset /\ offset < S[i] + PageLength
    <2>1. S[i] \in Nat
      BY StartsAscend
    <2> QED  BY <2>1, PdfAssumption
  <1>3. ASSUME NEW k \in 1 .. N
        PROVE  S[k] <= offset <=> k <= i
    <2>1. /\ S[k] \in Nat
          /\ k <= i => S[k] <= S[i]
          /\ i < k => S[i] + PageLength <= S[k]
      BY StartsAscend
    <2> HIDE DEF S
    <2>2. k \in Nat /\ PageLength \in Nat
      BY <1>1, PdfAssumption
    <2> QED  BY <1>1, <1>2, <2>1, <2>2
  <1>4. B = 1 .. i
    <2> HIDE DEF S
    <2> QED  BY <1>1, <1>3
  <1>5. Cardinality(1 .. i) = i /\ 1 .. i # {}
    <2>1. 1 \in Int /\ i \in Int /\ 1 \in 1 .. i
      BY <1>1
    <2>2. Cardinality(1 .. i) = IF 1 > i THEN 0 ELSE i - 1 + 1
      BY <2>1, FS_Interval
    <2>3. ~(1 > i) /\ i - 1 + 1 = i
      BY <1>1
    <2> QED  BY <2>1, <2>2, <2>3
  <1>6. PageFor(pages, offset) = IF B = {} THEN 1 ELSE Cardinality(B)
    BY DEF PageFor, Number
  <1> HIDE DEF B
  <1> QED  BY <1>4, <1>5, <1>6

LEMMA CitationsFollow == PdfIInv => CitationsOpenTheirPage
  <1> SUFFICES ASSUME PdfIInv, NEW u \in Uploads, build[u].pc = "done",
                      NEW i \in Number(build[u].pages), build[u].pages[i] # NoText,
                      NEW j \in Number(build[u].pages), build[u].pages[j] # NoText, i <= j,
                      NEW start \in PageStarts(build[u].pages)[i] ..
                                      PageStarts(build[u].pages)[i] + PageLength - 1,
                      NEW end \in PageStarts(build[u].pages)[j] + 1 ..
                                    PageStarts(build[u].pages)[j] + PageLength,
                      start < end
               PROVE  IF WholeDocument(u) /\ Len(build[u].pages) < Len(document[u])
                      THEN /\ PagesFor(build[u].pages, start, end)[1] <= build[u].pages[i]
                           /\ PagesFor(build[u].pages, start, end)[2] <= build[u].pages[j]
                      ELSE PagesFor(build[u].pages, start, end) =
                             <<build[u].pages[i], build[u].pages[j]>>
    BY DEF CitationsOpenTheirPage
  <1> DEFINE pages == build[u].pages
  <1>1. PagesFit(u, pages)
    BY DEF PdfIInv, BuildFits
  <1>2. pages \in Seq(Nat) /\ i \in 1 .. Len(pages) /\ j \in 1 .. Len(pages)
    BY <1>1 DEF PagesFit, Number
  <1>3. /\ i <= pages[i] /\ j <= pages[j]
        /\ ~Shifted(u, pages) => pages[i] = i /\ pages[j] = j
    BY <1>1, <1>2 DEF PagesFit, Placed
  <1>4. PageFor(pages, start) = i
    BY <1>2, OffsetsFindTheirPage
  <1>5. PageFor(pages, IF end - 1 > start THEN end - 1 ELSE start) = j
    <2>1. PageStarts(pages)[i] \in Nat /\ PageStarts(pages)[j] \in Nat
      BY <1>2, StartsAscend
    <2> DEFINE a == PageStarts(pages)[i]
               b == PageStarts(pages)[j]
    <2>2. start \in a .. a + PageLength - 1 /\ end \in b + 1 .. b + PageLength
      OBVIOUS
    <2>3. a \in Nat /\ b \in Nat
      BY <2>1
    <2> HIDE DEF a, b
    <2>4. /\ end - 1 \in b .. b + PageLength - 1
          /\ (IF end - 1 > start THEN end - 1 ELSE start) = end - 1
      BY <2>2, <2>3, PdfAssumption
    <2>5. PageFor(pages, end - 1) = j
      <3>1. end - 1 \in PageStarts(pages)[j] .. PageStarts(pages)[j] + PageLength - 1
        BY <2>4 DEF b
      <3> QED  BY <1>2, <3>1, OffsetsFindTheirPage
    <2> QED  BY <2>4, <2>5
  <1>6. PagesFor(pages, start, end) = <<i, j>>
    BY <1>4, <1>5 DEF PagesFor
  <1> HIDE DEF pages
  <1>7. CASE Shifted(u, pages)
    BY <1>3, <1>6, <1>7 DEF Shifted, pages
  <1>8. CASE ~Shifted(u, pages)
    BY <1>3, <1>6, <1>8 DEF Shifted, pages
  <1> QED  BY <1>7, <1>8

(* For any uploads, documents, models and limits: whatever was read,       *)
(* recognised and cached, a passage anywhere in a finished document is     *)
(* cited with the pages its text stands on, and where the provider left    *)
(* pages of a whole document out, with an earlier page at worst            *)
(* (SourceLayout, page_for_offset, merge_ocr_pages).                       *)
THEOREM CitationsLand == PdfSpec => []CitationsOpenTheirPage
  <1>1. PdfInit => PdfIInv
    BY PdfInitFits
  <1>2. PdfIInv /\ [PdfNext]_pdfVars => PdfIInv'
    BY PdfStepFits
  <1>3. PdfIInv => CitationsOpenTheirPage
    BY CitationsFollow
  <1> QED  BY <1>1, <1>2, <1>3, PTL DEF PdfSpec

=============================================================================
