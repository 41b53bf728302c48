------------------------- MODULE ServerTasksProofs -------------------------
(***************************************************************************)
(* Proofs about the tasks the server must account for when it stops, for   *)
(* any number of requests and of units of work: what a drain leaves        *)
(* behind, whom an abort reaches, and whether the report of a run's drain  *)
(* is true; and about EmbedPipeline, for any number of batches, any        *)
(* concurrency and any capacity of the channel: the errors reported are    *)
(* the causes, a success leaves nothing behind, and the stage keeps the    *)
(* contract of EmbedAndStore.                                              *)
(***************************************************************************)
EXTENDS ShutdownCoordinator, IngestionTasks, EmbedPipeline, NotebookMemory,
        FiniteSetTheorems, SequenceTheorems, TLAPS

-----------------------------------------------------------------------------
(* The coordinator.                                                        *)

(* A place reserved is in held until its task is registered.               *)
AdmittedHold == \A r \in Requests : call[r] = "admitted" => r \in held

(* begin_shutdown refuses admissions first and cancels last, so whoever    *)
(* sees the token cancelled knows that nobody is admitted any more.        *)
CancelledRefuses ==
  /\ closing # "no" => ~accepting
  /\ cancelled => closing = "done"

DrainedStaysQuiet == runner = "drained" => cancelled /\ held = {} /\ Tracked = {}

(* Once forced, the registered tasks are among those whose handles were    *)
(* cloned, and then among those told to stop.                              *)
ForcedHasAll ==
  /\ runner = "aborting" => forced /\ aborts \subseteq toAbort
  /\ runner = "stopped" => forced /\ aborts \subseteq aborted

CoordIInv ==
  /\ CoordTypeOK /\ AdmittedHold /\ CancelledRefuses
  /\ DrainedStaysQuiet /\ ForcedHasAll /\ AdmittedIsKept

LEMMA CoordInitially == CoordInit => CoordIInv
BY ZenonT(40) DEF CoordInit, CoordIInv, CoordTypeOK, AdmittedHold, CancelledRefuses, DrainedStaysQuiet,
       ForcedHasAll, AdmittedIsKept, InFlight, InTask

(* A request's step: the only ones that add a reservation or a task ask    *)
(* accepting and forced first.                                             *)
LEMMA RequestKeeps ==
  ASSUME CoordIInv, NEW r \in Requests, RequestStep(r)
  PROVE  CoordIInv'
<1> USE DEF CoordIInv, CoordTypeOK, AdmittedHold, CancelledRefuses, DrainedStaysQuiet,
            ForcedHasAll, AdmittedIsKept, InFlight, InTask, lifecycle, signals, main, requests
<1>1. CASE TryAdmit(r)
  BY <1>1 DEF TryAdmit, Tracked
<1>2. CASE SpawnAdmitted(r)
  BY <1>2 DEF SpawnAdmitted, Tracked
<1>3. CASE DropReservation(r)
  BY <1>3 DEF DropReservation, Tracked
<1>4. CASE SpawnRejected(r)
  BY <1>4 DEF SpawnRejected, Tracked
<1>5. CASE Respond(r)
  BY <1>5 DEF Respond, Tracked
<1>6. CASE DropRequest(r)
  BY <1>6 DEF DropRequest, Tracked
<1> QED BY <1>1, <1>2, <1>3, <1>4, <1>5, <1>6 DEF RequestStep

(* A task's step only takes tasks away.                                    *)
LEMMA TaskKeeps ==
  ASSUME CoordIInv, NEW r \in Requests, TaskStep(r)
  PROVE  CoordIInv'
<1> USE DEF CoordIInv, CoordTypeOK, AdmittedHold, CancelledRefuses, DrainedStaysQuiet,
            ForcedHasAll, AdmittedIsKept, InFlight, InTask, lifecycle, signals, main, requests
<1>1. ASSUME NEW to \in InTask, NEW answer \in {"response", "dropped"}, StepTask(r, to, answer),
             task[r] \in InTask
      PROVE  CoordIInv'
  BY <1>1 DEF StepTask, Tracked
<1>2. CASE Unregister(r)
  BY <1>2 DEF Unregister, Tracked
<1>3. CASE Leave(r)
  BY <1>3 DEF Leave, Tracked
<1> QED
  BY <1>1, <1>2, <1>3 DEF TaskStep, Prepared, PreparationCancelled, JobEnds, Unwind

(* The runner's step: the drain waits for the tracker, the abort starts    *)
(* from the handles cloned under the mutex that set forced.                *)
LEMMA MainKeeps ==
  ASSUME CoordIInv, MainStep
  PROVE  CoordIInv'
<1> USE DEF CoordIInv, CoordTypeOK, AdmittedHold, CancelledRefuses, DrainedStaysQuiet,
            ForcedHasAll, AdmittedIsKept, lifecycle, signals, main, requests, Advance
<1>1. CASE Signal
  BY <1>1 DEF Signal, CloseAdmission, Tracked
<1>2. CASE SeeServerExit
  BY <1>2 DEF SeeServerExit, CloseAdmission, Tracked
<1>7. CASE CloseTracker
  BY <1>7 DEF CloseTracker, Tracked
<1>8. CASE CancelRoot
  BY <1>8 DEF CancelRoot, Tracked
<1>9. CASE ServerExits
  BY <1>9 DEF ServerExits, Tracked
<1>3. CASE SeeShutdown
  BY <1>3 DEF SeeShutdown, Tracked
<1>4. CASE DrainEnds
  BY <1>4 DEF DrainEnds, TrackerDone, Tracked
<1>5. CASE DrainTimesOut
  BY <1>5 DEF DrainTimesOut, Tracked
<1>6. CASE AbortRemaining
  BY <1>6 DEF AbortRemaining, Tracked
<1> QED BY <1>1, <1>2, <1>3, <1>4, <1>5, <1>6, <1>7, <1>8, <1>9 DEF MainStep

(* A drain that ended in time left no reservation and no task behind, a    *)
(* forced stop told every registered task, and a request that was admitted *)
(* loses its task only to a forced stop, however requests, tasks, the      *)
(* signal and the timer interleave.                                        *)
THEOREM CoordinatorKeepsAccount == CoordSpec => []CoordInv
<1>1. CoordIInv /\ [CoordNext]_coordVars => CoordIInv'
  <2> SUFFICES ASSUME CoordIInv, [CoordNext]_coordVars PROVE CoordIInv'
    OBVIOUS
  <2>1. CASE UNCHANGED coordVars
    BY <2>1 DEF CoordIInv, CoordTypeOK, AdmittedHold, CancelledRefuses, DrainedStaysQuiet, ForcedHasAll,
                AdmittedIsKept, Tracked, coordVars, lifecycle, signals, requests, main
  <2> QED BY <2>1, RequestKeeps, TaskKeeps, MainKeeps DEF CoordNext
<1>2. CoordIInv => CoordInv
  BY DEF CoordIInv, CoordInv, DrainedStaysQuiet, DrainedMeansQuiet, ForcedHasAll, ForcedReachesAll
<1> QED BY <1>1, <1>2, CoordInitially, PTL DEF CoordSpec

-----------------------------------------------------------------------------
(* The units of an ingestion run.                                          *)

(* What the registry knows: every started unit has its handle, and the     *)
(* blocking counter holds exactly the closures that may still run.         *)
RegistryOK ==
  /\ \A u \in Units : unit[u] # "new" => u \in handles
  /\ counted = MayStillRun
  /\ forcedEnd \subseteq abortAsked

(* What the report holds at each stage of the drain.                       *)
ReportOK ==
  /\ owner # "building" => report.spawned = Cardinality(handles)
  /\ owner \in {"building", "draining"} => report.within
  /\ owner \in {"waited", "reported"} /\ report.within => InTracker = {}
  /\ owner \in {"late", "counted"} => ~report.within
  /\ owner \in {"late", "counted", "reported"} => Cardinality(counted) <= report.blocking
  /\ abortAsked # {} => owner = "reported" /\ ~report.within
  /\ owner \in {"counted", "reported"} /\ ~report.within
       => Cardinality(forcedEnd \cup InTracker) <= report.abandoned
  /\ owner \in {"building", "draining", "waited", "late"} => report.abandoned = 0
  /\ report.abandoned <= report.spawned

IngestIInv == IngestTypeOK /\ RegistryOK /\ ReportOK

(* Every set the report counts is a finite set of units.                   *)
LEMMA UnitCounts ==
  ASSUME NEW S \in SUBSET Units, NEW T \in SUBSET S
  PROVE  /\ IsFiniteSet(S) /\ Cardinality(S) \in Nat /\ Cardinality(T) \in Nat
         /\ Cardinality(T) <= Cardinality(S)
<1>1. IsFiniteSet(Units)
  BY UnitsAssumption, FS_Union DEF Units
<1>2. IsFiniteSet(S)
  BY <1>1, FS_Subset
<1> QED BY <1>2, FS_Subset, FS_CardinalityType

LEMMA IngestInitially == IngestInit => IngestIInv
<1> SUFFICES ASSUME IngestInit PROVE IngestIInv
  OBVIOUS
<1>1. Cardinality({}) = 0
  BY FS_EmptySet
<1>2. IngestTypeOK /\ RegistryOK
  BY DEF IngestInit, IngestTypeOK, RegistryOK, MayStillRun, Units
<1>3. ReportOK
  BY <1>1 DEF IngestInit, ReportOK
<1> QED BY <1>2, <1>3 DEF IngestIInv

(* A unit's step that starts nothing: what is tracked and what was killed  *)
(* only shrinks, so every number already in the report stays enough.       *)
LEMMA UnitEffect ==
  ASSUME IngestIInv, NEW u \in Units,
         StartClosure(u) \/ UnitEnds(u) \/ LeaveTracker(u) \/ AbortTakesEffect(u)
  PROVE  /\ IngestTypeOK' /\ RegistryOK'
         /\ UNCHANGED <<handles, abortAsked, owner, report>>
         /\ counted' \subseteq counted /\ InTracker' \subseteq InTracker
         /\ forcedEnd' \cup InTracker' \subseteq forcedEnd \cup InTracker
<1> USE DEF IngestIInv, IngestTypeOK, RegistryOK, Set
<1>0. /\ unit \in [Units -> {"new", "queued", "running", "returned", "gone"}]
      /\ AsyncUnits \cap Closures = {} /\ Closures \subseteq Units
  BY UnitsAssumption DEF Units
<1>1. CASE StartClosure(u)
  BY <1>0, <1>1 DEF StartClosure, MayStillRun, InTracker
<1>2. CASE UnitEnds(u)
  BY <1>0, <1>2 DEF UnitEnds, MayStillRun, InTracker
<1>3. CASE LeaveTracker(u)
  BY <1>0, <1>3 DEF LeaveTracker, MayStillRun, InTracker
<1>4. CASE AbortTakesEffect(u)
  BY <1>0, <1>4 DEF AbortTakesEffect, MayStillRun, InTracker
<1> QED BY <1>1, <1>2, <1>3, <1>4

LEMMA UnitKeeps ==
  ASSUME IngestIInv, NEW u \in Units, UnitStep(u)
  PROVE  IngestIInv'
<1> USE DEF IngestIInv
<1>1. CASE Spawn(u) \/ SpawnBlocking(u)
  <2>1. owner = "building" /\ UNCHANGED <<owner, report, abortAsked, forcedEnd>>
    BY <1>1 DEF Spawn, SpawnBlocking
  <2>2. IngestTypeOK' /\ RegistryOK'
    BY <1>1, UnitsAssumption DEF Spawn, SpawnBlocking, Set, IngestTypeOK, RegistryOK, MayStillRun, Units
  <2>3. ReportOK'
    BY <2>1 DEF ReportOK
  <2> QED BY <2>2, <2>3
<1>2. CASE StartClosure(u) \/ UnitEnds(u) \/ LeaveTracker(u) \/ AbortTakesEffect(u)
  <2>1. /\ IngestTypeOK' /\ RegistryOK'
        /\ UNCHANGED <<handles, abortAsked, owner, report>>
        /\ counted' \subseteq counted /\ InTracker' \subseteq InTracker
        /\ forcedEnd' \cup InTracker' \subseteq forcedEnd \cup InTracker
    BY <1>2, UnitEffect
  <2>2. /\ Cardinality(counted') <= Cardinality(counted)
        /\ Cardinality(counted') \in Nat /\ Cardinality(counted) \in Nat
    BY <2>1, UnitCounts DEF IngestTypeOK, Units
  <2>3. /\ Cardinality(forcedEnd' \cup InTracker') <= Cardinality(forcedEnd \cup InTracker)
        /\ Cardinality(forcedEnd' \cup InTracker') \in Nat
        /\ Cardinality(forcedEnd \cup InTracker) \in Nat
    BY <2>1, UnitCounts DEF IngestTypeOK, InTracker
  <2>4. report.blocking \in Nat /\ report.abandoned \in Nat
    BY DEF IngestTypeOK
  <2>5. ReportOK'
    BY <2>1, <2>2, <2>3, <2>4 DEF ReportOK
  <2> QED BY <2>1, <2>5
<1> QED BY <1>1, <1>2 DEF UnitStep

LEMMA DrainKeeps ==
  ASSUME IngestIInv, DrainStep
  PROVE  IngestIInv'
<1> USE DEF IngestIInv, OwnerStep
<1>1. /\ UNCHANGED <<unit, counted, handles, forcedEnd>>
      /\ owner' \in {"draining", "waited", "late", "counted", "reported"}
  BY DEF DrainStep, BeginDrain, WaitEnds, ReadInFlight, CountAbandoned, RequestAborts
<1>2. /\ Cardinality(handles) \in Nat /\ Cardinality(counted) \in Nat
      /\ Cardinality(InTracker) \in Nat /\ Cardinality(InTracker) <= Cardinality(handles)
  <2>1. handles \subseteq Units /\ counted \subseteq Units /\ InTracker \subseteq handles
    BY DEF IngestTypeOK, RegistryOK, InTracker, Units
  <2> QED BY <2>1, UnitCounts
<1>3. /\ report \in [spawned : Nat, blocking : Nat, within : BOOLEAN, abandoned : Nat]
      /\ abortAsked \subseteq Units
  BY DEF IngestTypeOK
<1>4. InTracker' = InTracker /\ MayStillRun' = MayStillRun
  BY <1>1 DEF InTracker, MayStillRun
<1>5. forcedEnd # {} => owner = "reported"
  BY DEF RegistryOK, ReportOK
<1>6. CASE BeginDrain
  <2>1. IngestTypeOK' /\ RegistryOK'
    BY <1>1, <1>2, <1>3, <1>4, <1>6 DEF BeginDrain, IngestTypeOK, RegistryOK
  <2>2. ReportOK'
    BY <1>1, <1>2, <1>3, <1>4, <1>6 DEF BeginDrain, ReportOK
  <2> QED BY <2>1, <2>2
<1>7. CASE WaitEnds
  <2>1. IngestTypeOK' /\ RegistryOK'
    BY <1>1, <1>3, <1>4, <1>7 DEF WaitEnds, IngestTypeOK, RegistryOK
  <2>2. ReportOK'
    BY <1>1, <1>3, <1>4, <1>7 DEF WaitEnds, ReportOK
  <2> QED BY <2>1, <2>2
<1>8. CASE ReadInFlight
  <2>1. IngestTypeOK' /\ RegistryOK'
    BY <1>1, <1>2, <1>3, <1>4, <1>8 DEF ReadInFlight, IngestTypeOK, RegistryOK
  <2>2. ReportOK'
    BY <1>1, <1>2, <1>3, <1>4, <1>8 DEF ReadInFlight, ReportOK
  <2> QED BY <2>1, <2>2
<1>9. CASE CountAbandoned
  <2>1. IngestTypeOK' /\ RegistryOK'
    BY <1>1, <1>2, <1>3, <1>4, <1>9 DEF CountAbandoned, IngestTypeOK, RegistryOK
  <2>2. forcedEnd \cup InTracker = InTracker
    BY <1>5, <1>9 DEF CountAbandoned
  <2>3. /\ owner = "late" /\ owner' = "counted" /\ abortAsked' = abortAsked
        /\ report' = [report EXCEPT !.abandoned = Cardinality(InTracker)]
    BY <1>9 DEF CountAbandoned
  <2>4. Cardinality(forcedEnd' \cup InTracker') = report'.abandoned
    BY <1>1, <1>3, <1>4, <2>2, <2>3
  <2>5. ReportOK'
    BY <1>1, <1>2, <1>3, <2>3, <2>4 DEF ReportOK
  <2> QED BY <2>1, <2>5
<1>10. CASE RequestAborts
  <2>1. IngestTypeOK' /\ RegistryOK'
    BY <1>1, <1>3, <1>4, <1>5, <1>10 DEF RequestAborts, IngestTypeOK, RegistryOK
  <2>2. ReportOK'
    BY <1>1, <1>3, <1>4, <1>10 DEF RequestAborts, ReportOK
  <2> QED BY <2>1, <2>2
<1> QED BY <1>6, <1>7, <1>8, <1>9, <1>10 DEF DrainStep

(* What the drain of a run tells its caller is true when it returns and    *)
(* stays true: clean means stopped, every closure that may still run and   *)
(* every killed unit is counted, and the counts add up.                    *)
THEOREM DrainReportsHold == IngestSpec => []IngestInv
<1>1. IngestIInv /\ [IngestNext]_ingestVars => IngestIInv'
  <2> SUFFICES ASSUME IngestIInv, [IngestNext]_ingestVars PROVE IngestIInv'
    OBVIOUS
  <2>1. CASE UNCHANGED ingestVars
    BY <2>1 DEF IngestIInv, IngestTypeOK, RegistryOK, ReportOK, MayStillRun, InTracker, ingestVars
  <2> QED BY <2>1, UnitKeeps, DrainKeeps DEF IngestNext
<1>2. IngestIInv => IngestInv
  <2> SUFFICES ASSUME IngestIInv, owner = "reported"
               PROVE  CleanMeansStopped /\ BlockingIsCounted /\ KilledAreAbandoned /\ ReportAddsUp
    BY DEF IngestIInv, IngestInv, DrainReportIsHonest
  <2>1. /\ Cardinality(forcedEnd) \in Nat /\ Cardinality(forcedEnd \cup InTracker) \in Nat
        /\ Cardinality(forcedEnd) <= Cardinality(forcedEnd \cup InTracker)
        /\ Cardinality({}) = 0
    BY UnitCounts, FS_EmptySet DEF IngestIInv, IngestTypeOK, InTracker
  <2>2. report.within => forcedEnd = {} /\ InTracker = {}
    BY DEF IngestIInv, ReportOK, RegistryOK
  <2>3. report \in [spawned : Nat, blocking : Nat, within : BOOLEAN, abandoned : Nat]
    BY DEF IngestIInv, IngestTypeOK
  <2>4. CleanMeansStopped
    BY <2>2 DEF CleanMeansStopped
  <2>5. BlockingIsCounted
    BY DEF IngestIInv, ReportOK, RegistryOK, BlockingIsCounted
  <2>6. KilledAreAbandoned
    BY <2>1, <2>2, <2>3 DEF IngestIInv, ReportOK, KilledAreAbandoned
  <2>7. ReportAddsUp
    BY DEF IngestIInv, ReportOK, ReportAddsUp
  <2> QED BY <2>4, <2>5, <2>6, <2>7
<1> QED BY <1>1, <1>2, IngestInitially, PTL DEF IngestSpec

-----------------------------------------------------------------------------
(* The embedding pipeline.                                                 *)

(* The initial state satisfies the invariant: every batch waits.           *)
LEMMA PipeInitially == PipeInit => PipeSafe
BY DEF PipeInit, PipeSafe, PipeTypeOK, PipeInv, CauseIsReported, NothingBehindSuccess,
       In, InProducer, Places, Errors, Troubled

(* The producer's steps keep the invariant.                                *)
LEMMA ProducerKeepsSafe ==
  ASSUME PipeSafe,
         \/ \E b \in Batches : StartBatch(b) \/ Send(b) \/ EmbedAnswers(b)
         \/ ProviderFails \/ BatchCancelled \/ SendFails \/ AllSent
         \/ ProducerEnds \/ AbortProducer
  PROVE  PipeSafe'
<1> USE DEF PipeSafe, PipeTypeOK, PipeInv, CauseIsReported, NothingBehindSuccess,
            In, InProducer, Places, Errors, Troubled,
            producerVars, consumerVars, reportVars
<1>1. ASSUME NEW b \in Batches, StartBatch(b) PROVE PipeSafe'
  BY <1>1 DEF StartBatch, Move
<1>2. ASSUME NEW b \in Batches, Send(b) PROVE PipeSafe'
  BY <1>2 DEF Send, Move
<1>3. ASSUME NEW b \in Batches, EmbedAnswers(b) PROVE PipeSafe'
  BY <1>3 DEF EmbedAnswers, Move
<1>4. CASE ProviderFails
  BY <1>4 DEF ProviderFails, Collect, Drop
<1>5. CASE BatchCancelled
  BY <1>5 DEF BatchCancelled, Collect, Drop
<1>6. CASE SendFails
  BY <1>6 DEF SendFails, Collect, Drop
<1>7. CASE AllSent
  BY <1>7 DEF AllSent, Collect, Drop
<1>8. CASE ProducerEnds
  BY <1>8 DEF ProducerEnds
<1>9. CASE AbortProducer
  BY <1>9 DEF AbortProducer, Drop
<1> QED BY <1>1, <1>2, <1>3, <1>4, <1>5, <1>6, <1>7, <1>8, <1>9

(* So do the consumer's.                                                   *)
LEMMA ConsumerKeepsSafe ==
  ASSUME PipeSafe, ConsumerStep
  PROVE  PipeSafe'
<1> USE DEF PipeSafe, PipeTypeOK, PipeInv, CauseIsReported, NothingBehindSuccess,
            In, InProducer, Places, Errors, Troubled,
            producerVars, consumerVars, reportVars
<1>1. CASE Receive
  BY <1>1 DEF Receive, Move
<1>2. CASE SeeCancelled
  BY <1>2 DEF SeeCancelled
<1>3. CASE SeeEnd
  BY <1>3 DEF SeeEnd
<1>4. CASE StoreOk
  <2>1. /\ outcome = "running" /\ consumer' = "receiving" /\ outcome' = "running"
        /\ consumer = "storing" /\ rxOpen /\ rxOpen'
        /\ UNCHANGED <<producer, result, storageFailed, token, shutdown, cause>>
    BY <1>4 DEF StoreOk
  <2>2. /\ In("storing")' = {}
        /\ InProducer' = InProducer /\ In("dropped")' = In("dropped")
    BY <1>4 DEF StoreOk
  <2>3. PipeTypeOK'
    BY <1>4, <2>1 DEF StoreOk
  <2>4. PipeInv'
    <3> HIDE DEF In, InProducer
    <3> QED BY <2>1, <2>2
  <2> QED BY <2>1, <2>3, <2>4
<1>5. CASE StoreFails
  <2>1. /\ outcome = "running" /\ outcome' = "running" /\ consumer' = "closing"
        /\ storageFailed' /\ rxOpen /\ rxOpen' /\ cause' = cause /\ shutdown' = shutdown
        /\ UNCHANGED <<producer, result>>
    BY <1>5 DEF StoreFails
  <2>2. In("storing")' = {} /\ InProducer' = InProducer
    BY <1>5 DEF StoreFails, Drop
  <2>3. PipeTypeOK'
    BY <1>5, <2>1 DEF StoreFails, Drop
  <2>4. PipeInv' /\ NothingBehindSuccess'
    <3> HIDE DEF In, InProducer
    <3> QED BY <2>1, <2>2
  <2>5. CauseIsReported'
    BY <1>5, <2>1 DEF StoreFails
  <2> QED BY <2>3, <2>4, <2>5
<1>6. CASE Close
  BY <1>6 DEF Close
<1>7. CASE Discard
  BY <1>7 DEF Discard, Move
<1>8. CASE Join
  BY <1>8 DEF Join, Return
<1> QED BY ConsumerStep, <1>1, <1>2, <1>3, <1>4, <1>5, <1>6, <1>7, <1>8 DEF ConsumerStep

(* And those of process_source around them.                                *)
LEMMA OwnerKeepsSafe ==
  ASSUME PipeSafe, BeginShutdown \/ TimeOut \/ TakeShutdown
  PROVE  PipeSafe'
<1> USE DEF PipeSafe, PipeTypeOK, PipeInv, CauseIsReported, NothingBehindSuccess,
            In, InProducer, Places, Errors, Troubled,
            producerVars, consumerVars, reportVars
<1>1. CASE BeginShutdown
  BY <1>1 DEF BeginShutdown
<1>2. CASE TimeOut \/ TakeShutdown
  BY <1>2, ZenonT(40) DEF TimeOut, TakeShutdown, Abandon
<1> QED BY <1>1, <1>2

LEMMA PipeStepKeepsSafe ==
  ASSUME PipeSafe, [PipeNext]_pipeVars
  PROVE  PipeSafe'
<1>1. CASE UNCHANGED pipeVars
  BY <1>1 DEF pipeVars, PipeSafe, PipeTypeOK, PipeInv, CauseIsReported,
              NothingBehindSuccess, In, InProducer, Troubled
<1>2. CASE PipeNext
  BY <1>2, ProducerKeepsSafe, ConsumerKeepsSafe, OwnerKeepsSafe DEF PipeNext, ProducerStep
<1> QED BY <1>1, <1>2

(* No interleaving of the two sides loses a batch, hides the failure that   *)
(* caused the others or leaves something running behind a success.         *)
THEOREM PipelineStaysSafe == PipeSpec => []PipeSafe
BY PipeInitially, PipeStepKeepsSafe, PTL DEF PipeSpec

-----------------------------------------------------------------------------
(* Refinement: what a step does to the batches stored and to the outcome.  *)

LEMMA QuietSteps ==
  ASSUME PipeSafe,
         Stored' = Stored, UNCHANGED <<outcome, shutdown>>
  PROVE  UNCHANGED Contract!abstractVars
BY DEF Contract!abstractVars

LEMMA StepMeetsContract ==
  ASSUME PipeSafe, [PipeNext]_pipeVars
  PROVE  [Contract!Next]_(Contract!abstractVars)
<1> USE DEF producerVars, consumerVars, reportVars, Contract!abstractVars
<1>1. CASE UNCHANGED pipeVars
  BY <1>1 DEF pipeVars, Stored, In
<1>2. ASSUME NEW b \in Batches, StartBatch(b) \/ Send(b) \/ EmbedAnswers(b)
      PROVE  Stored' = Stored /\ UNCHANGED <<outcome, shutdown>>
  BY <1>2 DEF StartBatch, Send, EmbedAnswers, Move, Stored, In, PipeSafe, PipeTypeOK
<1>3. CASE ProviderFails \/ BatchCancelled \/ SendFails \/ AllSent \/ ProducerEnds \/ AbortProducer
  <2>1. Stored' = Stored
    BY <1>3 DEF ProviderFails, BatchCancelled, SendFails, AllSent, ProducerEnds, AbortProducer,
                Collect, Drop, InProducer, Stored, In, PipeSafe, PipeTypeOK
  <2>2. UNCHANGED <<outcome, shutdown>>
    BY <1>3 DEF ProviderFails, BatchCancelled, SendFails, AllSent, ProducerEnds, AbortProducer,
                Collect
  <2> QED BY <2>1, <2>2
<1>4. CASE Receive \/ SeeCancelled \/ SeeEnd \/ StoreFails \/ Close \/ Discard
  <2>1. Stored' = Stored
    BY <1>4 DEF Receive, SeeCancelled, SeeEnd, StoreFails, Close, Discard, Move, Drop,
                Stored, In, PipeSafe, PipeTypeOK
  <2>2. UNCHANGED <<outcome, shutdown>>
    BY <1>4 DEF Receive, SeeCancelled, SeeEnd, StoreFails, Close, Discard
  <2> QED BY <2>1, <2>2
<1>5. CASE StoreOk
  <2>1. outcome = "running" /\ UNCHANGED <<outcome, shutdown>>
    BY <1>5 DEF StoreOk, PipeSafe, PipeInv
  <2>2. CASE In("storing") = {}
    <3>1. Stored' = Stored
      BY <1>5, <2>2 DEF StoreOk, Stored, In, PipeSafe, PipeTypeOK
    <3> QED BY <2>1, <3>1
  <2>3. CASE In("storing") # {}
    <3>1. PICK b \in In("storing") : TRUE
      BY <2>3
    <3>2. b \in Batches \ Stored
      BY <3>1 DEF Stored, In
    <3>3. In("storing") = {b}
      BY <3>1 DEF PipeSafe, PipeInv
    <3>4. Stored' = Stored \cup {b}
      BY <1>5, <3>3 DEF StoreOk, Stored, In, PipeSafe, PipeTypeOK
    <3> QED BY <2>1, <3>2, <3>4 DEF Contract!Next, Contract!StoreOne
  <2> QED BY <2>2, <2>3
<1>6. CASE Join
  <2>1. outcome = "running" /\ Stored' = Stored /\ UNCHANGED shutdown
    BY <1>6 DEF Join, Return, Stored, In, PipeSafe, PipeInv
  <2>2. CASE outcome' = "error"
    BY <2>1, <2>2 DEF Contract!Next, Contract!Fail
  <2>3. CASE outcome' # "error"
    <3>1. /\ outcome' = "ok" /\ ~storageFailed /\ result = "ok"
          /\ consumer = "discarding" /\ producer = "done" /\ In("queued") = {}
      BY <1>6, <2>3 DEF Join, Return
    <3>2. ~shutdown => Stored = Batches
      BY <2>1, <3>1 DEF PipeSafe, PipeTypeOK, PipeInv, Troubled, Errors, Places, InProducer,
                        In, Stored
    <3> QED BY <2>1, <3>1, <3>2 DEF Contract!Next, Contract!Succeed, PipeSafe, PipeTypeOK
  <2> QED BY <2>2, <2>3
<1>7. CASE BeginShutdown
  BY <1>7 DEF BeginShutdown, Stored, In, Contract!Next, Contract!Shutdown
<1>8. CASE TimeOut \/ TakeShutdown
  <2>1. Abandon
    BY <1>8 DEF TimeOut, TakeShutdown
  <2>2. outcome = "running" /\ outcome' = "error" /\ UNCHANGED shutdown
    BY <2>1 DEF Abandon
  <2>3. Stored' = Stored \/ \E b \in Batches \ Stored : Stored' = Stored \cup {b}
    <3>1. PICK place \in {"stored", "dropped"} :
            batch' = [b \in Batches |-> IF batch[b] = "storing" THEN place
                                        ELSE IF batch[b] = "queued" THEN "dropped" ELSE batch[b]]
      BY <2>1 DEF Abandon
    <3>2. CASE place = "dropped" \/ In("storing") = {}
      BY <3>1, <3>2 DEF Stored, In, PipeSafe, PipeTypeOK
    <3>3. CASE place = "stored" /\ In("storing") # {}
      <4>1. PICK b \in In("storing") : TRUE
        BY <3>3
      <4>2. b \in Batches \ Stored
        BY <4>1 DEF Stored, In
      <4>3. In("storing") = {b}
        BY <4>1 DEF PipeSafe, PipeInv
      <4>4. Stored' = Stored \cup {b}
        BY <3>1, <3>3, <4>3 DEF Stored, In, PipeSafe, PipeTypeOK
      <4> QED BY <4>2, <4>4
    <3> QED BY <3>1, <3>2, <3>3
  <2> QED BY <2>2, <2>3 DEF Contract!Next, Contract!Fail
<1> QED
  <2>1. CASE \E b \in Batches : StartBatch(b) \/ Send(b) \/ EmbedAnswers(b)
    BY <1>2, <2>1, QuietSteps
  <2> QED
    BY <1>1, <1>3, <1>4, <1>5, <1>6, <1>7, <1>8, <2>1, QuietSteps
       DEF PipeNext, ProducerStep, ConsumerStep

(* The stage keeps its contract: it succeeds with every batch stored or    *)
(* under a shutdown, and stores nothing after it returned.                 *)
THEOREM PipelineKeepsContract == PipeSpec => KeepsContract
<1>1. PipeInit => Contract!Init
  BY DEF PipeInit, Contract!Init, Stored, In
<1> QED
  BY <1>1, PipeInitially, PipeStepKeepsSafe, StepMeetsContract, PTL
     DEF PipeSpec, KeepsContract, Contract!Spec

-----------------------------------------------------------------------------
(* Numbers below and from a bound, and the oldest of a set of ids.         *)

Before(S, n) == {i \in S : i < n}
From(S, n) == {i \in S : i >= n}

OldestOf(S, k) == {i \in S : Cardinality(Before(S, i)) < k}

LEMMA RanksDiffer ==
  ASSUME NEW S \in SUBSET Nat, IsFiniteSet(S)
  PROVE  /\ \A i \in S : Cardinality(Before(S, i)) \in 0 .. Cardinality(S) - 1
         /\ \A i, j \in S : i # j => Cardinality(Before(S, i)) # Cardinality(Before(S, j))
<1>1. \A i \in S : IsFiniteSet(Before(S, i)) /\ Cardinality(Before(S, i)) \in 0 .. Cardinality(S) - 1
  <2> SUFFICES ASSUME NEW i \in S
               PROVE  IsFiniteSet(Before(S, i)) /\ Cardinality(Before(S, i)) \in 0 .. Cardinality(S) - 1
    OBVIOUS
  <2>1. Before(S, i) \in SUBSET (S \ {i})
    BY DEF Before
  <2>2. IsFiniteSet(S \ {i}) /\ Cardinality(S \ {i}) = Cardinality(S) - 1
    BY FS_RemoveElement
  <2>3. IsFiniteSet(Before(S, i)) /\ Cardinality(Before(S, i)) <= Cardinality(S \ {i})
    BY <2>1, <2>2, FS_Subset
  <2>4. Cardinality(Before(S, i)) \in Nat /\ Cardinality(S) \in Nat
    BY <2>3, FS_CardinalityType
  <2>. QED
    BY <2>2, <2>3, <2>4
<1>2. ASSUME NEW i \in S, NEW j \in S, i < j
      PROVE  Cardinality(Before(S, i)) # Cardinality(Before(S, j))
  <2>1. \A h \in S : h \in Nat /\ (h < i => h < j)
    BY <1>2
  <2>2. Before(S, i) \subseteq Before(S, j)
    BY <2>1 DEF Before
  <2>3. i \in Before(S, j) /\ i \notin Before(S, i)
    BY <1>2, <2>1 DEF Before
  <2>. QED
    BY <1>1, <2>2, <2>3, FS_Subset
<1>. QED
  <2>1. \A i, j \in S : i # j => i < j \/ j < i
    OBVIOUS
  <2>. QED
    BY <1>1, <1>2, <2>1

(* The oldest k are k at most, and leave no more than the others.          *)
LEMMA OldestAreCounted ==
  ASSUME NEW S \in SUBSET Nat, IsFiniteSet(S), NEW k \in Nat
  PROVE  /\ IsFiniteSet(OldestOf(S, k)) /\ Cardinality(OldestOf(S, k)) <= k
         /\ IsFiniteSet(S \ OldestOf(S, k))
         /\ k <= Cardinality(S) => Cardinality(S \ OldestOf(S, k)) <= Cardinality(S) - k
         /\ Cardinality(S) <= k => OldestOf(S, k) = S
<1>1. PICK n \in Nat : n = Cardinality(S)
  BY FS_CardinalityType
<1> DEFINE D == OldestOf(S, k)
           rank == [i \in S |-> Cardinality(Before(S, i))]
<1>2. /\ rank \in [S -> 0 .. n - 1]
      /\ \A i, j \in S : rank[i] = rank[j] => i = j
      /\ D = {i \in S : rank[i] < k}
  BY <1>1, RanksDiffer DEF OldestOf
<1> HIDE DEF rank, D
<1>3. n <= k => D = S
  <2>1. \A i \in S : rank[i] \in 0 .. n - 1
    BY <1>2
  <2>2. n <= k => \A i \in S : rank[i] < k
    BY <2>1
  <2>. QED
    BY <1>2, <2>2
<1>4. [i \in D |-> rank[i]] \in Injection(D, 0 .. k - 1)
  BY <1>2 DEF Injection, IsInjective
<1>5. [i \in S \ D |-> rank[i]] \in Injection(S \ D, k .. n - 1)
  BY <1>2 DEF Injection, IsInjective
<1>6. IsFiniteSet(0 .. k - 1) /\ Cardinality(0 .. k - 1) = k
  BY FS_Interval
<1>7. IsFiniteSet(k .. n - 1) /\ (k <= n => Cardinality(k .. n - 1) = n - k)
  <2>1. /\ IsFiniteSet(k .. n - 1)
        /\ Cardinality(k .. n - 1) = IF k > n - 1 THEN 0 ELSE (n - 1) - k + 1
    BY FS_Interval
  <2>. QED
    BY <2>1
<1>8. IsFiniteSet(D) /\ Cardinality(D) <= k
  BY <1>4, <1>6, FS_Injection
<1>9. IsFiniteSet(S \ D) /\ Cardinality(S \ D) <= Cardinality(k .. n - 1)
  BY <1>5, <1>7, FS_Injection
<1>. QED
  BY <1>1, <1>3, <1>7, <1>8, <1>9 DEF D

-----------------------------------------------------------------------------
(* Rounds of the stores.                                                   *)

Listing == {"select", "evict"}

StoreRow == [at : {"idle", "embed", "count", "select", "evict", "insert"},
             overflow : 0 .. MaxRows, ids : SUBSET (1 .. MaxRows)]

Ready(st) == {s \in Stores : st[s].at = "insert"}
Waiting(st, b, n) == {s \in Stores : st[s].at \in Listing /\ b[s] <= n}

(* Summaries from an id on, and stores that may yet add to them.           *)
Crowd(own, st, b, n) ==
  Cardinality(From(own, n)) + Cardinality(Ready(st)) + Cardinality(Waiting(st, b, n))

(* b is what the next id was when a store counted, and latest the greatest *)
(* of these among the stores that have made room: an older summary is one  *)
(* of those that were left then, and of the newer ones every store has     *)
(* added one at most, and none that is still at making room.  own are the  *)
(* ids of the summaries stores added, all those of every summary.          *)
Rounds(b, latest, own, all, n, st) ==
  /\ b \in [Stores -> Nat] /\ latest \in 1 .. n
  /\ \A s \in Stores : st[s].at \in Listing => b[s] \in 1 .. n
  /\ Cardinality(Before(own, latest)) <= MaxSummaries - 1
  /\ \A s \in Stores :
       st[s].at = "select" => Cardinality(Before(all, b[s])) <= st[s].overflow + MaxSummaries - 1
  /\ \A s \in Stores :
       st[s].at = "evict" => Cardinality(Before(own \ st[s].ids, b[s])) <= MaxSummaries - 1
  /\ \A k \in latest .. n : Crowd(own, st, b, k) <= Cardinality(Stores)

RoundsFit(own, all, n, st) == \E b, latest : Rounds(b, latest, own, all, n, st)

(* Ids below the next one, and what the stores know of them.               *)
Numbered(own, all, n) ==
  n \in Nat \ {0} /\ own \in SUBSET (1 .. n - 1) /\ all \in SUBSET (1 .. n - 1) /\ own \subseteq all

LEMMA SmallerCount ==
  ASSUME NEW S, IsFiniteSet(S), NEW T, T \subseteq S
  PROVE  /\ IsFiniteSet(T) /\ Cardinality(T) \in Nat /\ Cardinality(S) \in Nat
         /\ Cardinality(T) <= Cardinality(S)
<1>1. IsFiniteSet(T) /\ Cardinality(T) <= Cardinality(S)
  BY FS_Subset
<1>. QED
  BY <1>1, FS_CardinalityType

LEMMA DisjointCount ==
  ASSUME NEW S, IsFiniteSet(S), NEW T, IsFiniteSet(T), S \cap T = {}
  PROVE  Cardinality(S \cup T) = Cardinality(S) + Cardinality(T)
<1>1. Cardinality(S \cup T) = Cardinality(S) + Cardinality(T) - Cardinality(S \cap T)
  BY FS_Union
<1>2. Cardinality(S \cap T) = 0 /\ Cardinality(S) \in Nat /\ Cardinality(T) \in Nat
  BY FS_EmptySet, FS_CardinalityType
<1>. QED
  BY <1>1, <1>2

LEMMA NumberedAreFinite ==
  ASSUME NEW own, NEW all, NEW n, Numbered(own, all, n)
  PROVE  /\ IsFiniteSet(own) /\ IsFiniteSet(all)
         /\ \A k : IsFiniteSet(Before(own, k)) /\ IsFiniteSet(Before(all, k)) /\ IsFiniteSet(From(own, k))
<1>1. IsFiniteSet(1 .. n - 1)
  BY FS_Interval DEF Numbered
<1>2. IsFiniteSet(own) /\ IsFiniteSet(all)
  BY <1>1, FS_Subset DEF Numbered
<1>. QED
  <2> SUFFICES ASSUME NEW k
               PROVE  IsFiniteSet(Before(own, k)) /\ IsFiniteSet(Before(all, k)) /\ IsFiniteSet(From(own, k))
    BY <1>2
  <2>1. Before(own, k) \subseteq own /\ Before(all, k) \subseteq all /\ From(own, k) \subseteq own
    BY DEF Before, From
  <2>. QED
    BY <1>2, <2>1, SmallerCount

LEMMA StoresAreFinite ==
  ASSUME NEW st
  PROVE  /\ IsFiniteSet(Stores) /\ Cardinality(Stores) \in Nat
         /\ IsFiniteSet(Ready(st)) /\ Cardinality(Ready(st)) \in Nat
         /\ \A b, n : IsFiniteSet(Waiting(st, b, n)) /\ Cardinality(Waiting(st, b, n)) \in Nat
<1>1. IsFiniteSet(Stores)
  BY MemoryAssumption
<1>2. Ready(st) \subseteq Stores /\ \A b, n : Waiting(st, b, n) \subseteq Stores
  BY DEF Ready, Waiting
<1>. QED
  BY <1>1, <1>2, SmallerCount

LEMMA CrowdShrinks ==
  ASSUME NEW own, NEW st, NEW b, NEW k, NEW own1, NEW st1, NEW b1, NEW k1,
         IsFiniteSet(From(own, k)), From(own1, k1) \subseteq From(own, k),
         Ready(st1) \subseteq Ready(st), Waiting(st1, b1, k1) \subseteq Waiting(st, b, k)
  PROVE  Crowd(own1, st1, b1, k1) <= Crowd(own, st, b, k)
<1>1. /\ Cardinality(From(own1, k1)) \in Nat /\ Cardinality(From(own, k)) \in Nat
      /\ Cardinality(From(own1, k1)) <= Cardinality(From(own, k))
  BY SmallerCount
<1>2. /\ Cardinality(Ready(st1)) \in Nat /\ Cardinality(Ready(st)) \in Nat
      /\ Cardinality(Ready(st1)) <= Cardinality(Ready(st))
  BY SmallerCount, StoresAreFinite
<1>3. /\ Cardinality(Waiting(st1, b1, k1)) \in Nat /\ Cardinality(Waiting(st, b, k)) \in Nat
      /\ Cardinality(Waiting(st1, b1, k1)) <= Cardinality(Waiting(st, b, k))
  BY SmallerCount, StoresAreFinite
<1>. QED
  BY <1>1, <1>2, <1>3 DEF Crowd

LEMMA CrowdType ==
  ASSUME NEW own, NEW st, NEW b, NEW k, IsFiniteSet(From(own, k))
  PROVE  Crowd(own, st, b, k) \in Nat
BY StoresAreFinite, FS_CardinalityType DEF Crowd

(* There are never more summaries than that.                               *)
LEMMA RoundsBound ==
  ASSUME NEW own, NEW all, NEW n, NEW st, Numbered(own, all, n), RoundsFit(own, all, n, st)
  PROVE  Cardinality(own) <= MaxSummaries - 1 + Cardinality(Stores)
<1>1. PICK b, latest : Rounds(b, latest, own, all, n, st)
  BY DEF RoundsFit
<1>2. latest \in 1 .. n /\ n \in Nat /\ MaxSummaries \in Nat
  BY <1>1, MemoryAssumption DEF Rounds, Numbered
<1>3. own = Before(own, latest) \cup From(own, latest) /\ Before(own, latest) \cap From(own, latest) = {}
  <2>1. \A i \in own : (i < latest \/ i >= latest) /\ ~(i < latest /\ i >= latest)
    BY <1>2 DEF Numbered
  <2>. QED
    BY <2>1 DEF Before, From
<1>4. IsFiniteSet(Before(own, latest)) /\ IsFiniteSet(From(own, latest))
  BY NumberedAreFinite
<1>5. Cardinality(own) = Cardinality(Before(own, latest)) + Cardinality(From(own, latest))
  BY <1>3, <1>4, DisjointCount
<1>6. Cardinality(Before(own, latest)) <= MaxSummaries - 1 /\ Crowd(own, st, b, latest) <= Cardinality(Stores)
  BY <1>1, <1>2 DEF Rounds
<1>. QED
  BY <1>2, <1>4, <1>5, <1>6, FS_EmptySet, FS_CardinalityType, StoresAreFinite DEF Crowd

(* Rows of another kind come and go, summaries go, and stores end.         *)
LEMMA RoundsStay ==
  ASSUME NEW own, NEW all, NEW n, NEW st, Numbered(own, all, n), RoundsFit(own, all, n, st),
         NEW own1, NEW all1, NEW n1, NEW st1, Numbered(own1, all1, n1),
         st \in [Stores -> StoreRow],
         own1 \subseteq own, \A i \in all1 : i \in all \/ i >= n, n <= n1,
         \A s \in Stores : st1[s] = st[s] \/ st1[s].at \notin Listing \cup {"insert"}
  PROVE  RoundsFit(own1, all1, n1, st1)
<1>1. PICK b, latest : Rounds(b, latest, own, all, n, st)
  BY DEF RoundsFit
<1>2. n \in Nat /\ n1 \in Nat /\ latest \in 1 .. n /\ latest \in 1 .. n1
  BY <1>1 DEF Rounds, Numbered
<1>3. ASSUME NEW s \in Stores, st1[s].at \in Listing
      PROVE  st1[s] = st[s] /\ b[s] \in 1 .. n /\ b[s] \in 1 .. n1
  BY <1>1, <1>2, <1>3 DEF Rounds
<1>4. \A k : Before(own1, k) \subseteq Before(own, k)
  BY DEF Before
<1>5. Cardinality(Before(own1, latest)) <= MaxSummaries - 1
  BY <1>1, <1>4, SmallerCount, NumberedAreFinite, MemoryAssumption DEF Rounds
<1>6. ASSUME NEW s \in Stores, st1[s].at = "select"
      PROVE  Cardinality(Before(all1, b[s])) <= st1[s].overflow + MaxSummaries - 1
  <2>1. st1[s] = st[s] /\ b[s] \in 1 .. n
    BY <1>3, <1>6 DEF Listing
  <2>2. Before(all1, b[s]) \subseteq Before(all, b[s])
    <3> SUFFICES ASSUME NEW i \in all1, i < b[s] PROVE i \in all
      BY DEF Before
    <3>1. i \in Nat /\ ~(i >= n)
      BY <1>2, <2>1 DEF Numbered
    <3>. QED
      BY <3>1
  <2>3. Cardinality(Before(all, b[s])) <= st[s].overflow + MaxSummaries - 1
    BY <1>1, <1>6, <2>1 DEF Rounds
  <2>4. /\ Cardinality(Before(all1, b[s])) \in Nat /\ Cardinality(Before(all, b[s])) \in Nat
        /\ Cardinality(Before(all1, b[s])) <= Cardinality(Before(all, b[s]))
    BY <2>2, SmallerCount, NumberedAreFinite
  <2>5. st[s].overflow \in Nat /\ MaxSummaries \in Nat
    BY MemoryAssumption DEF StoreRow
  <2>. QED
    BY <2>1, <2>3, <2>4, <2>5
<1>7. ASSUME NEW s \in Stores, st1[s].at = "evict"
      PROVE  Cardinality(Before(own1 \ st1[s].ids, b[s])) <= MaxSummaries - 1
  <2>1. st1[s] = st[s]
    BY <1>3, <1>7 DEF Listing
  <2>2. Before(own1 \ st1[s].ids, b[s]) \subseteq Before(own \ st[s].ids, b[s])
    BY <2>1 DEF Before
  <2>3. Before(own \ st[s].ids, b[s]) \subseteq own
    BY DEF Before
  <2>4. IsFiniteSet(Before(own \ st[s].ids, b[s]))
    BY <2>3, SmallerCount, NumberedAreFinite
  <2>5. /\ Cardinality(Before(own1 \ st1[s].ids, b[s])) \in Nat
        /\ Cardinality(Before(own \ st[s].ids, b[s])) \in Nat
        /\ Cardinality(Before(own1 \ st1[s].ids, b[s])) <= Cardinality(Before(own \ st[s].ids, b[s]))
    BY <2>2, <2>4, SmallerCount
  <2>6. Cardinality(Before(own \ st[s].ids, b[s])) <= MaxSummaries - 1
    BY <1>1, <1>7, <2>1 DEF Rounds
  <2>. QED
    BY <2>5, <2>6, MemoryAssumption
<1>8. ASSUME NEW k \in latest .. n1
      PROVE  Crowd(own1, st1, b, k) <= Cardinality(Stores)
  <2> DEFINE j == IF k <= n THEN k ELSE n
  <2>1. j \in latest .. n /\ j <= k /\ (j = k \/ j = n)
    BY <1>2
  <2>2. Ready(st1) \subseteq Ready(st)
    BY DEF Ready
  <2>3. Waiting(st1, b, k) \subseteq Waiting(st, b, j)
    <3> SUFFICES ASSUME NEW s \in Stores, st1[s].at \in Listing, b[s] <= k
                 PROVE  st[s].at \in Listing /\ b[s] <= j
      BY DEF Waiting
    <3>. QED
      BY <1>2, <1>3
  <2>4. From(own1, k) \subseteq From(own, j)
    <3> SUFFICES ASSUME NEW i \in own, i >= k PROVE i >= j
      BY DEF From
    <3>. QED
      BY <1>2, <2>1 DEF Numbered
  <2> HIDE DEF j
  <2>5. Crowd(own1, st1, b, k) <= Crowd(own, st, b, j)
    BY <2>2, <2>3, <2>4, NumberedAreFinite, CrowdShrinks
  <2>6. Crowd(own, st, b, j) <= Cardinality(Stores)
    BY <1>1, <2>1 DEF Rounds
  <2>7. /\ Crowd(own, st, b, j) \in Nat /\ Crowd(own1, st1, b, k) \in Nat
        /\ Cardinality(Stores) \in Nat
    BY CrowdType, NumberedAreFinite, StoresAreFinite
  <2>. QED
    BY <2>5, <2>6, <2>7
<1>9. Rounds(b, latest, own1, all1, n1, st1)
  BY <1>1, <1>2, <1>3, <1>5, <1>6, <1>7, <1>8 DEF Rounds
<1>. QED
  BY <1>9 DEF RoundsFit

(* A store inserts: one of those that were ready has added its summary.    *)
LEMMA RoundAdds ==
  ASSUME NEW own, NEW all, NEW n, NEW st, Numbered(own, all, n), RoundsFit(own, all, n, st),
         st \in [Stores -> StoreRow], NEW s \in Stores, st[s].at = "insert",
         NEW st1, st1 = [st EXCEPT ![s] = Idle]
  PROVE  RoundsFit(own \cup {n}, all \cup {n}, n + 1, st1)
<1>1. PICK b, latest : Rounds(b, latest, own, all, n, st)
  BY DEF RoundsFit
<1>2. /\ n \in Nat /\ latest \in 1 .. n /\ latest \in 1 .. n + 1
      /\ \A i \in own \cup all : i \in 1 .. n - 1
  <2>1. n \in Nat /\ \A i \in own \cup all : i \in 1 .. n - 1
    BY DEF Numbered
  <2>2. latest \in 1 .. n
    BY <1>1 DEF Rounds
  <2>3. latest \in 1 .. n + 1
    BY <2>1, <2>2
  <2>. QED
    BY <2>1, <2>2, <2>3
<1>3. ASSUME NEW t \in Stores, st1[t].at \in Listing
      PROVE  st1[t] = st[t] /\ b[t] \in 1 .. n /\ b[t] \in 1 .. n + 1
  <2>1. st1[t] = st[t]
    BY <1>3 DEF Listing, Idle
  <2>. QED
    BY <1>1, <1>2, <1>3, <2>1 DEF Rounds
<1>4. \A k \in 1 .. n : Before(own \cup {n}, k) = Before(own, k) /\ Before(all \cup {n}, k) = Before(all, k)
  <2>1. \A k \in 1 .. n : ~(n < k)
    BY <1>2
  <2>. QED
    BY <2>1 DEF Before
<1>5. Cardinality(Before(own \cup {n}, latest)) <= MaxSummaries - 1
  BY <1>1, <1>2, <1>4 DEF Rounds
<1>6. ASSUME NEW t \in Stores, st1[t].at = "select"
      PROVE  Cardinality(Before(all \cup {n}, b[t])) <= st1[t].overflow + MaxSummaries - 1
  <2>1. st1[t] = st[t] /\ b[t] \in 1 .. n
    BY <1>3, <1>6 DEF Listing
  <2>. QED
    BY <1>1, <1>4, <1>6, <2>1 DEF Rounds
<1>7. ASSUME NEW t \in Stores, st1[t].at = "evict"
      PROVE  Cardinality(Before((own \cup {n}) \ st1[t].ids, b[t])) <= MaxSummaries - 1
  <2>1. st1[t] = st[t] /\ b[t] \in 1 .. n /\ ~(n < b[t])
    BY <1>2, <1>3, <1>7 DEF Listing
  <2>2. Before((own \cup {n}) \ st1[t].ids, b[t]) = Before(own \ st[t].ids, b[t])
    BY <2>1 DEF Before
  <2>. QED
    BY <1>1, <1>7, <2>1, <2>2 DEF Rounds
<1>8. s \in Ready(st) /\ Ready(st1) = Ready(st) \ {s}
  BY DEF Ready, Idle
<1>9. Cardinality(Ready(st1)) = Cardinality(Ready(st)) - 1
  BY <1>8, StoresAreFinite, FS_RemoveElement
<1>10. ASSUME NEW k \in latest .. n + 1
       PROVE  Crowd(own \cup {n}, st1, b, k) <= Cardinality(Stores)
  <2> DEFINE j == IF k <= n THEN k ELSE n
  <2>1. j \in latest .. n /\ j <= k
    BY <1>2
  <2>2. From(own \cup {n}, k) \subseteq From(own, j) \cup {n}
    <3> SUFFICES ASSUME NEW i \in own, i >= k PROVE i >= j
      BY DEF From
    <3>. QED
      BY <1>2
  <2>3. Waiting(st1, b, k) \subseteq Waiting(st, b, j)
    <3> SUFFICES ASSUME NEW t \in Stores, st1[t].at \in Listing, b[t] <= k
                 PROVE  st[t].at \in Listing /\ b[t] <= j
      BY DEF Waiting
    <3>. QED
      BY <1>2, <1>3
  <2> HIDE DEF j
  <2>4. IsFiniteSet(From(own, j)) /\ n \notin From(own, j)
    <3>1. n \notin own
      BY <1>2
    <3>. QED
      BY <3>1, NumberedAreFinite DEF From
  <2>5. /\ IsFiniteSet(From(own, j) \cup {n})
        /\ Cardinality(From(own, j) \cup {n}) = Cardinality(From(own, j)) + 1
    BY <2>4, FS_AddElement
  <2>6. /\ Cardinality(From(own \cup {n}, k)) <= Cardinality(From(own, j)) + 1
        /\ Cardinality(From(own \cup {n}, k)) \in Nat /\ Cardinality(From(own, j)) \in Nat
    BY <2>2, <2>4, <2>5, SmallerCount, FS_CardinalityType
  <2>7. Cardinality(Waiting(st1, b, k)) <= Cardinality(Waiting(st, b, j))
    BY <2>3, SmallerCount, StoresAreFinite
  <2>8. Crowd(own, st, b, j) <= Cardinality(Stores)
    BY <1>1, <2>1 DEF Rounds
  <2>. QED
    BY <1>9, <2>6, <2>7, <2>8, StoresAreFinite DEF Crowd
<1>11. Rounds(b, latest, own \cup {n}, all \cup {n}, n + 1, st1)
  BY <1>1, <1>2, <1>3, <1>5, <1>6, <1>7, <1>10 DEF Rounds
<1>. QED
  BY <1>11 DEF RoundsFit

(* Whatever is left is little enough: no room has to be made.  The latest  *)
(* count is now, when nothing is newer.                                    *)
LEMMA RoundPasses ==
  ASSUME NEW own, NEW all, NEW n, NEW st, Numbered(own, all, n), RoundsFit(own, all, n, st),
         st \in [Stores -> StoreRow], NEW s \in Stores, Cardinality(own) <= MaxSummaries - 1,
         NEW st1, st1 = [st EXCEPT ![s] = [Idle EXCEPT !.at = "insert"]]
  PROVE  RoundsFit(own, all, n, st1)
<1>1. PICK b, latest : Rounds(b, latest, own, all, n, st)
  BY DEF RoundsFit
<1>2. n \in Nat /\ n \in 1 .. n /\ \A i \in own : i \in 1 .. n - 1
  BY DEF Numbered
<1>3. \A t \in Stores : st1[t].at \in Listing => st1[t] = st[t]
  BY DEF Listing, Idle
<1>4. Before(own, n) \subseteq own
  BY DEF Before
<1>5. Cardinality(Before(own, n)) <= MaxSummaries - 1
  BY <1>4, SmallerCount, NumberedAreFinite, MemoryAssumption
<1>6. From(own, n) = {}
  BY <1>2 DEF From
<1>7. Crowd(own, st1, b, n) <= Cardinality(Stores)
  <2>1. Ready(st1) \cap Waiting(st1, b, n) = {} /\ Ready(st1) \cup Waiting(st1, b, n) \subseteq Stores
    BY DEF Ready, Waiting, Listing
  <2>2. Cardinality(Ready(st1) \cup Waiting(st1, b, n))
          = Cardinality(Ready(st1)) + Cardinality(Waiting(st1, b, n))
    BY <2>1, StoresAreFinite, DisjointCount
  <2>3. Cardinality(Ready(st1) \cup Waiting(st1, b, n)) <= Cardinality(Stores)
    BY <2>1, SmallerCount, MemoryAssumption
  <2>. QED
    BY <1>6, <2>2, <2>3, FS_EmptySet, StoresAreFinite DEF Crowd
<1>8. \A k \in n .. n : k = n
  BY <1>2
<1>9. Rounds(b, n, own, all, n, st1)
  BY <1>1, <1>2, <1>3, <1>5, <1>7, <1>8 DEF Rounds, Listing
<1>. QED
  BY <1>9 DEF RoundsFit

(* A store counts, and something is to be evicted.                         *)
LEMMA RoundCounts ==
  ASSUME NEW own, NEW all, NEW n, NEW st, Numbered(own, all, n), RoundsFit(own, all, n, st),
         st \in [Stores -> StoreRow], NEW s \in Stores, NEW k,
         k = Cardinality(all) - (MaxSummaries - 1),
         NEW st1, st1 = [st EXCEPT ![s] = [Idle EXCEPT !.at = "select", !.overflow = k]]
  PROVE  RoundsFit(own, all, n, st1)
<1>1. PICK b, latest : Rounds(b, latest, own, all, n, st)
  BY DEF RoundsFit
<1> DEFINE c == [b EXCEPT ![s] = n]
<1>2. /\ n \in Nat /\ latest \in 1 .. n /\ (\A i \in own : i \in 1 .. n - 1) /\ n \in 1 .. n
      /\ b \in [Stores -> Nat] /\ c \in [Stores -> Nat]
  <2>1. n \in Nat /\ n \in 1 .. n /\ \A i \in own : i \in 1 .. n - 1
    BY DEF Numbered
  <2>2. latest \in 1 .. n /\ b \in [Stores -> Nat]
    BY <1>1 DEF Rounds
  <2>. QED
    BY <2>1, <2>2
<1>3. /\ c[s] = n /\ st1[s].at = "select" /\ st1[s].overflow = k
      /\ \A t \in Stores \ {s} : c[t] = b[t] /\ st1[t] = st[t]
  BY <1>2 DEF Idle
<1> HIDE DEF c
<1>4. \A t \in Stores : st1[t].at \in Listing => c[t] \in 1 .. n
  BY <1>1, <1>2, <1>3 DEF Rounds
<1>5. ASSUME NEW t \in Stores, st1[t].at = "select"
      PROVE  Cardinality(Before(all, c[t])) <= st1[t].overflow + MaxSummaries - 1
  <2>1. CASE t = s
    <3>1. Before(all, n) \subseteq all
      BY DEF Before
    <3>2. /\ Cardinality(Before(all, n)) \in Nat /\ Cardinality(all) \in Nat
          /\ Cardinality(Before(all, n)) <= Cardinality(all)
      BY <3>1, SmallerCount, NumberedAreFinite
    <3>. QED
      BY <1>3, <2>1, <3>2, MemoryAssumption
  <2>2. CASE t # s
    BY <1>1, <1>3, <1>5, <2>2 DEF Rounds
  <2>. QED
    BY <2>1, <2>2
<1>6. ASSUME NEW t \in Stores, st1[t].at = "evict"
      PROVE  Cardinality(Before(own \ st1[t].ids, c[t])) <= MaxSummaries - 1
  BY <1>1, <1>3, <1>6 DEF Rounds
<1>7. Ready(st1) \subseteq Ready(st)
  BY <1>3 DEF Ready
<1>8. ASSUME NEW j \in latest .. n
      PROVE  Crowd(own, st1, c, j) <= Cardinality(Stores)
  <2>1. CASE j < n
    <3>1. Waiting(st1, c, j) \subseteq Waiting(st, b, j)
      <4> SUFFICES ASSUME NEW t \in Stores, st1[t].at \in Listing, c[t] <= j
                   PROVE  st[t].at \in Listing /\ b[t] <= j
        BY DEF Waiting
      <4>1. t # s
        BY <1>2, <1>3, <2>1
      <4>. QED
        BY <1>3, <4>1
    <3>2. Crowd(own, st1, c, j) <= Crowd(own, st, b, j)
      BY <1>7, <3>1, CrowdShrinks, NumberedAreFinite
    <3>3. Crowd(own, st, b, j) <= Cardinality(Stores)
      BY <1>1 DEF Rounds
    <3>. QED
      BY <3>2, <3>3, CrowdType, NumberedAreFinite, StoresAreFinite
  <2>2. CASE j = n
    <3>1. From(own, n) = {}
      BY <1>2 DEF From
    <3>2. Ready(st1) \cap Waiting(st1, c, n) = {} /\ Ready(st1) \cup Waiting(st1, c, n) \subseteq Stores
      BY DEF Ready, Waiting, Listing
    <3>3. Cardinality(Ready(st1) \cup Waiting(st1, c, n))
            = Cardinality(Ready(st1)) + Cardinality(Waiting(st1, c, n))
      BY <3>2, StoresAreFinite, DisjointCount
    <3>4. Cardinality(Ready(st1) \cup Waiting(st1, c, n)) <= Cardinality(Stores)
      BY <3>2, SmallerCount, MemoryAssumption
    <3>. QED
      BY <2>2, <3>1, <3>3, <3>4, FS_EmptySet, StoresAreFinite DEF Crowd
  <2>. QED
    BY <1>2, <2>1, <2>2
<1>9. Rounds(c, latest, own, all, n, st1)
  BY <1>1, <1>2, <1>4, <1>5, <1>6, <1>8 DEF Rounds
<1>. QED
  BY <1>9 DEF RoundsFit

(* A store lists the oldest, as many as it has counted too many: of those  *)
(* it has counted no more than fit are left out, whatever has come since.  *)
LEMMA RoundSelects ==
  ASSUME NEW own, NEW all, NEW n, NEW st, Numbered(own, all, n), RoundsFit(own, all, n, st),
         st \in [Stores -> StoreRow], NEW s \in Stores, st[s].at = "select",
         NEW st1, st1 = [st EXCEPT ![s] = [Idle EXCEPT !.at = "evict", !.ids = OldestOf(all, st[s].overflow)]]
  PROVE  RoundsFit(own, all, n, st1)
<1>1. PICK b, latest : Rounds(b, latest, own, all, n, st)
  BY DEF RoundsFit
<1> DEFINE k == st[s].overflow
           X == Before(all, b[s])
<1>2. /\ n \in Nat /\ latest \in 1 .. n /\ b[s] \in 1 .. n /\ b \in [Stores -> Nat]
      /\ all \in SUBSET Nat /\ own \subseteq all /\ k \in Nat
  <2>1. st[s] \in StoreRow /\ 0 .. MaxRows \subseteq Nat
    BY MemoryAssumption
  <2>2. k \in Nat
    BY <2>1 DEF StoreRow
  <2>3. n \in Nat /\ own \subseteq all /\ all \subseteq 1 .. n - 1 /\ 1 .. n - 1 \subseteq Nat
    BY DEF Numbered
  <2>4. latest \in 1 .. n /\ b[s] \in 1 .. n /\ b \in [Stores -> Nat]
    BY <1>1 DEF Rounds, Listing
  <2>. QED
    BY <2>2, <2>3, <2>4
<1>3. /\ st1[s].at = "evict" /\ st1[s].ids = OldestOf(all, k)
      /\ \A t \in Stores \ {s} : st1[t] = st[t]
  BY DEF Idle
<1>4. X \in SUBSET Nat /\ IsFiniteSet(X) /\ Cardinality(X) \in Nat /\ Cardinality(X) <= k + MaxSummaries - 1
  <2>1. IsFiniteSet(X)
    BY NumberedAreFinite
  <2>2. X \in SUBSET Nat
    BY <1>2 DEF Before
  <2>. QED
    BY <1>1, <2>1, <2>2, FS_CardinalityType DEF Rounds
<1>5. OldestOf(X, k) \subseteq OldestOf(all, k)
  <2> SUFFICES ASSUME NEW i \in X, Cardinality(Before(X, i)) < k
               PROVE  i \in all /\ Cardinality(Before(all, i)) < k
    BY DEF OldestOf
  <2>1. i \in all /\ i < b[s] /\ i \in Nat
    BY <1>2 DEF Before
  <2>2. Before(X, i) = Before(all, i)
    <3>1. \A h \in all : h < i => h < b[s]
      BY <1>2, <2>1
    <3>. QED
      BY <3>1 DEF Before
  <2>. QED
    BY <2>1, <2>2
<1>6. Before(own \ st1[s].ids, b[s]) \subseteq X \ OldestOf(X, k)
  BY <1>2, <1>3, <1>5 DEF Before
<1> HIDE DEF X, k
<1>7. Cardinality(Before(own \ st1[s].ids, b[s])) <= MaxSummaries - 1
  <2>1. /\ IsFiniteSet(X \ OldestOf(X, k)) /\ Cardinality(X \ OldestOf(X, k)) \in Nat
        /\ k <= Cardinality(X) => Cardinality(X \ OldestOf(X, k)) <= Cardinality(X) - k
        /\ Cardinality(X) <= k => X \ OldestOf(X, k) = {}
    BY <1>2, <1>4, OldestAreCounted, FS_CardinalityType
  <2>2. Cardinality(X \ OldestOf(X, k)) <= MaxSummaries - 1
    <3>1. CASE k <= Cardinality(X)
      BY <1>2, <1>4, <2>1, <3>1, MemoryAssumption
    <3>2. CASE Cardinality(X) <= k
      BY <2>1, <3>2, FS_EmptySet, MemoryAssumption
    <3>. QED
      BY <1>2, <1>4, <3>1, <3>2
  <2>3. /\ Cardinality(Before(own \ st1[s].ids, b[s])) \in Nat
        /\ Cardinality(Before(own \ st1[s].ids, b[s])) <= Cardinality(X \ OldestOf(X, k))
    BY <1>6, <2>1, SmallerCount
  <2>. QED
    BY <2>1, <2>2, <2>3, MemoryAssumption
<1>8. Ready(st1) = Ready(st) /\ \A j : Waiting(st1, b, j) = Waiting(st, b, j)
  BY <1>3 DEF Ready, Waiting, Listing
<1>9. ASSUME NEW t \in Stores, st1[t].at = "evict"
      PROVE  Cardinality(Before(own \ st1[t].ids, b[t])) <= MaxSummaries - 1
  BY <1>1, <1>3, <1>7, <1>9 DEF Rounds
<1>10. ASSUME NEW t \in Stores, st1[t].at = "select"
       PROVE  Cardinality(Before(all, b[t])) <= st1[t].overflow + MaxSummaries - 1
  BY <1>1, <1>3, <1>10 DEF Rounds
<1>11. \A j \in latest .. n : Crowd(own, st1, b, j) <= Cardinality(Stores)
  BY <1>1, <1>8 DEF Rounds, Crowd
<1>12. \A t \in Stores : st1[t].at \in Listing => b[t] \in 1 .. n
  BY <1>1, <1>2, <1>3 DEF Rounds
<1>13. Rounds(b, latest, own, all, n, st1)
  BY <1>1, <1>9, <1>10, <1>11, <1>12 DEF Rounds
<1>. QED
  BY <1>13 DEF RoundsFit

(* A store evicts: those left of what it had counted fit, and from now on  *)
(* its count is the latest, unless another's is.                           *)
LEMMA RoundEvicts ==
  ASSUME NEW own, NEW all, NEW n, NEW st, Numbered(own, all, n), RoundsFit(own, all, n, st),
         st \in [Stores -> StoreRow], NEW s \in Stores, st[s].at = "evict",
         NEW st1, st1 = [st EXCEPT ![s] = [Idle EXCEPT !.at = "insert"]]
  PROVE  RoundsFit(own \ st[s].ids, all \ st[s].ids, n, st1)
<1>1. PICK b, latest : Rounds(b, latest, own, all, n, st)
  BY DEF RoundsFit
<1> DEFINE own1 == own \ st[s].ids
           all1 == all \ st[s].ids
           late == IF latest <= b[s] THEN b[s] ELSE latest
<1>2. latest \in 1 .. n /\ b \in [Stores -> Nat] /\ b[s] \in 1 .. n
  BY <1>1 DEF Rounds, Listing
<1>3. n \in Nat /\ late \in 1 .. n /\ late >= latest /\ late >= b[s] /\ (late = latest \/ late = b[s])
  BY <1>2 DEF Numbered
<1>4. st1[s].at = "insert" /\ \A t \in Stores \ {s} : st1[t] = st[t]
  BY DEF Idle
<1>5. own1 \subseteq own /\ all1 \subseteq all
  OBVIOUS
<1> HIDE DEF late, own1, all1
<1>6. \A j : /\ Before(own1, j) \subseteq Before(own, j) /\ Before(all1, j) \subseteq Before(all, j)
            /\ From(own1, j) \subseteq From(own, j)
  BY <1>5 DEF Before, From
<1>7. Cardinality(Before(own1, late)) <= MaxSummaries - 1
  <2>1. CASE late = latest
    <3>1. /\ Cardinality(Before(own1, late)) \in Nat /\ Cardinality(Before(own, latest)) \in Nat
          /\ Cardinality(Before(own1, late)) <= Cardinality(Before(own, latest))
      BY <1>6, <2>1, SmallerCount, NumberedAreFinite
    <3>. QED
      BY <1>1, <3>1, MemoryAssumption DEF Rounds
  <2>2. CASE late = b[s]
    BY <1>1, <2>2 DEF Rounds, own1
  <2>. QED
    BY <1>3, <2>1, <2>2
<1>8. ASSUME NEW t \in Stores, st1[t].at = "select"
      PROVE  Cardinality(Before(all1, b[t])) <= st1[t].overflow + MaxSummaries - 1
  <2>1. st1[t] = st[t] /\ st[t] \in StoreRow /\ 0 .. MaxRows \subseteq Nat
    BY <1>4, <1>8, MemoryAssumption
  <2>2. st[t].overflow \in Nat
    BY <2>1 DEF StoreRow
  <2>3. /\ Cardinality(Before(all1, b[t])) \in Nat /\ Cardinality(Before(all, b[t])) \in Nat
        /\ Cardinality(Before(all1, b[t])) <= Cardinality(Before(all, b[t]))
    BY <1>6, SmallerCount, NumberedAreFinite
  <2>4. Cardinality(Before(all, b[t])) <= st[t].overflow + MaxSummaries - 1
    BY <1>1, <1>8, <2>1 DEF Rounds
  <2>5. MaxSummaries \in Nat
    BY MemoryAssumption
  <2>6. Cardinality(Before(all1, b[t])) <= st[t].overflow + MaxSummaries - 1
    BY <2>2, <2>3, <2>4, <2>5
  <2>. QED
    BY <2>1, <2>6
<1>9. ASSUME NEW t \in Stores, st1[t].at = "evict"
      PROVE  Cardinality(Before(own1 \ st1[t].ids, b[t])) <= MaxSummaries - 1
  <2>1. st1[t] = st[t]
    BY <1>4, <1>9
  <2>2. Before(own1 \ st1[t].ids, b[t]) \subseteq Before(own \ st[t].ids, b[t])
    BY <1>5, <2>1 DEF Before
  <2>3. Before(own \ st[t].ids, b[t]) \subseteq own
    BY DEF Before
  <2>4. IsFiniteSet(Before(own \ st[t].ids, b[t]))
    BY <2>3, SmallerCount, NumberedAreFinite
  <2>5. /\ Cardinality(Before(own1 \ st1[t].ids, b[t])) \in Nat
        /\ Cardinality(Before(own \ st[t].ids, b[t])) \in Nat
        /\ Cardinality(Before(own1 \ st1[t].ids, b[t])) <= Cardinality(Before(own \ st[t].ids, b[t]))
    BY <2>2, <2>4, SmallerCount
  <2>6. Cardinality(Before(own \ st[t].ids, b[t])) <= MaxSummaries - 1
    BY <1>1, <1>9, <2>1 DEF Rounds
  <2>. QED
    BY <2>5, <2>6, MemoryAssumption
<1>10. ASSUME NEW k \in late .. n
       PROVE  Crowd(own1, st1, b, k) <= Cardinality(Stores)
  <2>1. k \in latest .. n /\ b[s] <= k
    BY <1>2, <1>3
  <2>2. s \notin Ready(st) /\ Ready(st1) = Ready(st) \cup {s}
    BY <1>4 DEF Ready
  <2>3. s \in Waiting(st, b, k) /\ Waiting(st1, b, k) = Waiting(st, b, k) \ {s}
    BY <1>4, <2>1 DEF Waiting, Listing
  <2>4. Cardinality(Ready(st1)) = Cardinality(Ready(st)) + 1
    BY <2>2, StoresAreFinite, FS_AddElement
  <2>5. Cardinality(Waiting(st1, b, k)) = Cardinality(Waiting(st, b, k)) - 1
    BY <2>3, StoresAreFinite, FS_RemoveElement
  <2>6. /\ Cardinality(From(own1, k)) \in Nat /\ Cardinality(From(own, k)) \in Nat
        /\ Cardinality(From(own1, k)) <= Cardinality(From(own, k))
    BY <1>6, SmallerCount, NumberedAreFinite
  <2>7. Crowd(own, st, b, k) <= Cardinality(Stores)
    BY <1>1, <2>1 DEF Rounds
  <2>. QED
    BY <2>4, <2>5, <2>6, <2>7, StoresAreFinite DEF Crowd
<1>11. \A t \in Stores : st1[t].at \in Listing => b[t] \in 1 .. n
  BY <1>1, <1>2, <1>4 DEF Rounds
<1>12. Rounds(b, late, own1, all1, n, st1)
  BY <1>2, <1>3, <1>7, <1>8, <1>9, <1>10, <1>11 DEF Rounds
<1>. QED
  BY <1>12 DEF RoundsFit, own1, all1

-----------------------------------------------------------------------------
(* The rows.                                                               *)

Row == [id : 1 .. MaxRows, kind : Kinds, salience : 0 .. Full, age : 0 .. StaleAge,
        decayed : 0 .. StaleAge]

OwnSummaries(rows) == {m \in rows : m.kind = "summary"}
AllSummaries(rows) == {m \in rows : IsSummary(m)}
FactsOf(rows) == {m \in rows : ~IsSummary(m)}

(* Ids are given once and in order, and no row changed after it faded.     *)
RowsOK(rows, n) ==
  /\ rows \subseteq Row /\ n \in 1 .. MaxRows + 1
  /\ \A m \in rows : m.id < n /\ m.age <= m.decayed
  /\ \A m, o \in rows : m.id = o.id => m = o

LEMMA RowsAreIds ==
  ASSUME NEW rows, NEW n, RowsOK(rows, n), NEW R, R \subseteq rows
  PROVE  /\ IsFiniteSet(R) /\ IsFiniteSet(Ids(R)) /\ Cardinality(Ids(R)) = Cardinality(R)
         /\ Cardinality(R) \in Nat /\ Cardinality(R) <= MaxRows
         /\ Ids(R) \in SUBSET (1 .. n - 1) /\ Ids(R) \in SUBSET (1 .. MaxRows)
<1> DEFINE f == [m \in R |-> m.id]
<1>1. /\ n \in 1 .. MaxRows + 1 /\ MaxRows \in Nat
      /\ \A m \in R : m.id \in 1 .. MaxRows /\ m.id < n
  BY MemoryAssumption DEF RowsOK, Row
<1>2. \A m \in R : m.id \in 1 .. n - 1
  BY <1>1
<1>3. Ids(R) \subseteq 1 .. n - 1 /\ Ids(R) \subseteq 1 .. MaxRows
  BY <1>1, <1>2 DEF Ids
<1>4. IsFiniteSet(1 .. MaxRows) /\ Cardinality(1 .. MaxRows) = MaxRows
  BY <1>1, FS_Interval
<1>5. IsFiniteSet(Ids(R)) /\ Cardinality(Ids(R)) <= MaxRows
  BY <1>3, <1>4, FS_Subset
<1>6. f \in Injection(R, Ids(R))
  BY DEF Injection, IsInjective, RowsOK, Ids
<1>7. f \in Surjection(R, Ids(R))
  BY DEF Surjection, Ids
<1> HIDE DEF f
<1>8. IsFiniteSet(R) /\ Cardinality(R) = Cardinality(Ids(R))
  BY <1>5, <1>6, <1>7, FS_Injection
<1>. QED
  BY <1>3, <1>5, <1>8, FS_CardinalityType

LEMMA IdsAreNumbered ==
  ASSUME NEW rows, NEW n, RowsOK(rows, n)
  PROVE  Numbered(Ids(OwnSummaries(rows)), Ids(AllSummaries(rows)), n)
<1>1. OwnSummaries(rows) \subseteq AllSummaries(rows) /\ AllSummaries(rows) \subseteq rows
  BY DEF OwnSummaries, AllSummaries, IsSummary
<1>2. Ids(OwnSummaries(rows)) \subseteq Ids(AllSummaries(rows))
  BY <1>1 DEF Ids
<1>3. Ids(AllSummaries(rows)) \in SUBSET (1 .. n - 1)
  BY <1>1, RowsAreIds
<1>4. n \in Nat \ {0}
  BY MemoryAssumption DEF RowsOK
<1>. QED
  BY <1>2, <1>3, <1>4 DEF Numbered

(* Rows that keep their id and kind.                                       *)
LEMMA RowsChanged ==
  ASSUME NEW rows, NEW n, RowsOK(rows, n), NEW g \in [rows -> Row],
         \A m \in rows : g[m].id = m.id /\ g[m].kind = m.kind /\ g[m].age <= g[m].decayed
  PROVE  LET changed == {g[m] : m \in rows}
         IN  /\ RowsOK(changed, n)
             /\ Ids(changed) = Ids(rows)
             /\ Ids(OwnSummaries(changed)) = Ids(OwnSummaries(rows))
             /\ Ids(AllSummaries(changed)) = Ids(AllSummaries(rows))
             /\ Ids(FactsOf(changed)) = Ids(FactsOf(rows))
<1> DEFINE changed == {g[m] : m \in rows}
<1>1. changed \subseteq Row /\ \A m \in changed : \E o \in rows : m = g[o]
  OBVIOUS
<1>2. \A m \in changed : m.id < n /\ m.age <= m.decayed
  BY DEF RowsOK
<1>3. \A m, o \in changed : m.id = o.id => m = o
  BY DEF RowsOK
<1>4. RowsOK(changed, n)
  BY <1>1, <1>2, <1>3 DEF RowsOK
<1>5. \A i : i \in Ids(changed) <=> i \in Ids(rows)
  BY DEF Ids
<1>6. \A i : i \in Ids(OwnSummaries(changed)) <=> i \in Ids(OwnSummaries(rows))
  BY DEF Ids, OwnSummaries
<1>7. \A i : i \in Ids(AllSummaries(changed)) <=> i \in Ids(AllSummaries(rows))
  BY DEF Ids, AllSummaries, IsSummary
<1>8. \A i : i \in Ids(FactsOf(changed)) <=> i \in Ids(FactsOf(rows))
  BY DEF Ids, FactsOf, IsSummary
<1>. QED
  BY <1>4, <1>5, <1>6, <1>7, <1>8

(* A row more.                                                             *)
NewRow(n, kind, salience) ==
  [id |-> n, kind |-> kind, salience |-> salience, age |-> 0, decayed |-> StaleAge]

WithRow(rows, n, kind, salience) == rows \cup {NewRow(n, kind, salience)}

LEMMA RowAdded ==
  ASSUME NEW rows, NEW n, RowsOK(rows, n), n <= MaxRows, NEW kind \in Kinds, NEW salience \in 0 .. Full
  PROVE  /\ RowsOK(WithRow(rows, n, kind, salience), n + 1)
         /\ Ids(OwnSummaries(WithRow(rows, n, kind, salience)))
              = Ids(OwnSummaries(rows)) \cup (IF kind = "summary" THEN {n} ELSE {})
         /\ Ids(AllSummaries(WithRow(rows, n, kind, salience)))
              = Ids(AllSummaries(rows)) \cup (IF kind # "fact" THEN {n} ELSE {})
         /\ Ids(FactsOf(WithRow(rows, n, kind, salience)))
              = Ids(FactsOf(rows)) \cup (IF kind = "fact" THEN {n} ELSE {})
<1> DEFINE new == NewRow(n, kind, salience)
           more == WithRow(rows, n, kind, salience)
<1>0. more = rows \cup {new}
  BY DEF WithRow
<1>1. n \in 1 .. MaxRows /\ n \in Nat /\ MaxRows \in Nat /\ StaleAge \in Nat /\ n + 1 \in 1 .. MaxRows + 1
  BY MemoryAssumption DEF RowsOK
<1>2. new \in Row /\ new.id = n /\ new.age = 0 /\ new.decayed = StaleAge /\ new.kind = kind
  BY <1>1 DEF Row, NewRow
<1>3. \A m \in rows : m.id \in Nat /\ m.id < n /\ m.id # n /\ m.id < n + 1
  BY <1>1 DEF RowsOK, Row
<1> HIDE DEF new, more
<1>4. RowsOK(more, n + 1)
  BY <1>0, <1>1, <1>2, <1>3 DEF RowsOK
<1>5. /\ OwnSummaries(more) = IF kind = "summary" THEN OwnSummaries(rows) \cup {new} ELSE OwnSummaries(rows)
      /\ AllSummaries(more) = IF kind # "fact" THEN AllSummaries(rows) \cup {new} ELSE AllSummaries(rows)
      /\ FactsOf(more) = IF kind = "fact" THEN FactsOf(rows) \cup {new} ELSE FactsOf(rows)
  BY <1>0, <1>2 DEF OwnSummaries, AllSummaries, FactsOf, IsSummary
<1>6. \A R : Ids(R \cup {new}) = Ids(R) \cup {n}
  BY <1>2 DEF Ids
<1>. QED
  BY <1>4, <1>5, <1>6 DEF more

(* Rows fewer.                                                             *)
LEMMA RowsDropped ==
  ASSUME NEW rows, NEW n, RowsOK(rows, n), NEW fewer, fewer \subseteq rows
  PROVE  /\ RowsOK(fewer, n)
         /\ Ids(fewer) \subseteq Ids(rows)
         /\ Ids(OwnSummaries(fewer)) \subseteq Ids(OwnSummaries(rows))
         /\ Ids(AllSummaries(fewer)) \subseteq Ids(AllSummaries(rows))
         /\ Ids(FactsOf(fewer)) \subseteq Ids(FactsOf(rows))
BY DEF RowsOK, Ids, OwnSummaries, AllSummaries, FactsOf

-----------------------------------------------------------------------------
(* The invariant, in parts.                                                *)

OwnIds == Ids(OwnSummaries(memories))
SummaryIds == Ids(AllSummaries(memories))
FactIds == Ids(FactsOf(memories))

(* A store selects because it counted too many.                            *)
CountsAreOver == \A s \in Stores : store[s].at = "select" => store[s].overflow > 0

(* What is listed for eviction are the oldest, of those that are left.     *)
ListsAreOldest ==
  \A s \in Stores : store[s].at = "evict" =>
    /\ store[s].ids \subseteq 1 .. nextId - 1
    /\ \A j \in store[s].ids, i \in SummaryIds : i < j => i \in store[s].ids

(* While counts are true, an eviction leaves what is to be retained.       *)
EnoughAreLeft ==
  (~erased /\ ~outdated) =>
    /\ Cardinality(SummaryIds) >= stored \/ Cardinality(SummaryIds) >= MaxSummaries - 1
    /\ \A s \in Stores : store[s].at = "evict" =>
         Cardinality(SummaryIds \ store[s].ids) >= MaxSummaries - 1

(* Whoever evicts the last summary has one to insert.                      *)
OneIsLeft == (~erased /\ ~cutShort /\ stored > 0) => SummaryIds # {} \/ Ready(store) # {}

StoresHold ==
  /\ store \in [Stores -> StoreRow] /\ stored \in 0 .. MaxSummaries
  /\ quotaLost \in BOOLEAN /\ cutShort \in BOOLEAN /\ outdated \in BOOLEAN /\ erased \in BOOLEAN
  /\ RoundsFit(OwnIds, SummaryIds, nextId, store)
  /\ CountsAreOver /\ ListsAreOldest /\ EnoughAreLeft /\ OneIsLeft

KnownActions == {Insert("fact"), Insert("told")} \cup {Update(i) : i \in 1 .. MaxRows}

Batch == [at : {"idle", "count", "apply"}, actions : Seq(KnownActions), room : Int]

BatchFits(b) ==
  /\ Len(b.actions) <= BatchSize /\ b.room <= BatchSize + MemoryLimit
  /\ b.at # "idle" => b.actions # <<>>

(* The inserts a batch that has counted may still make, one by one.        *)
Vacancies ==
  {p \in Extractions \X (1 .. BatchSize) :
     /\ extraction[p[1]].at = "apply"
     /\ p[2] <= extraction[p[1]].room /\ p[2] <= Len(extraction[p[1]].actions)}

Spread == IF BatchSize <= MemoryLimit THEN BatchSize ELSE MemoryLimit

FactBound == MemoryLimit + (Cardinality(Extractions) - 1) * Spread

FactsFit ==
  ~quotaLost =>
    /\ \A x \in Extractions : extraction[x].at = "apply" => extraction[x].room <= MemoryLimit
    /\ Cardinality(FactIds) + Cardinality(Vacancies) <= FactBound

FactsHold ==
  /\ extraction \in [Extractions -> Batch] /\ \A x \in Extractions : BatchFits(extraction[x])
  /\ FactsFit

(* A row on decay's list has not faded since it was listed.                *)
DecayHolds ==
  /\ decay \in [at : {"idle", "list", "fade"}, listed : SUBSET Row] /\ cooling \in BOOLEAN
  /\ \A l \in decay.listed : l.id < nextId
  /\ \A l, k \in decay.listed : l.id = k.id => l = k
  /\ \A l \in decay.listed, m \in memories : l.id = m.id => m.decayed = StaleAge

MemoryIInv == RowsOK(memories, nextId) /\ StoresHold /\ FactsHold /\ DecayHolds

LEMMA MemoryStarts == MemoryInit => MemoryIInv
<1> SUFFICES ASSUME MemoryInit PROVE MemoryIInv
  OBVIOUS
<1>1. RowsOK(memories, nextId) /\ nextId = 1
  BY MemoryAssumption DEF MemoryInit, RowsOK
<1>2. OwnIds = {} /\ SummaryIds = {} /\ FactIds = {}
  BY DEF MemoryInit, OwnIds, SummaryIds, FactIds, OwnSummaries, AllSummaries, FactsOf, Ids
<1>3. store \in [Stores -> StoreRow] /\ \A s \in Stores : store[s].at = "idle"
  BY MemoryAssumption DEF MemoryInit, Idle, StoreRow
<1>4. RoundsFit({}, {}, 1, store)
  <2> DEFINE b == [s \in Stores |-> 1]
  <2>1. Before({}, 1) = {} /\ From({}, 1) = {} /\ Ready(store) = {} /\ Waiting(store, b, 1) = {}
    BY <1>3 DEF Before, From, Ready, Waiting, Listing
  <2>2. Crowd({}, store, b, 1) <= Cardinality(Stores)
    BY <2>1, FS_EmptySet, StoresAreFinite DEF Crowd
  <2>3. \A k \in 1 .. 1 : k = 1
    OBVIOUS
  <2>4. Cardinality(Before({}, 1)) <= MaxSummaries - 1
    BY <2>1, FS_EmptySet, MemoryAssumption
  <2>5. Rounds(b, 1, {}, {}, 1, store)
    BY <1>3, <2>2, <2>3, <2>4 DEF Rounds, Listing
  <2>. QED
    BY <2>5 DEF RoundsFit
<1>5. StoresHold
  <2>0. stored = 0 /\ quotaLost \in BOOLEAN /\ cutShort \in BOOLEAN /\ outdated \in BOOLEAN /\ erased \in BOOLEAN
    BY Zenon DEF MemoryInit
  <2>1. /\ stored = 0 /\ 0 \in 0 .. MaxSummaries /\ ~(0 > 0)
        /\ quotaLost \in BOOLEAN /\ cutShort \in BOOLEAN /\ outdated \in BOOLEAN /\ erased \in BOOLEAN
    BY <2>0, MemoryAssumption
  <2>2. RoundsFit(OwnIds, SummaryIds, nextId, store)
    BY <1>1, <1>2, <1>4
  <2>3. CountsAreOver /\ ListsAreOldest /\ OneIsLeft
    BY <1>3, <2>1 DEF CountsAreOver, ListsAreOldest, OneIsLeft
  <2>4. EnoughAreLeft
    BY <1>2, <1>3, <2>1, FS_EmptySet DEF EnoughAreLeft
  <2>. QED
    BY <1>3, <2>1, <2>2, <2>3, <2>4 DEF StoresHold
<1>6. extraction \in [Extractions -> Batch] /\ \A x \in Extractions : extraction[x] = NoActions
  BY DEF MemoryInit, NoActions, Batch
<1>7. FactsHold
  <2>1. Vacancies = {}
    BY <1>6 DEF Vacancies, NoActions
  <2>2. \A x \in Extractions : BatchFits(extraction[x]) /\ extraction[x].at = "idle"
    BY <1>6, MemoryAssumption DEF NoActions, BatchFits
  <2>3. Cardinality(Extractions) \in Nat /\ BatchSize \in Nat /\ MemoryLimit \in Nat
    BY MemoryAssumption, FS_CardinalityType
  <2>4. 0 <= MemoryLimit + (Cardinality(Extractions) - 1) * Spread
    <3>1. CASE Cardinality(Extractions) = 0
      BY <2>3, <3>1 DEF Spread
    <3>2. CASE Cardinality(Extractions) > 0
      <4>1. PICK e \in Nat : e = Cardinality(Extractions) - 1
        BY <2>3, <3>2
      <4>2. PICK w \in Nat : w = Spread
        BY <2>3 DEF Spread
      <4>3. e * w >= 0
        BY <4>1, <4>2
      <4>. QED
        BY <2>3, <4>1, <4>2, <4>3
    <3>. QED
      BY <2>3, <3>1, <3>2
  <2>. QED
    BY <1>2, <1>6, <2>1, <2>2, <2>4, FS_EmptySet DEF FactsHold, FactsFit, FactBound
<1>8. DecayHolds
  BY DEF DecayHolds, MemoryInit, Resting
<1>. QED
  BY <1>1, <1>5, <1>7, <1>8 DEF MemoryIInv

LEMMA VacanciesAreFinite == IsFiniteSet(Vacancies) /\ FactBound \in Int
<1>1. BatchSize \in Nat /\ MemoryLimit \in Nat /\ IsFiniteSet(Extractions)
  BY MemoryAssumption
<1>2. IsFiniteSet(1 .. BatchSize) /\ Cardinality(Extractions) \in Nat
  BY <1>1, FS_Interval, FS_CardinalityType
<1>3. IsFiniteSet(Extractions \X (1 .. BatchSize))
  BY <1>1, <1>2, FS_Product
<1>4. Vacancies \subseteq Extractions \X (1 .. BatchSize)
  BY DEF Vacancies
<1>. QED
  BY <1>1, <1>2, <1>3, <1>4, FS_Subset DEF FactBound, Spread

(* What the invariant says.                                                *)
LEMMA MemoryIsSound == MemoryIInv => MemoryInv
<1> SUFFICES ASSUME MemoryIInv PROVE MemoryInv
  OBVIOUS
<1>1. RowsOK(memories, nextId) /\ StoresHold /\ FactsHold /\ DecayHolds
  BY DEF MemoryIInv
<1>2. /\ OwnSummaries(memories) \subseteq memories /\ AllSummaries(memories) \subseteq memories
      /\ FactsOf(memories) \subseteq memories
      /\ Summaries = AllSummaries(memories) /\ Facts = FactsOf(memories)
      /\ {m \in memories : m.kind = "summary"} = OwnSummaries(memories)
  BY DEF OwnSummaries, AllSummaries, FactsOf, Summaries, Facts
<1>3. /\ Cardinality(memories) = Cardinality(Ids(memories))
      /\ Cardinality(OwnSummaries(memories)) = Cardinality(OwnIds)
      /\ Cardinality(Summaries) = Cardinality(SummaryIds)
      /\ Cardinality(Facts) = Cardinality(FactIds)
      /\ {Cardinality(SummaryIds), Cardinality(FactIds)} \subseteq Nat
  BY <1>1, <1>2, RowsAreIds DEF OwnIds, SummaryIds, FactIds
<1>4. MemoryTypeOK
  <2>1. \A m \in memories : m \in [id : 1 .. MaxRows, kind : Kinds, salience : 0 .. Full,
                                   age : 0 .. StaleAge, decayed : 0 .. StaleAge]
    BY <1>1 DEF RowsOK, Row
  <2>2. nextId \in 1 .. MaxRows + 1
    BY <1>1 DEF RowsOK
  <2>3. store \in [Stores -> [at : {"idle", "embed", "count", "select", "evict", "insert"},
                              overflow : 0 .. MaxRows, ids : SUBSET (1 .. MaxRows)]]
    BY <1>1 DEF StoresHold, StoreRow
  <2>4. \A x \in Extractions :
          /\ extraction[x].at \in {"idle", "count", "apply"}
          /\ extraction[x].room <= BatchSize + MemoryLimit
          /\ Len(extraction[x].actions) <= BatchSize
    BY <1>1 DEF FactsHold, Batch, BatchFits
  <2>5. decay.at \in {"idle", "list", "fade"} /\ cooling \in BOOLEAN
    BY <1>1 DEF DecayHolds
  <2>. QED
    BY <1>3, <2>1, <2>2, <2>3, <2>4, <2>5 DEF MemoryTypeOK
<1>5. SummariesAreBounded
  <2>1. Numbered(OwnIds, SummaryIds, nextId)
    BY <1>1, IdsAreNumbered DEF OwnIds, SummaryIds
  <2>2. Cardinality(OwnIds) <= MaxSummaries - 1 + Cardinality(Stores)
    BY <1>1, <2>1, RoundsBound DEF StoresHold
  <2>. QED
    BY <1>2, <1>3, <2>2 DEF SummariesAreBounded
<1>6. LatestSummariesRemain
  <2> SUFFICES ASSUME ~erased
               PROVE  /\ ~outdated => Cardinality(Summaries) >= Min({stored, MaxSummaries - 1})
                      /\ (~cutShort /\ stored > 0 /\ \A s \in Stores : store[s].at = "idle") => Summaries # {}
    BY DEF LatestSummariesRemain
  <2>1. ASSUME ~outdated PROVE Cardinality(Summaries) >= Min({stored, MaxSummaries - 1})
    <3>1. Cardinality(Summaries) >= stored \/ Cardinality(Summaries) >= MaxSummaries - 1
      BY <1>1, <1>3, <2>1 DEF StoresHold, EnoughAreLeft
    <3>2. stored \in Nat /\ MaxSummaries - 1 \in Nat
      BY <1>1, MemoryAssumption DEF StoresHold
    <3>3. \E i \in {stored, MaxSummaries - 1} : \A j \in {stored, MaxSummaries - 1} : i <= j
      BY <3>2
    <3>4. /\ Min({stored, MaxSummaries - 1}) \in {stored, MaxSummaries - 1}
          /\ \A j \in {stored, MaxSummaries - 1} : Min({stored, MaxSummaries - 1}) <= j
      BY <3>3 DEF Min
    <3>. QED
      BY <1>3, <3>1, <3>2, <3>4
  <2>2. ASSUME ~cutShort, stored > 0, \A s \in Stores : store[s].at = "idle" PROVE Summaries # {}
    <3>1. Ready(store) = {}
      BY <2>2 DEF Ready
    <3>2. SummaryIds # {}
      BY <1>1, <2>2, <3>1 DEF StoresHold, OneIsLeft
    <3>. QED
      BY <1>2, <3>2 DEF SummaryIds, Ids
  <2>. QED
    BY <2>1, <2>2
<1>7. FactsAreLimited
  <2> SUFFICES ASSUME ~quotaLost
               PROVE  Cardinality(Facts) <= MemoryLimit
                        + (Cardinality(Extractions) - 1) * Min({BatchSize, MemoryLimit})
    BY DEF FactsAreLimited
  <2>1. BatchSize \in Nat /\ MemoryLimit \in Nat /\ Cardinality(Extractions) \in Nat
    BY MemoryAssumption, FS_CardinalityType
  <2>2. Min({BatchSize, MemoryLimit}) = Spread
    <3>1. Spread \in {BatchSize, MemoryLimit} /\ \A j \in {BatchSize, MemoryLimit} : Spread <= j
      BY <2>1 DEF Spread
    <3>2. \A i \in {BatchSize, MemoryLimit} :
            (\A j \in {BatchSize, MemoryLimit} : i <= j) => i = Spread
      BY <2>1, <3>1
    <3>. QED
      BY <3>1, <3>2 DEF Min
  <2>4. Cardinality(Vacancies) \in Nat
    BY VacanciesAreFinite, FS_CardinalityType
  <2>5. Cardinality(FactIds) + Cardinality(Vacancies) <= FactBound
    BY <1>1 DEF FactsHold, FactsFit
  <2>6. FactBound \in Int
    BY <2>1 DEF FactBound, Spread
  <2>7. Cardinality(Facts) <= FactBound
    BY <1>3, <2>4, <2>5, <2>6
  <2>. QED
    BY <2>2, <2>7 DEF FactBound
<1>. QED
  BY <1>4, <1>5, <1>6, <1>7 DEF MemoryInv

-----------------------------------------------------------------------------
(* What leaves a part alone.                                               *)

(* The stores, when rows of another kind come and rows go.                 *)
LEMMA StoresAreLeft ==
  ASSUME RowsOK(memories, nextId), StoresHold, RowsOK(memories, nextId)', nextId <= nextId',
         UNCHANGED <<store, stored, cutShort, outdated>>, quotaLost' \in BOOLEAN, erased' \in BOOLEAN,
         OwnIds' \subseteq OwnIds, \A i \in SummaryIds' : i \in SummaryIds \/ i >= nextId,
         ~erased' => ~erased /\ SummaryIds \subseteq SummaryIds'
  PROVE  StoresHold'
<1>1. Numbered(OwnIds, SummaryIds, nextId) /\ Numbered(OwnIds, SummaryIds, nextId)'
  BY IdsAreNumbered DEF OwnIds, SummaryIds
<1>2. RoundsFit(OwnIds, SummaryIds, nextId, store)'
  <2>1. RoundsFit(OwnIds', SummaryIds', nextId', store)
    BY <1>1, RoundsStay DEF StoresHold
  <2>. QED
    BY <2>1
<1>3. ListsAreOldest'
  <2> SUFFICES ASSUME NEW s \in Stores, store[s].at = "evict"
               PROVE  /\ store[s].ids \subseteq 1 .. nextId' - 1
                      /\ \A j \in store[s].ids, i \in SummaryIds' : i < j => i \in store[s].ids
    BY DEF ListsAreOldest
  <2>1. /\ store[s].ids \subseteq 1 .. nextId - 1
        /\ \A j \in store[s].ids, i \in SummaryIds : i < j => i \in store[s].ids
    BY DEF StoresHold, ListsAreOldest
  <2>2. nextId \in Nat /\ nextId' \in Nat /\ SummaryIds' \subseteq Nat
    BY <1>1 DEF Numbered
  <2>3. store[s].ids \subseteq 1 .. nextId' - 1
    BY <2>1, <2>2
  <2>4. ASSUME NEW j \in store[s].ids, NEW i \in SummaryIds', i < j PROVE i \in store[s].ids
    BY <2>1, <2>2, <2>4
  <2>. QED
    BY <2>3, <2>4
<1>4. EnoughAreLeft'
  <2> SUFFICES ASSUME ~erased', ~outdated
               PROVE  /\ Cardinality(SummaryIds') >= stored \/ Cardinality(SummaryIds') >= MaxSummaries - 1
                      /\ \A s \in Stores : store[s].at = "evict" =>
                           Cardinality(SummaryIds' \ store[s].ids) >= MaxSummaries - 1
    BY DEF EnoughAreLeft
  <2>1. /\ Cardinality(SummaryIds) >= stored \/ Cardinality(SummaryIds) >= MaxSummaries - 1
        /\ \A s \in Stores : store[s].at = "evict" => Cardinality(SummaryIds \ store[s].ids) >= MaxSummaries - 1
    BY DEF StoresHold, EnoughAreLeft
  <2>2. IsFiniteSet(SummaryIds') /\ SummaryIds \subseteq SummaryIds' /\ stored \in Nat /\ MaxSummaries \in Nat
    BY <1>1, NumberedAreFinite, MemoryAssumption DEF StoresHold
  <2>3. /\ Cardinality(SummaryIds) \in Nat /\ Cardinality(SummaryIds') \in Nat
        /\ Cardinality(SummaryIds) <= Cardinality(SummaryIds')
    BY <2>2, SmallerCount
  <2>4. ASSUME NEW s \in Stores, store[s].at = "evict"
        PROVE  Cardinality(SummaryIds' \ store[s].ids) >= MaxSummaries - 1
    <3>1. IsFiniteSet(SummaryIds' \ store[s].ids)
      BY <2>2, SmallerCount
    <3>2. SummaryIds \ store[s].ids \subseteq SummaryIds' \ store[s].ids
      BY <2>2
    <3>3. /\ Cardinality(SummaryIds \ store[s].ids) \in Nat /\ Cardinality(SummaryIds' \ store[s].ids) \in Nat
          /\ Cardinality(SummaryIds \ store[s].ids) <= Cardinality(SummaryIds' \ store[s].ids)
      BY <3>1, <3>2, SmallerCount
    <3>4. Cardinality(SummaryIds \ store[s].ids) >= MaxSummaries - 1
      BY <2>1, <2>4
    <3>. QED
      BY <2>2, <3>3, <3>4
  <2>. QED
    BY <2>1, <2>2, <2>3, <2>4
<1>5. OneIsLeft'
  <2> SUFFICES ASSUME ~erased', ~cutShort, stored > 0 PROVE SummaryIds' # {} \/ Ready(store) # {}
    BY DEF OneIsLeft
  <2>. QED
    BY DEF StoresHold, OneIsLeft
<1>6. /\ store' \in [Stores -> StoreRow] /\ stored' \in 0 .. MaxSummaries
      /\ quotaLost' \in BOOLEAN /\ cutShort' \in BOOLEAN /\ outdated' \in BOOLEAN /\ erased' \in BOOLEAN
      /\ CountsAreOver'
  BY DEF StoresHold, CountsAreOver
<1>. QED
  BY <1>2, <1>3, <1>4, <1>5, <1>6 DEF StoresHold

(* The facts, when no batch counts and no fact comes.                      *)
LEMMA FactsAreLeft ==
  ASSUME RowsOK(memories, nextId), FactsHold, UNCHANGED quotaLost, FactIds' \subseteq FactIds,
         extraction' \in [Extractions -> Batch],
         \A x \in Extractions :
           /\ BatchFits(extraction'[x])
           /\ extraction'[x].at = "apply" =>
                /\ extraction[x].at = "apply" /\ extraction'[x].room <= extraction[x].room
                /\ Len(extraction'[x].actions) <= Len(extraction[x].actions)
  PROVE  FactsHold'
<1>1. FactsOf(memories) \subseteq memories
  BY DEF FactsOf
<1>2. IsFiniteSet(FactIds)
  BY <1>1, RowsAreIds DEF FactIds
<1>3. /\ Cardinality(FactIds) \in Nat /\ Cardinality(FactIds') \in Nat
      /\ Cardinality(FactIds') <= Cardinality(FactIds)
  BY <1>2, SmallerCount
<1>4. \A x \in Extractions : /\ extraction[x].room \in Int /\ extraction'[x].room \in Int
                             /\ Len(extraction[x].actions) \in Nat /\ Len(extraction'[x].actions) \in Nat
  BY LenProperties DEF FactsHold, Batch
<1>5. Vacancies' \subseteq Vacancies
  <2> SUFFICES ASSUME NEW x \in Extractions, NEW i \in 1 .. BatchSize, extraction'[x].at = "apply",
                      i <= extraction'[x].room, i <= Len(extraction'[x].actions)
               PROVE  extraction[x].at = "apply" /\ i <= extraction[x].room /\ i <= Len(extraction[x].actions)
    BY DEF Vacancies
  <2>. QED
    BY <1>4, MemoryAssumption
<1>6. /\ Cardinality(Vacancies) \in Nat /\ Cardinality(Vacancies') \in Nat
      /\ Cardinality(Vacancies') <= Cardinality(Vacancies)
  BY <1>5, VacanciesAreFinite, SmallerCount
<1>7. FactsFit'
  <2> SUFFICES ASSUME ~quotaLost
               PROVE  /\ \A x \in Extractions : extraction'[x].at = "apply" => extraction'[x].room <= MemoryLimit
                      /\ Cardinality(FactIds') + Cardinality(Vacancies') <= FactBound
    BY DEF FactsFit, FactBound, Spread
  <2>1. /\ \A x \in Extractions : extraction[x].at = "apply" => extraction[x].room <= MemoryLimit
        /\ Cardinality(FactIds) + Cardinality(Vacancies) <= FactBound
    BY DEF FactsHold, FactsFit
  <2>2. FactBound \in Int /\ MemoryLimit \in Nat
    BY VacanciesAreFinite, MemoryAssumption
  <2>. QED
    BY <1>3, <1>4, <1>6, <2>1, <2>2
<1>8. \A x \in Extractions : BatchFits(extraction[x])'
  BY DEF BatchFits
<1>. QED
  BY <1>7, <1>8 DEF FactsHold

(* Decay, when rows keep what they are, and others come and go.            *)
LEMMA DecayIsLeft ==
  ASSUME RowsOK(memories, nextId), DecayHolds, UNCHANGED decay, cooling' \in BOOLEAN,
         nextId' \in Nat, nextId <= nextId',
         \A m \in memories' :
           \/ m.id \in Nat /\ m.id >= nextId
           \/ \E o \in memories : o.id = m.id /\ (o.decayed = StaleAge => m.decayed = StaleAge)
  PROVE  DecayHolds'
<1>1. nextId \in Nat
  BY MemoryAssumption DEF RowsOK
<1>2. \A l \in decay.listed : l.id \in Nat /\ l.id < nextId
  BY MemoryAssumption DEF DecayHolds, Row
<1>3. \A l \in decay.listed : l.id < nextId'
  BY <1>1, <1>2
<1>4. ASSUME NEW l \in decay.listed, NEW m \in memories', l.id = m.id PROVE m.decayed = StaleAge
  <2>1. ~(m.id >= nextId)
    BY <1>1, <1>2, <1>4
  <2>. QED
    BY <1>4, <2>1 DEF DecayHolds
<1>. QED
  BY <1>3, <1>4 DEF DecayHolds

-----------------------------------------------------------------------------
(* The steps of a store.                                                   *)

(* A step that touches no row.                                             *)
LEMMA RowsAreLeft ==
  ASSUME MemoryIInv, UNCHANGED <<memories, nextId, extraction, decay, cooling, quotaLost>>
  PROVE  /\ (RowsOK(memories, nextId) /\ FactsHold /\ DecayHolds)'
         /\ OwnIds' = OwnIds /\ SummaryIds' = SummaryIds /\ FactIds' = FactIds
<1>1. OwnIds' = OwnIds /\ SummaryIds' = SummaryIds /\ FactIds' = FactIds
  BY DEF OwnIds, SummaryIds, FactIds
<1>2. RowsOK(memories, nextId)' /\ DecayHolds'
  BY DEF MemoryIInv, DecayHolds
<1>3. FactsHold'
  BY <1>1 DEF MemoryIInv, FactsHold, FactsFit, Vacancies, FactBound, Spread, BatchFits
<1>. QED
  BY <1>1, <1>2, <1>3

(* Stores that move without listing anything, each ready one only to its   *)
(* insert or to a cut.                                                     *)
LEMMA StoresMove ==
  ASSUME StoresHold, UNCHANGED <<memories, nextId, stored, erased, quotaLost>>,
         store' \in [Stores -> StoreRow], RoundsFit(OwnIds, SummaryIds, nextId, store'),
         outdated' \in BOOLEAN, outdated => outdated', cutShort' \in BOOLEAN, cutShort => cutShort',
         \A s \in Stores : store'[s].at = "select" => store'[s].overflow > 0,
         \A s \in Stores :
           \/ store'[s] = store[s]
           \/ store'[s].at # "evict" /\ (store[s].at = "insert" => store'[s].at = "insert" \/ cutShort')
  PROVE  StoresHold'
<1>1. OwnIds' = OwnIds /\ SummaryIds' = SummaryIds
  BY DEF OwnIds, SummaryIds
<1>2. RoundsFit(OwnIds, SummaryIds, nextId, store)'
  BY <1>1
<1>3. \A s \in Stores : store'[s].at = "evict" => store'[s] = store[s]
  OBVIOUS
<1>4. ListsAreOldest' /\ EnoughAreLeft'
  BY <1>1, <1>3 DEF StoresHold, ListsAreOldest, EnoughAreLeft
<1>5. ~cutShort' => Ready(store) \subseteq Ready(store')
  BY DEF Ready
<1>6. OneIsLeft'
  BY <1>1, <1>5 DEF StoresHold, OneIsLeft
<1>7. stored' \in 0 .. MaxSummaries /\ quotaLost' \in BOOLEAN /\ erased' \in BOOLEAN /\ CountsAreOver'
  BY DEF StoresHold, CountsAreOver
<1>. QED
  BY <1>2, <1>4, <1>6, <1>7 DEF StoresHold

LEMMA CountedRow ==
  ASSUME NEW k \in 0 .. MaxRows
  PROVE  LET r == [Idle EXCEPT !.at = "select", !.overflow = k]
         IN  r \in StoreRow /\ r.at = "select" /\ r.overflow = k
BY DEF Idle, StoreRow

LEMMA StoreBegins ==
  ASSUME MemoryIInv, NEW s \in Stores, Summarize(s) \/ EmbedSummary(s)
  PROVE  MemoryIInv'
<1>1. PICK at \in {"embed", "count"} : store' = [store EXCEPT ![s] = [Idle EXCEPT !.at = at]]
  BY DEF Summarize, EmbedSummary, Goto
<1>2. store[s].at # "insert"
  BY DEF Summarize, EmbedSummary
<1>3. UNCHANGED <<memories, nextId, extraction, decay, cooling, quotaLost, cutShort, outdated, erased, stored>>
  BY DEF Summarize, EmbedSummary, Goto, history
<1>4. store \in [Stores -> StoreRow] /\ StoresHold
  BY DEF MemoryIInv, StoresHold
<1>5. 0 \in 0 .. MaxRows /\ {} \in SUBSET (1 .. MaxRows)
  BY MemoryAssumption
<1>6. [Idle EXCEPT !.at = at] \in StoreRow /\ [Idle EXCEPT !.at = at].at = at
  BY <1>5 DEF Idle, StoreRow
<1>7. /\ store' \in [Stores -> StoreRow]
      /\ store'[s].at \notin {"insert", "evict", "select"}
      /\ \A t \in Stores : t # s => store'[t] = store[t]
  BY <1>1, <1>4, <1>6
<1>8. Numbered(OwnIds, SummaryIds, nextId)
  BY IdsAreNumbered DEF MemoryIInv, OwnIds, SummaryIds
<1>9. RoundsFit(OwnIds, SummaryIds, nextId, store')
  <2>1. nextId <= nextId
    BY <1>8 DEF Numbered
  <2>2. \A t \in Stores : store'[t] = store[t] \/ store'[t].at \notin Listing \cup {"insert"}
    BY <1>7 DEF Listing
  <2>. QED
    BY <1>4, <1>8, <2>1, <2>2, RoundsStay DEF StoresHold
<1>10. cutShort' \in BOOLEAN /\ outdated' \in BOOLEAN
  BY <1>3, <1>4 DEF StoresHold
<1>11. \A t \in Stores : store'[t].at = "select" => store'[t].overflow > 0
  BY <1>4, <1>7 DEF StoresHold, CountsAreOver
<1>12. StoresHold'
  BY <1>2, <1>3, <1>4, <1>7, <1>9, <1>10, <1>11, StoresMove
<1>. QED
  BY <1>3, <1>12, RowsAreLeft DEF MemoryIInv

LEMMA StoreCounts ==
  ASSUME MemoryIInv, NEW s \in Stores, CountSummaries(s)
  PROVE  MemoryIInv'
<1> DEFINE k == Cardinality(SummaryIds) - (MaxSummaries - 1)
<1>1. UNCHANGED <<memories, nextId, extraction, decay, cooling, quotaLost, cutShort, outdated, erased, stored>>
  BY DEF CountSummaries, Goto, history
<1>2. /\ Cardinality(Summaries) = Cardinality(SummaryIds) /\ Cardinality(SummaryIds) \in 0 .. MaxRows
      /\ IsFiniteSet(SummaryIds)
  <2>1. Summaries = AllSummaries(memories) /\ AllSummaries(memories) \subseteq memories
    BY DEF Summaries, AllSummaries
  <2>2. /\ IsFiniteSet(SummaryIds) /\ Cardinality(SummaryIds) = Cardinality(Summaries)
        /\ Cardinality(Summaries) \in Nat /\ Cardinality(Summaries) <= MaxRows
    BY <2>1, RowsAreIds DEF MemoryIInv, SummaryIds
  <2>. QED
    BY <2>2, MemoryAssumption
<1>3. store' = [store EXCEPT ![s] = IF k <= 0 THEN [Idle EXCEPT !.at = "insert"]
                                    ELSE [Idle EXCEPT !.at = "select", !.overflow = k]]
  BY <1>2 DEF CountSummaries, Goto
<1>4. store[s].at = "count"
  BY DEF CountSummaries
<1>5. store \in [Stores -> StoreRow] /\ StoresHold
  BY DEF MemoryIInv, StoresHold
<1>6. Numbered(OwnIds, SummaryIds, nextId)
  BY IdsAreNumbered DEF MemoryIInv, OwnIds, SummaryIds
<1>7. k \in Int /\ (k > 0 => k \in 0 .. MaxRows) /\ MaxSummaries \in Nat
  BY <1>2, MemoryAssumption
<1>8. /\ store' \in [Stores -> StoreRow]
      /\ store'[s].at # "evict" /\ (store'[s].at = "select" => store'[s].overflow > 0)
      /\ \A t \in Stores : t # s => store'[t] = store[t]
      /\ RoundsFit(OwnIds, SummaryIds, nextId, store')
  <2>0. 0 \in 0 .. MaxRows /\ {} \in SUBSET (1 .. MaxRows)
    BY MemoryAssumption
  <2>1. CASE k <= 0
    <3> DEFINE r == [Idle EXCEPT !.at = "insert"]
    <3>1. r \in StoreRow /\ r.at = "insert"
      BY <2>0 DEF Idle, StoreRow
    <3>2. store' = [store EXCEPT ![s] = r]
      BY <1>3, <2>1
    <3>3. Cardinality(OwnIds) <= MaxSummaries - 1
      <4>1. OwnIds \subseteq SummaryIds
        BY <1>6 DEF Numbered
      <4>2. /\ Cardinality(OwnIds) \in Nat /\ Cardinality(SummaryIds) \in Nat
            /\ Cardinality(OwnIds) <= Cardinality(SummaryIds)
        BY <1>2, <4>1, SmallerCount
      <4>. QED
        BY <1>7, <2>1, <4>2
    <3>4. RoundsFit(OwnIds, SummaryIds, nextId, store')
      BY <1>5, <1>6, <3>2, <3>3, RoundPasses DEF StoresHold
    <3> HIDE DEF r
    <3>. QED
      BY <1>5, <3>1, <3>2, <3>4
  <2>2. CASE ~(k <= 0)
    <3> DEFINE r == [Idle EXCEPT !.at = "select", !.overflow = k]
    <3>0. k > 0 /\ k \in 0 .. MaxRows
      BY <1>7, <2>2
    <3>1. r \in StoreRow /\ r.at = "select" /\ r.overflow = k
      BY <3>0, CountedRow
    <3>2. store' = [store EXCEPT ![s] = r]
      BY <1>3, <2>2
    <3>3. RoundsFit(OwnIds, SummaryIds, nextId, store')
      BY <1>5, <1>6, <3>2, RoundCounts DEF StoresHold
    <3> HIDE DEF r
    <3>. QED
      BY <1>5, <3>0, <3>1, <3>2, <3>3
  <2>. QED
    BY <2>1, <2>2
<1>9. cutShort' \in BOOLEAN /\ outdated' \in BOOLEAN
  BY <1>1, <1>5 DEF StoresHold
<1>10. \A t \in Stores : store'[t].at = "select" => store'[t].overflow > 0
  BY <1>5, <1>8 DEF StoresHold, CountsAreOver
<1>11. StoresHold'
  BY <1>1, <1>4, <1>5, <1>8, <1>9, <1>10, StoresMove
<1>. QED
  BY <1>1, <1>11, RowsAreLeft DEF MemoryIInv

(* What the select lists are the oldest ids of summaries.                  *)
LEMMA OldestAreListed ==
  ASSUME RowsOK(memories, nextId), NEW k
  PROVE  Oldest(k) = OldestOf(SummaryIds, k)
<1>1. ASSUME NEW m \in Summaries
      PROVE  Cardinality({o \in Summaries : o.id < m.id}) = Cardinality(Before(SummaryIds, m.id))
  <2> DEFINE R == {o \in Summaries : o.id < m.id}
  <2>1. R \subseteq memories
    BY DEF Summaries
  <2>2. Cardinality(Ids(R)) = Cardinality(R)
    BY <2>1, RowsAreIds
  <2>3. Ids(R) = Before(SummaryIds, m.id)
    BY DEF Ids, Before, SummaryIds, AllSummaries, Summaries
  <2>. QED
    BY <2>2, <2>3
<1>2. SummaryIds = {m.id : m \in Summaries}
  BY DEF SummaryIds, AllSummaries, Summaries, Ids
<1>. QED
  BY <1>1, <1>2 DEF Oldest, OldestOf

LEMMA StoreSelects ==
  ASSUME MemoryIInv, NEW s \in Stores, SelectOldest(s)
  PROVE  MemoryIInv'
<1> DEFINE k == store[s].overflow
           ids == OldestOf(SummaryIds, k)
<1>1. UNCHANGED <<memories, nextId, extraction, decay, cooling, quotaLost, cutShort, erased, stored>>
  BY DEF SelectOldest, Goto
<1>2. store[s].at = "select"
  BY DEF SelectOldest
<1>3. store \in [Stores -> StoreRow] /\ StoresHold /\ RowsOK(memories, nextId)
  BY DEF MemoryIInv, StoresHold
<1>4. Numbered(OwnIds, SummaryIds, nextId) /\ IsFiniteSet(SummaryIds)
  BY IdsAreNumbered, NumberedAreFinite DEF MemoryIInv, OwnIds, SummaryIds
<1>5. /\ k \in Nat /\ MaxSummaries \in Nat \ {0} /\ MaxRows \in Nat /\ nextId \in 1 .. MaxRows + 1
      /\ SummaryIds \in SUBSET Nat /\ SummaryIds \subseteq 1 .. nextId - 1
  <2>1. store[s] \in StoreRow /\ 0 .. MaxRows \subseteq Nat
    BY <1>3, MemoryAssumption
  <2>2. k \in Nat
    BY <2>1 DEF StoreRow
  <2>. QED
    BY <1>3, <1>4, <2>2, MemoryAssumption DEF Numbered, RowsOK
<1>6. ids \subseteq SummaryIds /\ ids \in SUBSET (1 .. MaxRows) /\ ids \subseteq 1 .. nextId - 1
  <2>1. ids \subseteq SummaryIds
    BY DEF OldestOf
  <2>2. 1 .. nextId - 1 \subseteq 1 .. MaxRows
    BY <1>5
  <2>. QED
    BY <1>5, <2>1, <2>2
<1>7. store' = [store EXCEPT ![s] = IF ids = {} THEN [Idle EXCEPT !.at = "insert"]
                                    ELSE [Idle EXCEPT !.at = "evict", !.ids = ids]]
  <2>1. Oldest(k) = ids
    BY <1>3, OldestAreListed
  <2>. QED
    BY <2>1 DEF SelectOldest, Goto
<1>8. Cardinality(Summaries) = Cardinality(SummaryIds) /\ Cardinality(SummaryIds) \in Nat
  <2>1. Summaries = AllSummaries(memories) /\ AllSummaries(memories) \subseteq memories
    BY DEF Summaries, AllSummaries
  <2>. QED
    BY <1>3, <2>1, RowsAreIds DEF SummaryIds
<1>9. outdated' \in BOOLEAN /\ (outdated => outdated')
      /\ (~outdated' => Cardinality(SummaryIds) >= k + MaxSummaries - 1)
  <2>1. outdated' = (outdated \/ Cardinality(Summaries) < k + MaxSummaries - 1)
    BY DEF SelectOldest
  <2>2. outdated \in BOOLEAN
    BY <1>3 DEF StoresHold
  <2>3. outdated' \in BOOLEAN /\ (outdated => outdated')
    BY <2>1, <2>2
  <2>4. ~outdated' => ~(Cardinality(Summaries) < k + MaxSummaries - 1)
    BY <2>1
  <2>5. ~(Cardinality(Summaries) < k + MaxSummaries - 1) => Cardinality(SummaryIds) >= k + MaxSummaries - 1
    BY <1>5, <1>8
  <2>. QED
    BY <2>3, <2>4, <2>5
<1>10. 0 \in 0 .. MaxRows /\ {} \in SUBSET (1 .. MaxRows)
  BY MemoryAssumption
<1>11. k > 0
  BY <1>2, <1>3 DEF StoresHold, CountsAreOver
<1>12. /\ IsFiniteSet(ids) /\ Cardinality(ids) <= k /\ Cardinality(ids) \in Nat
       /\ IsFiniteSet(SummaryIds \ ids) /\ Cardinality(SummaryIds \ ids) \in Nat
       /\ k <= Cardinality(SummaryIds) => Cardinality(SummaryIds \ ids) <= Cardinality(SummaryIds) - k
       /\ Cardinality(SummaryIds) <= k => ids = SummaryIds
  BY <1>4, <1>5, OldestAreCounted, FS_CardinalityType
<1> HIDE DEF k
<1>13. CASE ids = {}
  <2> DEFINE r == [Idle EXCEPT !.at = "insert"]
  <2>1. r \in StoreRow /\ r.at = "insert"
    BY <1>10 DEF Idle, StoreRow
  <2>2. store' = [store EXCEPT ![s] = r]
    BY <1>7, <1>13
  <2>3. SummaryIds = {}
    <3>1. SummaryIds \ ids = SummaryIds
      BY <1>13
    <3>2. Cardinality(SummaryIds) <= k
      BY <1>5, <1>8, <1>11, <1>12, <3>1
    <3>. QED
      BY <1>12, <1>13, <3>2
  <2>4. Cardinality(OwnIds) <= MaxSummaries - 1
    <3>1. OwnIds = {}
      BY <1>4, <2>3 DEF Numbered
    <3>. QED
      BY <1>5, <3>1, FS_EmptySet
  <2>5. RoundsFit(OwnIds, SummaryIds, nextId, store')
    BY <1>3, <1>4, <2>2, <2>4, RoundPasses DEF StoresHold
  <2> HIDE DEF r
  <2>6. /\ store' \in [Stores -> StoreRow] /\ store'[s].at = "insert"
        /\ \A t \in Stores : t # s => store'[t] = store[t]
    BY <1>3, <2>1, <2>2
  <2>7. \A t \in Stores : store'[t].at = "select" => store'[t].overflow > 0
    BY <1>3, <2>6 DEF StoresHold, CountsAreOver
  <2>8. cutShort' \in BOOLEAN
    BY <1>1, <1>3 DEF StoresHold
  <2>9. StoresHold'
    BY <1>1, <1>2, <1>3, <1>9, <2>5, <2>6, <2>7, <2>8, StoresMove
  <2>. QED
    BY <1>1, <2>9, RowsAreLeft DEF MemoryIInv
<1>14. CASE ids # {}
  <2> DEFINE r == [Idle EXCEPT !.at = "evict", !.ids = ids]
  <2>1. r \in StoreRow /\ r.at = "evict" /\ r.ids = ids
    BY <1>6, <1>10 DEF Idle, StoreRow
  <2>2. store' = [store EXCEPT ![s] = r]
    BY <1>7, <1>14
  <2>3. RoundsFit(OwnIds, SummaryIds, nextId, store')
    BY <1>2, <1>3, <1>4, <2>2, RoundSelects DEF StoresHold, k
  <2> HIDE DEF r
  <2>4. /\ store' \in [Stores -> StoreRow] /\ store'[s].at = "evict" /\ store'[s].ids = ids
        /\ \A t \in Stores : t # s => store'[t] = store[t]
    BY <1>3, <2>1, <2>2
  <2>5. OwnIds' = OwnIds /\ SummaryIds' = SummaryIds
    BY <1>1, RowsAreLeft
  <2>6. \A j \in ids, i \in SummaryIds : i < j => i \in ids
    <3> SUFFICES ASSUME NEW j \in ids, NEW i \in SummaryIds, i < j PROVE i \in ids
      OBVIOUS
    <3>1. j \in SummaryIds /\ Cardinality(Before(SummaryIds, j)) < k
      BY DEF OldestOf
    <3>2. Before(SummaryIds, i) \subseteq Before(SummaryIds, j)
      <4>1. \A h \in SummaryIds : h < i => h < j
        BY <1>5, <3>1
      <4>. QED
        BY <4>1 DEF Before
    <3>3. /\ Cardinality(Before(SummaryIds, i)) \in Nat /\ Cardinality(Before(SummaryIds, j)) \in Nat
          /\ Cardinality(Before(SummaryIds, i)) <= Cardinality(Before(SummaryIds, j))
      BY <1>4, <3>2, NumberedAreFinite, SmallerCount
    <3>4. Cardinality(Before(SummaryIds, i)) < k
      BY <1>5, <3>1, <3>3
    <3>. QED
      BY <3>4 DEF OldestOf
  <2>7. ~outdated' => Cardinality(SummaryIds \ ids) >= MaxSummaries - 1
    <3>1. ids \cap (SummaryIds \ ids) = {} /\ ids \cup (SummaryIds \ ids) = SummaryIds
      BY <1>6
    <3>2. Cardinality(SummaryIds) = Cardinality(ids) + Cardinality(SummaryIds \ ids)
      BY <1>12, <3>1, DisjointCount
    <3>3. CASE Cardinality(SummaryIds) >= k + MaxSummaries - 1
      BY <1>5, <1>8, <1>12, <3>2, <3>3
    <3>. QED
      BY <1>9, <3>3
  <2> HIDE DEF ids
  <2>8. ListsAreOldest'
    BY <1>1, <1>3, <1>6, <2>4, <2>5, <2>6 DEF StoresHold, ListsAreOldest
  <2>9. EnoughAreLeft'
    BY <1>1, <1>3, <1>9, <2>4, <2>5, <2>7 DEF StoresHold, EnoughAreLeft
  <2>10. OneIsLeft'
    <3>1. Ready(store') = Ready(store)
      BY <1>2, <2>4 DEF Ready
    <3>. QED
      BY <1>1, <1>3, <2>5, <3>1 DEF StoresHold, OneIsLeft
  <2>11. CountsAreOver'
    BY <1>3, <2>4 DEF StoresHold, CountsAreOver
  <2>12. RoundsFit(OwnIds, SummaryIds, nextId, store)'
    BY <1>1, <2>3, <2>5
  <2>13. stored' \in 0 .. MaxSummaries /\ quotaLost' \in BOOLEAN /\ cutShort' \in BOOLEAN /\ erased' \in BOOLEAN
    BY <1>1, <1>3 DEF StoresHold
  <2>14. StoresHold'
    BY <1>9, <2>4, <2>8, <2>9, <2>10, <2>11, <2>12, <2>13 DEF StoresHold
  <2>. QED
    BY <1>1, <2>14, RowsAreLeft DEF MemoryIInv
<1>. QED
  BY <1>13, <1>14

LEMMA StoreEvicts ==
  ASSUME MemoryIInv, NEW s \in Stores, EvictSummaries(s)
  PROVE  MemoryIInv'
<1> DEFINE ids == store[s].ids
           r == [Idle EXCEPT !.at = "insert"]
           gone == {m \in memories : m.id \in ids}
<1>1. UNCHANGED <<nextId, extraction, decay, cooling, quotaLost, cutShort, outdated, erased, stored>>
  BY DEF EvictSummaries, Goto, Delete, history
<1>2. store[s].at = "evict" /\ memories' = memories \ gone /\ store' = [store EXCEPT ![s] = r]
  BY DEF EvictSummaries, Goto, Delete
<1>3. store \in [Stores -> StoreRow] /\ StoresHold /\ RowsOK(memories, nextId) /\ FactsHold /\ DecayHolds
  BY DEF MemoryIInv, StoresHold
<1>4. Numbered(OwnIds, SummaryIds, nextId) /\ IsFiniteSet(SummaryIds)
  BY IdsAreNumbered, NumberedAreFinite DEF MemoryIInv, OwnIds, SummaryIds
<1>5. RowsOK(memories, nextId)' /\ FactIds' \subseteq FactIds
  <2>1. memories' \subseteq memories
    BY <1>2
  <2>. QED
    BY <1>1, <1>3, <2>1, RowsDropped DEF FactIds
<1>6. OwnIds' = OwnIds \ ids /\ SummaryIds' = SummaryIds \ ids
  BY <1>2 DEF OwnIds, SummaryIds, OwnSummaries, AllSummaries, Ids
<1>7. r \in StoreRow /\ r.at = "insert"
  <2>1. 0 \in 0 .. MaxRows
    BY MemoryAssumption
  <2>. QED
    BY <2>1 DEF Idle, StoreRow
<1>8. RoundsFit(OwnIds \ ids, SummaryIds \ ids, nextId, store')
  BY <1>2, <1>3, <1>4, RoundEvicts DEF StoresHold
<1> HIDE DEF r
<1>9. /\ store' \in [Stores -> StoreRow] /\ store'[s].at = "insert"
      /\ \A t \in Stores : t # s => store'[t] = store[t]
  BY <1>2, <1>3, <1>7
<1>10. ListsAreOldest' /\ CountsAreOver'
  BY <1>1, <1>3, <1>6, <1>9 DEF StoresHold, ListsAreOldest, CountsAreOver
<1>11. EnoughAreLeft'
  <2> SUFFICES ASSUME ~erased', ~outdated'
               PROVE  /\ Cardinality(SummaryIds') >= MaxSummaries - 1
                      /\ \A t \in Stores : store'[t].at = "evict" =>
                           Cardinality(SummaryIds' \ store'[t].ids) >= MaxSummaries - 1
    BY DEF EnoughAreLeft
  <2>1. \A t \in Stores : store[t].at = "evict" => Cardinality(SummaryIds \ store[t].ids) >= MaxSummaries - 1
    BY <1>1, <1>3 DEF StoresHold, EnoughAreLeft
  <2>2. Cardinality(SummaryIds') >= MaxSummaries - 1
    BY <1>2, <1>6, <2>1
  <2>3. ASSUME NEW t \in Stores, store'[t].at = "evict"
        PROVE  Cardinality(SummaryIds' \ store'[t].ids) >= MaxSummaries - 1
    <3>1. store'[t] = store[t]
      BY <1>9, <2>3
    <3>2. SummaryIds' \ store'[t].ids = SummaryIds \ ids \/ SummaryIds' \ store'[t].ids = SummaryIds \ store[t].ids
      <4>1. /\ \A j \in ids, i \in SummaryIds : i < j => i \in ids
            /\ \A j \in store[t].ids, i \in SummaryIds : i < j => i \in store[t].ids
            /\ ids \subseteq 1 .. nextId - 1 /\ store[t].ids \subseteq 1 .. nextId - 1
        BY <1>2, <1>3, <2>3, <3>1 DEF StoresHold, ListsAreOldest
      <4>2. nextId \in Nat /\ SummaryIds \subseteq Nat
        BY <1>4 DEF Numbered
      <4>3. CASE SummaryIds \cap ids \subseteq store[t].ids
        BY <1>6, <3>1, <4>3
      <4>4. CASE ~(SummaryIds \cap ids \subseteq store[t].ids)
        <5>1. PICK j \in SummaryIds \cap ids : j \notin store[t].ids
          BY <4>4
        <5>2. \A i \in store[t].ids : i < j
          <6>1. \A i \in store[t].ids : i \in Nat /\ j \in Nat /\ i # j /\ ~(j < i)
            BY <4>1, <4>2, <5>1
          <6>. QED
            BY <6>1
        <5>3. \A i \in store[t].ids \cap SummaryIds : i \in ids
          BY <4>1, <5>1, <5>2
        <5>. QED
          BY <1>6, <3>1, <5>3
      <4>. QED
        BY <4>3, <4>4
    <3>. QED
      BY <1>2, <2>1, <2>3, <3>1, <3>2
  <2>. QED
    BY <2>2, <2>3
<1>12. OneIsLeft'
  BY <1>9 DEF OneIsLeft, Ready
<1>13. /\ stored' \in 0 .. MaxSummaries /\ quotaLost' \in BOOLEAN /\ cutShort' \in BOOLEAN
       /\ outdated' \in BOOLEAN /\ erased' \in BOOLEAN
  BY <1>1, <1>3 DEF StoresHold
<1>14. RoundsFit(OwnIds, SummaryIds, nextId, store)'
  BY <1>1, <1>6, <1>8
<1>15. StoresHold'
  BY <1>9, <1>10, <1>11, <1>12, <1>13, <1>14 DEF StoresHold
<1>16. FactsHold'
  <2>1. \A x \in Extractions : extraction'[x] = extraction[x]
    BY <1>1
  <2>2. \A x \in Extractions : extraction[x].room <= extraction[x].room
                            /\ Len(extraction[x].actions) <= Len(extraction[x].actions)
    BY <1>3, LenProperties DEF FactsHold, Batch
  <2>. QED
    BY <1>1, <1>3, <1>5, <2>1, <2>2, FactsAreLeft DEF FactsHold
<1>17. DecayHolds'
  <2>1. nextId \in Nat /\ nextId <= nextId
    BY <1>4 DEF Numbered
  <2>2. cooling' \in BOOLEAN
    BY <1>1, <1>3 DEF DecayHolds
  <2>3. \A m \in memories' : \E o \in memories : o.id = m.id /\ (o.decayed = StaleAge => m.decayed = StaleAge)
    BY <1>2
  <2>. QED
    BY <1>1, <1>3, <2>1, <2>2, <2>3, DecayIsLeft
<1>. QED
  BY <1>5, <1>15, <1>16, <1>17 DEF MemoryIInv

LEMMA StoreInserts ==
  ASSUME MemoryIInv, NEW s \in Stores, InsertSummary(s)
  PROVE  MemoryIInv'
<1> DEFINE n == nextId
           new == [id |-> nextId, kind |-> "summary", salience |-> Full, age |-> 0, decayed |-> StaleAge]
<1>1. UNCHANGED <<extraction, decay, cooling, quotaLost, cutShort, outdated, erased>>
  BY DEF InsertSummary, Goto
<1>2. /\ store[s].at = "insert" /\ n <= MaxRows /\ memories' = memories \cup {new} /\ nextId' = n + 1
      /\ store' = [store EXCEPT ![s] = Idle]
      /\ stored' = IF stored < MaxSummaries THEN stored + 1 ELSE stored
  BY DEF InsertSummary, Goto, Create
<1>3. store \in [Stores -> StoreRow] /\ StoresHold /\ RowsOK(memories, nextId) /\ FactsHold /\ DecayHolds
  BY DEF MemoryIInv, StoresHold
<1>4. Numbered(OwnIds, SummaryIds, nextId) /\ IsFiniteSet(SummaryIds)
  BY IdsAreNumbered, NumberedAreFinite DEF MemoryIInv, OwnIds, SummaryIds
<1>5. /\ RowsOK(memories, nextId)' /\ OwnIds' = OwnIds \cup {n} /\ SummaryIds' = SummaryIds \cup {n}
      /\ FactIds' = FactIds
  <2> DEFINE kind == "summary"
             salience == Full
             more == WithRow(memories, nextId, kind, salience)
  <2>0. kind = "summary"
    OBVIOUS
  <2>1. salience \in 0 .. Full /\ kind \in Kinds
    BY MemoryAssumption DEF Kinds
  <2>2. memories' = more /\ nextId' = nextId + 1 /\ nextId <= MaxRows
    BY <1>2 DEF WithRow, NewRow
  <2>3. RowsOK(memories, nextId) /\ nextId <= MaxRows
    BY <1>3, <2>2
  <2> HIDE DEF kind, salience
  <2>4. /\ RowsOK(more, nextId + 1)
        /\ Ids(OwnSummaries(more)) = Ids(OwnSummaries(memories)) \cup (IF kind = "summary" THEN {nextId} ELSE {})
        /\ Ids(AllSummaries(more)) = Ids(AllSummaries(memories)) \cup (IF kind # "fact" THEN {nextId} ELSE {})
        /\ Ids(FactsOf(more)) = Ids(FactsOf(memories)) \cup (IF kind = "fact" THEN {nextId} ELSE {})
    BY <2>1, <2>3, RowAdded
  <2> HIDE DEF more
  <2>. QED
    BY <2>0, <2>2, <2>4 DEF OwnIds, SummaryIds, FactIds
<1>6. n \in Nat /\ n \notin SummaryIds /\ SummaryIds \subseteq Nat /\ MaxSummaries \in Nat \ {0}
  BY <1>4, MemoryAssumption DEF Numbered
<1>7. RoundsFit(OwnIds, SummaryIds, nextId, store)'
  <2>1. RoundsFit(OwnIds \cup {n}, SummaryIds \cup {n}, n + 1, store')
    BY <1>2, <1>3, <1>4, RoundAdds DEF StoresHold
  <2>. QED
    BY <1>2, <1>5, <2>1
<1>8. Idle \in StoreRow /\ Idle.at = "idle"
  <2>1. 0 \in 0 .. MaxRows
    BY MemoryAssumption
  <2>. QED
    BY <2>1 DEF Idle, StoreRow
<1>9. /\ store' \in [Stores -> StoreRow] /\ store'[s].at = "idle"
      /\ \A t \in Stores : t # s => store'[t] = store[t]
  BY <1>2, <1>3, <1>8
<1>10. CountsAreOver'
  BY <1>3, <1>9 DEF StoresHold, CountsAreOver
<1>11. ListsAreOldest'
  <2> SUFFICES ASSUME NEW t \in Stores, store'[t].at = "evict"
               PROVE  /\ store'[t].ids \subseteq 1 .. nextId' - 1
                      /\ \A j \in store'[t].ids, i \in SummaryIds' : i < j => i \in store'[t].ids
    BY DEF ListsAreOldest
  <2>1. store'[t] = store[t]
    BY <1>9
  <2>2. /\ store[t].ids \subseteq 1 .. n - 1
        /\ \A j \in store[t].ids, i \in SummaryIds : i < j => i \in store[t].ids
    BY <1>3, <2>1 DEF StoresHold, ListsAreOldest
  <2>3. \A j \in store[t].ids : ~(n < j) /\ j \in 1 .. nextId' - 1
    BY <1>2, <1>6, <2>2
  <2>. QED
    BY <1>5, <2>1, <2>2, <2>3
<1>12. EnoughAreLeft'
  <2> SUFFICES ASSUME ~erased', ~outdated'
               PROVE  /\ Cardinality(SummaryIds') >= stored' \/ Cardinality(SummaryIds') >= MaxSummaries - 1
                      /\ \A t \in Stores : store'[t].at = "evict" =>
                           Cardinality(SummaryIds' \ store'[t].ids) >= MaxSummaries - 1
    BY DEF EnoughAreLeft
  <2>1. /\ Cardinality(SummaryIds) >= stored \/ Cardinality(SummaryIds) >= MaxSummaries - 1
        /\ \A t \in Stores : store[t].at = "evict" => Cardinality(SummaryIds \ store[t].ids) >= MaxSummaries - 1
    BY <1>1, <1>3 DEF StoresHold, EnoughAreLeft
  <2>2. Cardinality(SummaryIds') = Cardinality(SummaryIds) + 1 /\ Cardinality(SummaryIds) \in Nat
    BY <1>4, <1>5, <1>6, FS_AddElement, FS_CardinalityType
  <2>3. stored \in Nat /\ stored' \in Nat /\ stored' <= stored + 1
    BY <1>2, <1>3 DEF StoresHold
  <2>4. ASSUME NEW t \in Stores, store'[t].at = "evict"
        PROVE  Cardinality(SummaryIds' \ store'[t].ids) >= MaxSummaries - 1
    <3>1. store'[t] = store[t]
      BY <1>9, <2>4
    <3>2. SummaryIds \ store[t].ids \subseteq SummaryIds' \ store[t].ids
      BY <1>5
    <3>3. IsFiniteSet(SummaryIds')
      BY <1>4, <1>5, FS_AddElement
    <3>4. IsFiniteSet(SummaryIds' \ store[t].ids)
      BY <3>3, SmallerCount
    <3>5. /\ Cardinality(SummaryIds \ store[t].ids) \in Nat /\ Cardinality(SummaryIds' \ store[t].ids) \in Nat
          /\ Cardinality(SummaryIds \ store[t].ids) <= Cardinality(SummaryIds' \ store[t].ids)
      BY <3>2, <3>4, SmallerCount
    <3>6. Cardinality(SummaryIds \ store[t].ids) >= MaxSummaries - 1
      BY <2>1, <2>4, <3>1
    <3>. QED
      BY <1>6, <3>1, <3>5, <3>6
  <2>. QED
    BY <1>6, <2>1, <2>2, <2>3, <2>4
<1>13. OneIsLeft'
  BY <1>5 DEF OneIsLeft
<1>14. /\ stored' \in 0 .. MaxSummaries /\ quotaLost' \in BOOLEAN /\ cutShort' \in BOOLEAN
       /\ outdated' \in BOOLEAN /\ erased' \in BOOLEAN
  <2>1. stored' \in 0 .. MaxSummaries
    BY <1>2, <1>3, <1>6 DEF StoresHold
  <2>. QED
    BY <1>1, <1>3, <2>1 DEF StoresHold
<1>15. StoresHold'
  BY <1>7, <1>9, <1>10, <1>11, <1>12, <1>13, <1>14 DEF StoresHold
<1>16. FactsHold'
  <2>1. \A x \in Extractions : extraction'[x] = extraction[x]
    BY <1>1
  <2>2. \A x \in Extractions : extraction[x].room <= extraction[x].room
                            /\ Len(extraction[x].actions) <= Len(extraction[x].actions)
    BY <1>3, LenProperties DEF FactsHold, Batch
  <2>. QED
    BY <1>1, <1>3, <1>5, <2>1, <2>2, FactsAreLeft DEF FactsHold
<1>17. DecayHolds'
  <2>1. nextId' \in Nat /\ nextId <= nextId'
    BY <1>2, <1>6
  <2>2. cooling' \in BOOLEAN
    BY <1>1, <1>3 DEF DecayHolds
  <2>3. new.id \in Nat /\ new.id >= nextId
    BY <1>6
  <2>4. \A m \in memories' :
          \/ m.id \in Nat /\ m.id >= nextId
          \/ \E o \in memories : o.id = m.id /\ (o.decayed = StaleAge => m.decayed = StaleAge)
    BY <1>2, <2>3
  <2>. QED
    BY <1>1, <1>3, <2>1, <2>2, <2>4, DecayIsLeft
<1>. QED
  BY <1>5, <1>15, <1>16, <1>17 DEF MemoryIInv

LEMMA StoreEnds ==
  ASSUME MemoryIInv, NEW s \in Stores, EndStore(s)
  PROVE  MemoryIInv'
<1>1. /\ UNCHANGED <<memories, nextId, extraction, decay, cooling, quotaLost, outdated, erased, stored>>
      /\ store' = [store EXCEPT ![s] = Idle] /\ cutShort' = (cutShort \/ store[s].at = "insert")
  BY DEF EndStore, Goto
<1>2. store \in [Stores -> StoreRow] /\ StoresHold
  BY DEF MemoryIInv, StoresHold
<1>3. Numbered(OwnIds, SummaryIds, nextId) /\ nextId <= nextId
  BY IdsAreNumbered DEF MemoryIInv, OwnIds, SummaryIds, Numbered
<1>4. Idle \in StoreRow /\ Idle.at = "idle"
  <2>1. 0 \in 0 .. MaxRows
    BY MemoryAssumption
  <2>. QED
    BY <2>1 DEF Idle, StoreRow
<1>5. /\ store' \in [Stores -> StoreRow] /\ store'[s].at = "idle"
      /\ \A t \in Stores : t # s => store'[t] = store[t]
  BY <1>1, <1>2, <1>4
<1>6. RoundsFit(OwnIds, SummaryIds, nextId, store')
  <2>1. \A t \in Stores : store'[t] = store[t] \/ store'[t].at \notin Listing \cup {"insert"}
    BY <1>5 DEF Listing
  <2>. QED
    BY <1>2, <1>3, <2>1, RoundsStay DEF StoresHold
<1>7. \A t \in Stores : store'[t].at = "select" => store'[t].overflow > 0
  BY <1>2, <1>5 DEF StoresHold, CountsAreOver
<1>8. /\ outdated' \in BOOLEAN /\ cutShort' \in BOOLEAN /\ (cutShort => cutShort')
      /\ (store[s].at = "insert" => cutShort')
  BY <1>1, <1>2 DEF StoresHold
<1>9. StoresHold'
  BY <1>1, <1>2, <1>5, <1>6, <1>7, <1>8, StoresMove
<1>. QED
  BY <1>1, <1>9, RowsAreLeft DEF MemoryIInv

-----------------------------------------------------------------------------
(* The steps of an extraction.                                             *)

(* What the other parts need of a step that leaves stores and decay alone. *)
LEMMA OthersAreLeft ==
  ASSUME MemoryIInv, RowsOK(memories, nextId)', nextId <= nextId',
         UNCHANGED <<store, stored, cutShort, outdated, decay>>,
         cooling' \in BOOLEAN, quotaLost' \in BOOLEAN, erased' \in BOOLEAN,
         OwnIds' \subseteq OwnIds, \A i \in SummaryIds' : i \in SummaryIds \/ i >= nextId,
         ~erased' => ~erased /\ SummaryIds \subseteq SummaryIds',
         \A m \in memories' :
           \/ m.id \in Nat /\ m.id >= nextId
           \/ \E o \in memories : o.id = m.id /\ (o.decayed = StaleAge => m.decayed = StaleAge)
  PROVE  StoresHold' /\ DecayHolds'
<1>1. StoresHold'
  BY StoresAreLeft DEF MemoryIInv
<1>2. nextId' \in Nat
  BY MemoryAssumption DEF RowsOK
<1>3. DecayHolds'
  BY <1>2, DecayIsLeft DEF MemoryIInv
<1>. QED
  BY <1>1, <1>3

(* A batch that moves without counting or adding a row.                    *)
LEMMA BatchMoves ==
  ASSUME MemoryIInv, UNCHANGED <<memories, nextId, store, decay, cooling, history>>,
         NEW x \in Extractions, NEW r \in Batch, BatchFits(r),
         extraction' = [extraction EXCEPT ![x] = r],
         r.at = "apply" => /\ extraction[x].at = "apply" /\ r.room <= extraction[x].room
                           /\ Len(r.actions) <= Len(extraction[x].actions)
  PROVE  MemoryIInv'
<1>1. extraction \in [Extractions -> Batch] /\ \A y \in Extractions : BatchFits(extraction[y])
  BY DEF MemoryIInv, FactsHold
<1>2. RowsOK(memories, nextId)' /\ FactIds' = FactIds /\ StoresHold' /\ DecayHolds'
  <2>1. RowsOK(memories, nextId)' /\ FactIds' = FactIds /\ OwnIds' = OwnIds /\ SummaryIds' = SummaryIds
    BY DEF MemoryIInv, FactIds, OwnIds, SummaryIds
  <2>2. RoundsFit(OwnIds, SummaryIds, nextId, store)'
    BY <2>1 DEF MemoryIInv, StoresHold
  <2>3. ListsAreOldest' /\ EnoughAreLeft' /\ OneIsLeft' /\ CountsAreOver'
    BY <2>1 DEF MemoryIInv, StoresHold, ListsAreOldest, EnoughAreLeft, OneIsLeft, CountsAreOver, history
  <2>4. /\ stored' \in 0 .. MaxSummaries /\ quotaLost' \in BOOLEAN /\ cutShort' \in BOOLEAN
        /\ outdated' \in BOOLEAN /\ erased' \in BOOLEAN /\ store' \in [Stores -> StoreRow]
    BY DEF MemoryIInv, StoresHold, history
  <2>5. DecayHolds'
    BY DEF MemoryIInv, DecayHolds
  <2>. QED
    BY <2>1, <2>2, <2>3, <2>4, <2>5 DEF StoresHold
<1>3. /\ extraction' \in [Extractions -> Batch] /\ extraction'[x] = r
      /\ \A y \in Extractions : y # x => extraction'[y] = extraction[y]
  BY <1>1
<1>4. \A y \in Extractions : extraction[y].room <= extraction[y].room
                          /\ Len(extraction[y].actions) <= Len(extraction[y].actions)
  BY <1>1, LenProperties DEF Batch
<1>5. \A y \in Extractions :
        /\ BatchFits(extraction'[y])
        /\ extraction'[y].at = "apply" =>
             /\ extraction[y].at = "apply" /\ extraction'[y].room <= extraction[y].room
             /\ Len(extraction'[y].actions) <= Len(extraction[y].actions)
  BY <1>1, <1>3, <1>4
<1>6. FactsHold'
  BY <1>2, <1>3, <1>5, FactsAreLeft DEF MemoryIInv, history
<1>. QED
  BY <1>2, <1>6 DEF MemoryIInv

LEMMA NoActionsIsOne == NoActions \in Batch /\ BatchFits(NoActions) /\ NoActions.at = "idle"
<1>1. <<>> \in Seq(KnownActions) /\ Len(<<>>) = 0 /\ BatchSize \in Nat /\ MemoryLimit \in Nat
  BY MemoryAssumption
<1>. QED
  BY <1>1 DEF NoActions, Batch, BatchFits

LEMMA BatchIsExtracted ==
  ASSUME MemoryIInv, NEW x \in Extractions, ExtractMemories(x)
  PROVE  MemoryIInv'
<1>1. PICK n \in 1 .. BatchSize : \E a \in [1 .. n -> Actions] :
        extraction' = [extraction EXCEPT ![x] = [at |-> "count", actions |-> a, room |-> 0]]
  BY DEF ExtractMemories, Continue
<1>2. PICK a \in [1 .. n -> Actions] :
        extraction' = [extraction EXCEPT ![x] = [at |-> "count", actions |-> a, room |-> 0]]
  BY <1>1
<1>3. UNCHANGED <<memories, nextId, store, decay, cooling, history>>
  BY DEF ExtractMemories, Continue
<1>4. BatchSize \in Nat /\ MemoryLimit \in Nat /\ n \in Nat /\ n <= BatchSize /\ n # 0
  BY MemoryAssumption
<1>5. Actions \subseteq KnownActions
  <2>1. Ids(memories) \subseteq 1 .. MaxRows
    BY RowsAreIds DEF MemoryIInv
  <2>. QED
    BY <2>1 DEF Actions, KnownActions
<1>6. a \in Seq(KnownActions) /\ Len(a) = n /\ a # <<>>
  BY <1>4, <1>5
<1> DEFINE r == [at |-> "count", actions |-> a, room |-> 0]
<1>7. r \in Batch /\ BatchFits(r) /\ r.at = "count"
  BY <1>4, <1>6 DEF Batch, BatchFits
<1>8. extraction' = [extraction EXCEPT ![x] = r]
  BY <1>2
<1> HIDE DEF r
<1>. QED
  BY <1>3, <1>7, <1>8, BatchMoves

LEMMA BatchEnds ==
  ASSUME MemoryIInv, NEW x \in Extractions, EndExtraction(x)
  PROVE  MemoryIInv'
<1>1. /\ UNCHANGED <<memories, nextId, store, decay, cooling, history>>
      /\ extraction' = [extraction EXCEPT ![x] = NoActions]
  BY DEF EndExtraction, Continue
<1>. QED
  BY <1>1, NoActionsIsOne, BatchMoves

(* The rest of a batch whose first action has been applied.                *)
LEMMA BatchShrinks ==
  ASSUME FactsHold, NEW x \in Extractions, extraction[x].at = "apply",
         NEW room \in Int, room <= extraction[x].room, Applied(x, room)
  PROVE  /\ extraction' \in [Extractions -> Batch]
         /\ \A y \in Extractions : BatchFits(extraction'[y]) /\ (y # x => extraction'[y] = extraction[y])
         /\ Head(extraction[x].actions) \in KnownActions
         /\ Len(extraction[x].actions) \in Nat \ {0}
         /\ extraction'[x].at = "apply" =>
              /\ extraction'[x].room = room
              /\ Len(extraction'[x].actions) = Len(extraction[x].actions) - 1
<1> DEFINE a == extraction[x].actions
<1>1. /\ extraction \in [Extractions -> Batch] /\ \A y \in Extractions : BatchFits(extraction[y])
      /\ BatchSize \in Nat /\ MemoryLimit \in Nat
  BY MemoryAssumption DEF FactsHold
<1>2. a \in Seq(KnownActions) /\ a # <<>> /\ extraction[x].room \in Int
  BY <1>1 DEF Batch, BatchFits
<1>3. /\ Head(a) \in KnownActions /\ Tail(a) \in Seq(KnownActions)
      /\ Len(a) \in Nat \ {0} /\ Len(Tail(a)) = Len(a) - 1
  BY <1>2, LenProperties, HeadTailProperties, EmptySeq
<1>4. Len(a) <= BatchSize /\ extraction[x].room <= BatchSize + MemoryLimit
  BY <1>1 DEF BatchFits
<1> HIDE DEF a
<1> DEFINE r == IF Tail(a) = <<>> THEN NoActions ELSE [at |-> "apply", actions |-> Tail(a), room |-> room]
<1>5. extraction' = [extraction EXCEPT ![x] = r]
  BY DEF Applied, Continue, a
<1>6. /\ r \in Batch /\ BatchFits(r)
      /\ r.at = "apply" => r.room = room /\ Len(r.actions) = Len(a) - 1
  <2>1. CASE Tail(a) = <<>>
    BY <2>1, NoActionsIsOne
  <2>2. CASE Tail(a) # <<>>
    <3>1. r = [at |-> "apply", actions |-> Tail(a), room |-> room]
      BY <2>2
    <3>2. room <= BatchSize + MemoryLimit /\ Len(Tail(a)) <= BatchSize
      BY <1>1, <1>2, <1>3, <1>4
    <3>3. r \in Batch
      BY <1>3, <3>1 DEF Batch
    <3>. QED
      BY <1>3, <2>2, <3>1, <3>2, <3>3 DEF BatchFits
  <2>. QED
    BY <2>1, <2>2
<1> HIDE DEF r
<1>7. /\ extraction' \in [Extractions -> Batch] /\ extraction'[x] = r
      /\ \A y \in Extractions : y # x => extraction'[y] = extraction[y]
  BY <1>1, <1>5, <1>6
<1>. QED
  BY <1>1, <1>3, <1>6, <1>7 DEF a

(* Rows that are changed in place.                                         *)
LEMMA RowRewritten ==
  ASSUME RowsOK(memories, nextId), NEW id, NEW salience \in 0 .. Full, Rewrite(id, salience)
  PROVE  /\ RowsOK(memories, nextId)' /\ nextId' = nextId
         /\ OwnIds' = OwnIds /\ SummaryIds' = SummaryIds /\ FactIds' = FactIds
         /\ \A m \in memories' :
              \E o \in memories : o.id = m.id /\ (o.decayed = StaleAge => m.decayed = StaleAge)
<1> DEFINE w(m) == IF m.id = id THEN [m EXCEPT !.salience = salience, !.age = 0] ELSE m
           g == [m \in memories |-> w(m)]
<1>1. memories' = {w(m) : m \in memories} /\ nextId' = nextId
  BY DEF Rewrite
<1>2. ASSUME NEW m \in memories
      PROVE  w(m) \in Row /\ w(m).id = m.id /\ w(m).kind = m.kind /\ w(m).age <= w(m).decayed
             /\ w(m).decayed = m.decayed
  <2>1. /\ m \in Row /\ m.age <= m.decayed /\ 0 \in 0 .. StaleAge /\ 0 .. StaleAge \subseteq Nat
        /\ \A t \in Nat : 0 <= t
    BY MemoryAssumption DEF RowsOK
  <2> DEFINE o == [m EXCEPT !.salience = salience, !.age = 0]
  <2>2. o \in Row
    BY <2>1 DEF Row
  <2>3. o.id = m.id /\ o.kind = m.kind /\ o.age = 0 /\ o.decayed = m.decayed
    BY <2>1 DEF Row
  <2>4. m.decayed \in Nat
    BY <2>1 DEF Row
  <2> HIDE DEF o
  <2>5. w(m) = IF m.id = id THEN o ELSE m
    BY DEF o
  <2> HIDE DEF w
  <2>. QED
    BY <2>1, <2>2, <2>3, <2>4, <2>5
<1> HIDE DEF w
<1>3. g \in [memories -> Row] /\ \A m \in memories : g[m].id = m.id /\ g[m].kind = m.kind /\ g[m].age <= g[m].decayed
  BY <1>2
<1>4. memories' = {g[m] : m \in memories}
  BY <1>1
<1> HIDE DEF g
<1>5. /\ RowsOK({g[m] : m \in memories}, nextId)
      /\ Ids(OwnSummaries({g[m] : m \in memories})) = Ids(OwnSummaries(memories))
      /\ Ids(AllSummaries({g[m] : m \in memories})) = Ids(AllSummaries(memories))
      /\ Ids(FactsOf({g[m] : m \in memories})) = Ids(FactsOf(memories))
  BY <1>3, RowsChanged
<1>. QED
  BY <1>1, <1>2, <1>4, <1>5 DEF OwnIds, SummaryIds, FactIds

(* What the other batches may still insert, and what one may.              *)
LEMMA VacanciesOfOthers ==
  ASSUME NEW ext \in [Extractions -> Batch], NEW x \in Extractions,
         \A y \in Extractions \ {x} :
           BatchFits(ext[y]) /\ (ext[y].at = "apply" => ext[y].room <= MemoryLimit),
         NEW P, P = {p \in Extractions \X (1 .. BatchSize) :
                       /\ ext[p[1]].at = "apply"
                       /\ p[2] <= ext[p[1]].room /\ p[2] <= Len(ext[p[1]].actions)},
         NEW room \in Nat, ext[x].room <= room
  PROVE  IsFiniteSet(P) /\ Cardinality(P) \in Nat
         /\ Cardinality(P) <= (Cardinality(Extractions) - 1) * Spread + room
<1> DEFINE others == {p \in P : p[1] # x}
           own == {p \in P : p[1] = x}
<1>1. /\ BatchSize \in Nat /\ MemoryLimit \in Nat /\ IsFiniteSet(Extractions)
      /\ Spread \in Nat
      /\ \A y \in Extractions : ext[y].room \in Int /\ Len(ext[y].actions) \in Nat
  <2>1. \A y \in Extractions : ext[y].room \in Int /\ Len(ext[y].actions) \in Nat
    BY LenProperties DEF Batch
  <2>. QED
    BY <2>1, MemoryAssumption DEF Spread
<1>2. others \subseteq (Extractions \ {x}) \X (1 .. Spread)
  <2> SUFFICES ASSUME NEW y \in Extractions \ {x}, NEW i \in 1 .. BatchSize, ext[y].at = "apply", i <= ext[y].room
               PROVE  i <= Spread
    BY <1>1
  <2>1. i <= MemoryLimit
    BY <1>1
  <2>. QED
    BY <1>1, <2>1 DEF Spread
<1>3. own \subseteq {x} \X (1 .. room)
  <2> SUFFICES ASSUME NEW i \in 1 .. BatchSize, i <= ext[x].room
               PROVE  i <= room
    OBVIOUS
  <2>. QED
    BY <1>1
<1>4. /\ IsFiniteSet(1 .. Spread) /\ Cardinality(1 .. Spread) = Spread
      /\ IsFiniteSet(1 .. room) /\ Cardinality(1 .. room) = room
  BY <1>1, FS_Interval
<1>5. IsFiniteSet(Extractions \ {x}) /\ Cardinality(Extractions \ {x}) = Cardinality(Extractions) - 1
  BY <1>1, FS_RemoveElement
<1>6. /\ IsFiniteSet((Extractions \ {x}) \X (1 .. Spread))
      /\ Cardinality((Extractions \ {x}) \X (1 .. Spread)) = (Cardinality(Extractions) - 1) * Spread
  <2> DEFINE S == Extractions \ {x}
             T == 1 .. Spread
  <2>1. IsFiniteSet(S) /\ IsFiniteSet(T)
    BY <1>4, <1>5
  <2> HIDE DEF S, T
  <2>2. IsFiniteSet(S \X T) /\ Cardinality(S \X T) = Cardinality(S) * Cardinality(T)
    BY <2>1, FS_Product
  <2>3. Cardinality(S) = Cardinality(Extractions) - 1 /\ Cardinality(T) = Spread
    BY <1>4, <1>5 DEF S, T
  <2>. QED
    BY <2>2, <2>3 DEF S, T
<1>7. IsFiniteSet({x}) /\ Cardinality({x}) = 1
  BY FS_Singleton
<1>8. IsFiniteSet({x} \X (1 .. room)) /\ Cardinality({x} \X (1 .. room)) = room
  <2>1. IsFiniteSet({x} \X (1 .. room)) /\ Cardinality({x} \X (1 .. room)) = 1 * room
    BY <1>4, <1>7, FS_Product
  <2>. QED
    BY <2>1
<1>9. others \cap own = {} /\ others \cup own = P
  OBVIOUS
<1> HIDE DEF others, own
<1>10. /\ IsFiniteSet(others) /\ Cardinality(others) \in Nat
       /\ Cardinality(others) <= Cardinality((Extractions \ {x}) \X (1 .. Spread))
  BY <1>2, <1>6, SmallerCount
<1>11. IsFiniteSet(own) /\ Cardinality(own) \in Nat /\ Cardinality(own) <= Cardinality({x} \X (1 .. room))
  BY <1>3, <1>8, SmallerCount
<1>12. Cardinality(P) = Cardinality(others) + Cardinality(own)
  BY <1>9, <1>10, <1>11, DisjointCount
<1>13. IsFiniteSet(P)
  <2>1. IsFiniteSet(others \cup own)
    BY <1>10, <1>11, FS_Union
  <2>. QED
    BY <1>9, <2>1
<1>14. (Cardinality(Extractions) - 1) * Spread = Cardinality((Extractions \ {x}) \X (1 .. Spread))
  BY <1>6
<1>15. Cardinality((Extractions \ {x}) \X (1 .. Spread)) \in Nat
  BY <1>6, FS_CardinalityType
<1>16. Cardinality(P) <= Cardinality((Extractions \ {x}) \X (1 .. Spread)) + room
  BY <1>8, <1>10, <1>11, <1>12, <1>15
<1>. QED
  BY <1>10, <1>11, <1>12, <1>13, <1>14, <1>16

LEMMA BatchCounts ==
  ASSUME MemoryIInv, NEW x \in Extractions, CountFacts(x)
  PROVE  MemoryIInv'
<1> DEFINE left == MemoryLimit - Cardinality(FactIds)
<1>1. UNCHANGED <<memories, nextId, store, decay, cooling, stored, cutShort, outdated, erased>>
  BY DEF CountFacts, Continue
<1>2. /\ extraction \in [Extractions -> Batch] /\ \A y \in Extractions : BatchFits(extraction[y])
      /\ StoresHold /\ DecayHolds /\ FactsFit /\ RowsOK(memories, nextId)
  BY DEF MemoryIInv, FactsHold
<1>3. Cardinality(Facts) = Cardinality(FactIds) /\ Cardinality(FactIds) \in Nat
  <2>1. Facts = FactsOf(memories) /\ FactsOf(memories) \subseteq memories
    BY DEF Facts, FactsOf
  <2>. QED
    BY <1>2, <2>1, RowsAreIds DEF FactIds
<1>4. extraction[x].at = "count" /\ BatchSize \in Nat /\ MemoryLimit \in Nat /\ Cardinality(Facts) \in Nat
  BY <1>3, MemoryAssumption DEF CountFacts
<1>5. ASSUME NEW room \in Int, room <= BatchSize + MemoryLimit,
             extraction' = [extraction EXCEPT ![x] = [extraction[x] EXCEPT !.at = "apply", !.room = room]]
      PROVE  /\ extraction' \in [Extractions -> Batch] /\ \A y \in Extractions : BatchFits(extraction'[y])
             /\ extraction'[x].at = "apply" /\ extraction'[x].room = room
             /\ \A y \in Extractions : y # x => extraction'[y] = extraction[y]
  <2> DEFINE r == [extraction[x] EXCEPT !.at = "apply", !.room = room]
  <2>1. extraction[x] \in Batch
    BY <1>2
  <2>2. r \in Batch
    BY <2>1 DEF Batch
  <2>3. r.at = "apply" /\ r.room = room /\ r.actions = extraction[x].actions
    BY <2>1 DEF Batch
  <2> HIDE DEF r
  <2>4. extraction' = [extraction EXCEPT ![x] = r]
    BY <1>5 DEF r
  <2>5. BatchFits(r)
    BY <1>2, <1>4, <1>5, <2>3 DEF BatchFits
  <2>. QED
    BY <1>2, <2>2, <2>3, <2>4, <2>5
<1>6. RowsOK(memories, nextId)' /\ OwnIds' = OwnIds /\ SummaryIds' = SummaryIds /\ FactIds' = FactIds
  BY <1>1, <1>2 DEF OwnIds, SummaryIds, FactIds
<1>7. quotaLost' \in BOOLEAN /\ cooling' \in BOOLEAN /\ erased' \in BOOLEAN
  <2>1. quotaLost \in BOOLEAN /\ cooling' \in BOOLEAN /\ erased' \in BOOLEAN
    BY <1>1, <1>2 DEF StoresHold, DecayHolds
  <2>2. quotaLost' = quotaLost \/ quotaLost' = TRUE
    BY DEF CountFacts
  <2>. QED
    BY <2>1, <2>2
<1>8. StoresHold' /\ DecayHolds'
  <2>1. nextId \in Nat /\ nextId <= nextId'
    BY <1>1, <1>2, MemoryAssumption DEF RowsOK
  <2>2. \A m \in memories' : \E o \in memories : o.id = m.id /\ (o.decayed = StaleAge => m.decayed = StaleAge)
    BY <1>1
  <2>3. ~erased' => ~erased /\ SummaryIds \subseteq SummaryIds'
    BY <1>1, <1>6
  <2>4. OwnIds' \subseteq OwnIds /\ \A i \in SummaryIds' : i \in SummaryIds
    BY <1>6
  <2>. QED
    BY <1>1, <1>6, <1>7, <2>1, <2>2, <2>3, <2>4, OthersAreLeft
<1>9. CASE quotaLost' = TRUE
           /\ extraction' = [extraction EXCEPT ![x] = [extraction[x] EXCEPT !.at = "apply", !.room = BatchSize]]
  <2>1. BatchSize \in Int /\ BatchSize <= BatchSize + MemoryLimit
    BY <1>4
  <2>2. extraction' \in [Extractions -> Batch] /\ \A y \in Extractions : BatchFits(extraction'[y])
    BY <1>5, <1>9, <2>1
  <2>3. FactsHold'
    <3>1. \A y \in Extractions : BatchFits(extraction[y])'
      BY <2>2 DEF BatchFits
    <3>. QED
      BY <1>9, <2>2, <3>1 DEF FactsHold, FactsFit
  <2>. QED
    BY <1>6, <1>8, <2>3 DEF MemoryIInv
<1>10. CASE quotaLost' = quotaLost
            /\ extraction' = [extraction EXCEPT ![x] = [extraction[x] EXCEPT !.at = "apply", !.room = left]]
  <2>1. left \in Int /\ left <= BatchSize + MemoryLimit /\ left <= MemoryLimit
    BY <1>3, <1>4
  <2> HIDE DEF left
  <2>2. /\ extraction' \in [Extractions -> Batch] /\ \A y \in Extractions : BatchFits(extraction'[y])
        /\ extraction'[x].at = "apply" /\ extraction'[x].room = left
        /\ \A y \in Extractions : y # x => extraction'[y] = extraction[y]
    BY <1>5, <1>10, <2>1
  <2>3. ASSUME ~quotaLost'
        PROVE  /\ \A y \in Extractions : extraction'[y].at = "apply" => extraction'[y].room <= MemoryLimit
               /\ Cardinality(FactIds') + Cardinality(Vacancies') <= FactBound
    <3>1. /\ \A y \in Extractions : extraction[y].at = "apply" => extraction[y].room <= MemoryLimit
          /\ Cardinality(FactIds) + Cardinality(Vacancies) <= FactBound
      BY <1>2, <1>10, <2>3 DEF FactsFit
    <3>2. \A y \in Extractions : extraction'[y].at = "apply" => extraction'[y].room <= MemoryLimit
      BY <2>1, <2>2, <3>1
    <3>3. FactBound \in Int /\ Cardinality(Vacancies) \in Nat
      BY VacanciesAreFinite, FS_CardinalityType
    <3>4. CASE left <= 0
      <4>1. Vacancies' \subseteq Vacancies
        <5> SUFFICES ASSUME NEW y \in Extractions, NEW i \in 1 .. BatchSize, extraction'[y].at = "apply",
                            i <= extraction'[y].room, i <= Len(extraction'[y].actions)
                     PROVE  extraction[y].at = "apply" /\ i <= extraction[y].room /\ i <= Len(extraction[y].actions)
          BY DEF Vacancies
        <5>1. y # x
          BY <2>1, <2>2, <3>4
        <5>. QED
          BY <2>2, <5>1
      <4>2. Cardinality(Vacancies') \in Nat /\ Cardinality(Vacancies') <= Cardinality(Vacancies)
        BY <4>1, VacanciesAreFinite, SmallerCount
      <4>. QED
        BY <1>3, <1>6, <3>1, <3>2, <3>3, <4>2
    <3>5. CASE left > 0
      <4>1. left \in Nat /\ extraction'[x].room <= left
        BY <2>1, <2>2, <3>5
      <4>2. \A y \in Extractions \ {x} :
              BatchFits(extraction'[y]) /\ (extraction'[y].at = "apply" => extraction'[y].room <= MemoryLimit)
        BY <2>2, <3>2
      <4> DEFINE e == extraction'
                 P == Vacancies'
      <4>3. P = {p \in Extractions \X (1 .. BatchSize) :
                   /\ e[p[1]].at = "apply" /\ p[2] <= e[p[1]].room /\ p[2] <= Len(e[p[1]].actions)}
        BY DEF Vacancies
      <4>4. e \in [Extractions -> Batch] /\ e[x].room <= left
            /\ \A y \in Extractions \ {x} : BatchFits(e[y]) /\ (e[y].at = "apply" => e[y].room <= MemoryLimit)
        BY <2>2, <4>1, <4>2
      <4> HIDE DEF e, P
      <4>5. Cardinality(P) \in Nat /\ Cardinality(P) <= (Cardinality(Extractions) - 1) * Spread + left
        BY <4>1, <4>3, <4>4, VacanciesOfOthers
      <4>6. PICK w \in Int : w = (Cardinality(Extractions) - 1) * Spread
        BY <1>4, MemoryAssumption, FS_CardinalityType DEF Spread
      <4>7. Cardinality(P) <= w + left /\ FactBound = MemoryLimit + w
        BY <4>5, <4>6 DEF FactBound
      <4>8. Cardinality(FactIds') + Cardinality(P) <= FactBound
        BY <1>3, <1>4, <1>6, <2>1, <4>5, <4>6, <4>7 DEF left
      <4>. QED
        BY <3>2, <4>8 DEF P
    <3>. QED
      BY <2>1, <3>4, <3>5
  <2>4. FactsHold'
    <3>1. \A y \in Extractions : BatchFits(extraction[y])'
      BY <2>2 DEF BatchFits
    <3>2. FactsFit'
      BY <2>3 DEF FactsFit, FactBound, Spread
    <3>. QED
      BY <2>2, <3>1, <3>2 DEF FactsHold
  <2>. QED
    BY <1>6, <1>8, <2>4 DEF MemoryIInv
<1>. QED
  BY <1>3, <1>9, <1>10 DEF CountFacts, Continue

(* A batch that goes on without adding a row.                              *)
LEMMA FactsStay ==
  ASSUME RowsOK(memories, nextId), FactsHold, UNCHANGED quotaLost, FactIds' \subseteq FactIds,
         NEW x \in Extractions, extraction[x].at = "apply", Applied(x, extraction[x].room)
  PROVE  FactsHold'
<1>1. /\ extraction \in [Extractions -> Batch]
      /\ \A y \in Extractions : extraction[y].room \in Int /\ Len(extraction[y].actions) \in Nat
  BY LenProperties DEF FactsHold, Batch
<1>2. extraction[x].room \in Int /\ extraction[x].room <= extraction[x].room
  BY <1>1
<1>3. /\ extraction' \in [Extractions -> Batch]
      /\ \A y \in Extractions : BatchFits(extraction'[y]) /\ (y # x => extraction'[y] = extraction[y])
      /\ extraction'[x].at = "apply" =>
           /\ extraction'[x].room = extraction[x].room
           /\ Len(extraction'[x].actions) = Len(extraction[x].actions) - 1
  BY <1>2, BatchShrinks
<1>4. ASSUME NEW y \in Extractions, extraction'[y].at = "apply"
      PROVE  /\ extraction[y].at = "apply" /\ extraction'[y].room <= extraction[y].room
             /\ Len(extraction'[y].actions) <= Len(extraction[y].actions)
  <2>1. CASE y = x
    BY <1>1, <1>3, <1>4, <2>1
  <2>2. CASE y # x
    BY <1>1, <1>3, <1>4, <2>2
  <2>. QED
    BY <2>1, <2>2
<1>. QED
  BY <1>3, <1>4, FactsAreLeft

(* A batch that adds a row gives up a place.                               *)
LEMMA FactComes ==
  ASSUME FactsHold, UNCHANGED quotaLost, IsFiniteSet(FactIds), NEW n,
         FactIds' = FactIds \cup {n} \/ FactIds' = FactIds,
         NEW x \in Extractions, extraction[x].at = "apply", extraction[x].room > 0,
         Applied(x, extraction[x].room - 1)
  PROVE  FactsHold'
<1> DEFINE room == extraction[x].room
           len == Len(extraction[x].actions)
           top == IF room <= len THEN room ELSE len
<1>1. /\ \A y \in Extractions : BatchFits(extraction[y])
      /\ \A y \in Extractions : extraction[y].room \in Int /\ Len(extraction[y].actions) \in Nat
      /\ BatchSize \in Nat /\ MemoryLimit \in Nat /\ FactsFit
  BY LenProperties, MemoryAssumption DEF FactsHold, Batch
<1>2. room - 1 \in Int /\ room - 1 <= room /\ room \in Int /\ room > 0 /\ len <= BatchSize
  BY <1>1 DEF BatchFits
<1>3. /\ extraction' \in [Extractions -> Batch]
      /\ \A y \in Extractions : BatchFits(extraction'[y]) /\ (y # x => extraction'[y] = extraction[y])
      /\ len \in Nat \ {0}
      /\ extraction'[x].at = "apply" =>
           extraction'[x].room = room - 1 /\ Len(extraction'[x].actions) = len - 1
  BY <1>2, BatchShrinks
<1> HIDE DEF room, len
<1>4. top \in 1 .. BatchSize /\ top <= room /\ top <= len /\ (top = room \/ top = len)
  BY <1>1, <1>2, <1>3
<1> HIDE DEF top
<1>5. <<x, top>> \in Vacancies
  BY <1>4 DEF Vacancies, room, len
<1>6. Vacancies' \subseteq Vacancies \ {<<x, top>>}
  <2> SUFFICES ASSUME NEW y \in Extractions, NEW i \in 1 .. BatchSize, extraction'[y].at = "apply",
                      i <= extraction'[y].room, i <= Len(extraction'[y].actions)
               PROVE  /\ extraction[y].at = "apply" /\ i <= extraction[y].room
                      /\ i <= Len(extraction[y].actions) /\ ~(y = x /\ i = top)
    BY DEF Vacancies
  <2>1. CASE y = x
    <3>1. i <= room - 1 /\ i <= len - 1 /\ i \in Int
      BY <1>3, <2>1
    <3>2. i <= room /\ i <= len /\ i # top
      BY <1>2, <1>3, <1>4, <3>1
    <3>. QED
      BY <2>1, <3>2 DEF room, len
  <2>2. CASE y # x
    BY <1>3, <2>2
  <2>. QED
    BY <2>1, <2>2
<1>7. /\ Cardinality(Vacancies') \in Nat /\ Cardinality(Vacancies) \in Nat
      /\ Cardinality(Vacancies') <= Cardinality(Vacancies) - 1
  <2>1. IsFiniteSet(Vacancies \ {<<x, top>>}) /\ Cardinality(Vacancies \ {<<x, top>>}) = Cardinality(Vacancies) - 1
    BY <1>5, VacanciesAreFinite, FS_RemoveElement
  <2>. QED
    BY <1>6, <2>1, SmallerCount, VacanciesAreFinite, FS_CardinalityType
<1>8. /\ Cardinality(FactIds) \in Nat /\ Cardinality(FactIds') \in Nat
      /\ Cardinality(FactIds') <= Cardinality(FactIds) + 1
  <2>1. Cardinality(FactIds) \in Nat
    BY FS_CardinalityType
  <2>2. CASE FactIds' = FactIds
    BY <2>1, <2>2
  <2>3. CASE FactIds' = FactIds \cup {n}
    <3>1. IsFiniteSet(FactIds \cup {n}) /\ (n \in FactIds => FactIds \cup {n} = FactIds)
      BY FS_AddElement
    <3>2. n \notin FactIds => Cardinality(FactIds \cup {n}) = Cardinality(FactIds) + 1
      BY FS_AddElement
    <3>. QED
      BY <2>1, <2>3, <3>1, <3>2
  <2>. QED
    BY <2>2, <2>3
<1>9. ASSUME ~quotaLost'
      PROVE  /\ \A y \in Extractions : extraction'[y].at = "apply" => extraction'[y].room <= MemoryLimit
             /\ Cardinality(FactIds') + Cardinality(Vacancies') <= FactBound
  <2>1. /\ \A y \in Extractions : extraction[y].at = "apply" => extraction[y].room <= MemoryLimit
        /\ Cardinality(FactIds) + Cardinality(Vacancies) <= FactBound
    BY <1>1, <1>9 DEF FactsFit
  <2>2. FactBound \in Int
    BY VacanciesAreFinite
  <2>3. Cardinality(FactIds') + Cardinality(Vacancies') <= FactBound
    BY <1>7, <1>8, <2>1, <2>2
  <2>4. ASSUME NEW y \in Extractions, extraction'[y].at = "apply"
        PROVE  extraction'[y].room <= MemoryLimit
    <3>1. CASE y = x
      <4>1. room <= MemoryLimit
        BY <2>1 DEF room
      <4>. QED
        BY <1>1, <1>2, <1>3, <2>4, <3>1, <4>1
    <3>2. CASE y # x
      BY <1>3, <2>1, <2>4, <3>2
    <3>. QED
      BY <3>1, <3>2
  <2>. QED
    BY <2>3, <2>4
<1>10. FactsFit' /\ \A y \in Extractions : BatchFits(extraction[y])'
  BY <1>3, <1>9 DEF FactsFit, FactBound, Spread, BatchFits
<1>. QED
  BY <1>3, <1>10 DEF FactsHold

LEMMA BatchInserts ==
  ASSUME MemoryIInv, NEW x \in Extractions, ApplyInsert(x)
  PROVE  MemoryIInv'
<1>1. /\ UNCHANGED <<store, decay, cooling, quotaLost, cutShort, outdated, erased, stored>>
      /\ extraction[x].at = "apply" /\ Head(extraction[x].actions).do = "insert"
  BY DEF ApplyInsert, Applied, Continue, history
<1>2. RowsOK(memories, nextId) /\ FactsHold /\ StoresHold /\ DecayHolds
  BY DEF MemoryIInv
<1>3. cooling' \in BOOLEAN /\ quotaLost' \in BOOLEAN /\ erased' \in BOOLEAN
  BY <1>1, <1>2 DEF StoresHold, DecayHolds
<1>4. extraction[x].room \in Int /\ nextId \in Nat /\ MaxRows \in Nat
  BY <1>2, MemoryAssumption DEF FactsHold, Batch, RowsOK
<1>5. CASE extraction[x].room <= 0
  <2>1. Applied(x, extraction[x].room) /\ UNCHANGED <<memories, nextId>>
    BY <1>5 DEF ApplyInsert
  <2>2. RowsOK(memories, nextId)' /\ OwnIds' = OwnIds /\ SummaryIds' = SummaryIds /\ FactIds' = FactIds
    BY <1>2, <2>1 DEF OwnIds, SummaryIds, FactIds
  <2>3. FactsHold'
    BY <1>1, <1>2, <2>1, <2>2, FactsStay
  <2>4. \A m \in memories' : \E o \in memories : o.id = m.id /\ (o.decayed = StaleAge => m.decayed = StaleAge)
    BY <2>1
  <2>5. nextId <= nextId' /\ (~erased' => ~erased)
    BY <1>1, <1>4, <2>1
  <2>6. StoresHold' /\ DecayHolds'
    BY <1>1, <1>3, <2>2, <2>4, <2>5, OthersAreLeft
  <2>. QED
    BY <2>2, <2>3, <2>6 DEF MemoryIInv
<1>6. CASE ~(extraction[x].room <= 0)
  <2>1. PICK salience \in 0 .. Full :
          /\ Create(Head(extraction[x].actions).kind, salience)
          /\ Applied(x, extraction[x].room - 1)
    BY <1>6 DEF ApplyInsert
  <2> DEFINE kind == Head(extraction[x].actions).kind
             more == WithRow(memories, nextId, kind, salience)
  <2>2. kind \in {"fact", "told"}
    <3>1. extraction[x].room - 1 \in Int /\ extraction[x].room - 1 <= extraction[x].room
      BY <1>4
    <3>2. Head(extraction[x].actions) \in KnownActions
      BY <1>1, <1>2, <2>1, <3>1, BatchShrinks
    <3>3. Head(extraction[x].actions) \in {Insert("fact"), Insert("told")}
      <4>1. \A i : Update(i).do = "update"
        BY DEF Update
      <4>. QED
        BY <1>1, <3>2, <4>1 DEF KnownActions
    <3>. QED
      BY <3>3 DEF Insert
  <2>3. nextId <= MaxRows /\ memories' = more /\ nextId' = nextId + 1
    BY <2>1 DEF Create, WithRow, NewRow
  <2>4. kind \in Kinds /\ kind # "summary"
    BY <2>2 DEF Kinds
  <2>5. \A m \in more : m \in memories \/ m.id = nextId
    BY DEF WithRow, NewRow
  <2> HIDE DEF kind
  <2>6. /\ RowsOK(more, nextId + 1)
        /\ Ids(OwnSummaries(more)) = Ids(OwnSummaries(memories)) \cup (IF kind = "summary" THEN {nextId} ELSE {})
        /\ Ids(AllSummaries(more)) = Ids(AllSummaries(memories)) \cup (IF kind # "fact" THEN {nextId} ELSE {})
        /\ Ids(FactsOf(more)) = Ids(FactsOf(memories)) \cup (IF kind = "fact" THEN {nextId} ELSE {})
    BY <1>2, <2>3, <2>4, RowAdded
  <2> HIDE DEF more
  <2>8. /\ RowsOK(memories, nextId)' /\ OwnIds' = OwnIds
        /\ SummaryIds' = SummaryIds \/ SummaryIds' = SummaryIds \cup {nextId}
        /\ FactIds' = FactIds \cup {nextId} \/ FactIds' = FactIds
    BY <2>3, <2>4, <2>6 DEF OwnIds, SummaryIds, FactIds
  <2>9. IsFiniteSet(FactIds)
    <3>1. FactsOf(memories) \subseteq memories
      BY DEF FactsOf
    <3>. QED
      BY <1>2, <3>1, RowsAreIds DEF FactIds
  <2>10. extraction[x].room > 0
    BY <1>4, <1>6
  <2>11. FactsHold'
    BY <1>1, <1>2, <2>1, <2>8, <2>9, <2>10, FactComes
  <2>12. nextId <= nextId' /\ nextId >= nextId
    BY <1>4, <2>3
  <2>13. /\ OwnIds' \subseteq OwnIds /\ SummaryIds \subseteq SummaryIds'
         /\ \A i \in SummaryIds' : i \in SummaryIds \/ i >= nextId
    BY <2>8, <2>12
  <2>14. \A m \in memories' :
           \/ m.id \in Nat /\ m.id >= nextId
           \/ \E o \in memories : o.id = m.id /\ (o.decayed = StaleAge => m.decayed = StaleAge)
    BY <1>4, <2>3, <2>5, <2>12
  <2>15. ~erased' => ~erased
    BY <1>1
  <2>16. StoresHold' /\ DecayHolds'
    BY <1>1, <1>3, <2>8, <2>12, <2>13, <2>14, <2>15, OthersAreLeft
  <2>. QED
    BY <2>8, <2>11, <2>16 DEF MemoryIInv
<1>. QED
  BY <1>5, <1>6

LEMMA BatchUpdates ==
  ASSUME MemoryIInv, NEW x \in Extractions, ApplyUpdate(x)
  PROVE  MemoryIInv'
<1> DEFINE id == Head(extraction[x].actions).id
<1>1. /\ UNCHANGED <<store, decay, cooling, quotaLost, cutShort, outdated, erased, stored>>
      /\ extraction[x].at = "apply"
  BY DEF ApplyUpdate, Applied, Continue, history
<1>2. RowsOK(memories, nextId) /\ FactsHold /\ StoresHold /\ DecayHolds
  BY DEF MemoryIInv
<1>3. CASE id \in Ids(memories)
  <2>1. PICK salience \in 0 .. Full : Rewrite(id, salience)
    BY <1>3 DEF ApplyUpdate
  <2>2. Applied(x, extraction[x].room)
    BY <1>3 DEF ApplyUpdate
  <2> HIDE DEF id
  <2>3. /\ RowsOK(memories, nextId)' /\ nextId' = nextId
        /\ OwnIds' = OwnIds /\ SummaryIds' = SummaryIds /\ FactIds' = FactIds
        /\ \A m \in memories' :
             \E o \in memories : o.id = m.id /\ (o.decayed = StaleAge => m.decayed = StaleAge)
    BY <1>2, <2>1, RowRewritten
  <2>4. FactsHold'
    BY <1>1, <1>2, <2>2, <2>3, FactsStay
  <2>5. nextId <= nextId' /\ (~erased' => ~erased)
    BY <1>1, <1>2, <2>3, MemoryAssumption DEF RowsOK
  <2>6. cooling' \in BOOLEAN /\ quotaLost' \in BOOLEAN /\ erased' \in BOOLEAN
    BY <1>1, <1>2 DEF StoresHold, DecayHolds
  <2>7. StoresHold' /\ DecayHolds'
    BY <1>1, <2>3, <2>5, <2>6, OthersAreLeft
  <2>. QED
    BY <2>3, <2>4, <2>7 DEF MemoryIInv
<1>4. CASE id \notin Ids(memories)
  <2>1. UNCHANGED <<memories, nextId>> /\ extraction' = [extraction EXCEPT ![x] = NoActions]
    BY <1>4 DEF ApplyUpdate, Continue
  <2>2. UNCHANGED history
    BY DEF ApplyUpdate
  <2>. QED
    BY <1>1, <2>1, <2>2, NoActionsIsOne, BatchMoves
<1>. QED
  BY <1>3, <1>4

-----------------------------------------------------------------------------
(* The steps of decay, of the owner and of time.                           *)

LEMMA BatchesRest ==
  ASSUME RowsOK(memories, nextId), FactsHold, UNCHANGED <<extraction, quotaLost>>, FactIds' \subseteq FactIds
  PROVE  FactsHold'
<1>1. \A x \in Extractions : extraction[x].room \in Int /\ Len(extraction[x].actions) \in Nat
  BY LenProperties DEF FactsHold, Batch
<1>2. /\ extraction' \in [Extractions -> Batch]
      /\ \A x \in Extractions :
           /\ BatchFits(extraction'[x]) /\ extraction'[x] = extraction[x]
           /\ extraction[x].room <= extraction[x].room
           /\ Len(extraction[x].actions) <= Len(extraction[x].actions)
  BY <1>1 DEF FactsHold
<1>. QED
  BY <1>2, FactsAreLeft

(* What the parts but decay's need of a step of decay or of the owner.     *)
LEMMA RowsMove ==
  ASSUME MemoryIInv, RowsOK(memories, nextId)', nextId' = nextId,
         UNCHANGED <<store, extraction, stored, cutShort, outdated, quotaLost>>, erased' \in BOOLEAN,
         OwnIds' \subseteq OwnIds, SummaryIds' \subseteq SummaryIds, FactIds' \subseteq FactIds,
         ~erased' => ~erased /\ SummaryIds' = SummaryIds
  PROVE  StoresHold' /\ FactsHold'
<1>1. nextId <= nextId' /\ quotaLost' \in BOOLEAN
  BY MemoryAssumption DEF MemoryIInv, RowsOK, StoresHold
<1>2. StoresHold'
  BY <1>1, StoresAreLeft DEF MemoryIInv
<1>. QED
  BY <1>2, BatchesRest DEF MemoryIInv

LEMMA DecayMoves ==
  ASSUME MemoryIInv, UNCHANGED <<memories, nextId, store, extraction, history>>, DecayHolds'
  PROVE  MemoryIInv'
<1>1. RowsOK(memories, nextId)' /\ OwnIds' = OwnIds /\ SummaryIds' = SummaryIds /\ FactIds' = FactIds
  BY DEF MemoryIInv, OwnIds, SummaryIds, FactIds
<1>2. erased' \in BOOLEAN /\ erased' = erased
  BY DEF MemoryIInv, StoresHold, history
<1>3. StoresHold' /\ FactsHold'
  BY <1>1, <1>2, RowsMove DEF history
<1>. QED
  BY <1>1, <1>3 DEF MemoryIInv

LEMMA RestingIsOne ==
  ASSUME decay' = Resting, cooling' \in BOOLEAN
  PROVE  DecayHolds'
BY DEF DecayHolds, Resting

LEMMA DecayBegins ==
  ASSUME MemoryIInv, StartDecay \/ ListStale \/ EndDecay
  PROVE  MemoryIInv'
<1>1. RowsOK(memories, nextId) /\ DecayHolds /\ cooling \in BOOLEAN
  BY DEF MemoryIInv, DecayHolds
<1>2. CASE StartDecay
  <2>1. decay' = [Resting EXCEPT !.at = "list"] /\ cooling' = TRUE
        /\ UNCHANGED <<memories, nextId, store, extraction, history>>
    BY <1>2 DEF StartDecay, Decaying
  <2>2. DecayHolds'
    BY <2>1 DEF DecayHolds, Resting
  <2>. QED
    BY <2>1, <2>2, DecayMoves
<1>3. CASE ListStale
  <2>1. decay' = [at |-> "fade", listed |-> {m \in Facts : m.age = StaleAge}] /\ cooling' = cooling
        /\ UNCHANGED <<memories, nextId, store, extraction, history>>
    BY <1>3 DEF ListStale, Decaying
  <2>2. \A m \in memories : m.id < nextId /\ m \in Row /\ (m.age = StaleAge => m.decayed = StaleAge)
    <3>1. \A m \in memories : m \in Row /\ m.id < nextId /\ m.age <= m.decayed /\ StaleAge \in Nat
      BY <1>1, MemoryAssumption DEF RowsOK
    <3>2. \A m \in memories : m.decayed \in 0 .. StaleAge
      BY <3>1 DEF Row
    <3>. QED
      BY <3>1, <3>2
  <2>3. \A m, o \in memories : m.id = o.id => m = o
    BY <1>1 DEF RowsOK
  <2>4. decay'.at = "fade" /\ decay'.listed \subseteq memories /\ \A l \in decay'.listed : l.age = StaleAge
    BY <2>1 DEF Facts
  <2>5. decay' \in [at : {"idle", "list", "fade"}, listed : SUBSET Row]
    <3>1. {m \in Facts : m.age = StaleAge} \in SUBSET Row
      BY <2>2 DEF Facts
    <3>. QED
      BY <2>1, <3>1
  <2>6. DecayHolds'
    BY <1>1, <2>1, <2>2, <2>3, <2>4, <2>5 DEF DecayHolds
  <2>. QED
    BY <2>1, <2>6, DecayMoves
<1>4. CASE EndDecay
  <2>1. decay' = Resting /\ cooling' = cooling /\ UNCHANGED <<memories, nextId, store, extraction, history>>
    BY <1>4 DEF EndDecay, Decaying
  <2>. QED
    BY <1>1, <2>1, RestingIsOne, DecayMoves
<1>. QED
  BY <1>2, <1>3, <1>4

(* Rows that fade keep what they are, but for the time of their decay.     *)
LEMMA RowFades ==
  ASSUME MemoryIInv, Fade
  PROVE  MemoryIInv'
<1>1. PICK m \in decay.listed :
        IF m.id \in Ids(memories)
        THEN /\ memories' = {IF o.id = m.id
                             THEN [o EXCEPT !.salience = Faded(m), !.age = 0, !.decayed = 0]
                             ELSE o : o \in memories}
             /\ Decaying([decay EXCEPT !.listed = @ \ {m}])
        ELSE Decaying(Resting) /\ UNCHANGED memories
  BY DEF Fade
<1>2. UNCHANGED <<nextId, cooling, history, store, extraction>> /\ decay.at = "fade"
  BY <1>1 DEF Fade, Decaying
<1>3. RowsOK(memories, nextId) /\ DecayHolds /\ cooling' \in BOOLEAN /\ m \in Row
  BY <1>2 DEF MemoryIInv, DecayHolds
<1>4. CASE m.id \notin Ids(memories)
  <2>1. decay' = Resting /\ UNCHANGED memories
    BY <1>1, <1>4 DEF Decaying
  <2>. QED
    BY <1>2, <1>3, <2>1, RestingIsOne, DecayMoves
<1>5. CASE m.id \in Ids(memories)
  <2> DEFINE f == Faded(m)
             w(o) == IF o.id = m.id THEN [o EXCEPT !.salience = f, !.age = 0, !.decayed = 0] ELSE o
             g == [o \in memories |-> w(o)]
  <2>1. memories' = {w(o) : o \in memories} /\ decay' = [decay EXCEPT !.listed = @ \ {m}]
    BY <1>1, <1>5 DEF Decaying
  <2>2. f \in 0 .. Full
    <3>1. m.salience \in 0 .. Full /\ Full \in Nat
      BY <1>3, MemoryAssumption DEF Row
    <3>2. m.salience \in Nat /\ m.salience <= Full
      BY <3>1
    <3>3. \E i \in {m.salience - 1, 0} : \A j \in {m.salience - 1, 0} : i >= j
      BY <3>2
    <3>4. f \in {m.salience - 1, 0} /\ \A j \in {m.salience - 1, 0} : f >= j
      BY <3>3 DEF Faded, Max
    <3>. QED
      BY <3>1, <3>2, <3>4
  <2> HIDE DEF f
  <2>3. ASSUME NEW o \in memories
        PROVE  /\ w(o) \in Row /\ w(o).id = o.id /\ w(o).kind = o.kind /\ w(o).age <= w(o).decayed
               /\ o.id # m.id => w(o) = o
    <3>1. o \in Row /\ o.age <= o.decayed /\ 0 \in 0 .. StaleAge
      BY <1>3, MemoryAssumption DEF RowsOK
    <3> DEFINE p == [o EXCEPT !.salience = f, !.age = 0, !.decayed = 0]
    <3>2. p \in Row
      BY <2>2, <3>1 DEF Row
    <3>3. p.id = o.id /\ p.kind = o.kind /\ p.age = 0 /\ p.decayed = 0
      BY <3>1 DEF Row
    <3> HIDE DEF p
    <3>4. w(o) = IF o.id = m.id THEN p ELSE o
      BY DEF p
    <3> HIDE DEF w
    <3>. QED
      BY <3>1, <3>2, <3>3, <3>4
  <2> HIDE DEF w
  <2>4. /\ g \in [memories -> Row]
        /\ \A o \in memories : g[o].id = o.id /\ g[o].kind = o.kind /\ g[o].age <= g[o].decayed
    BY <2>3
  <2>5. memories' = {g[o] : o \in memories}
    BY <2>1
  <2> HIDE DEF g
  <2>6. /\ RowsOK({g[o] : o \in memories}, nextId)
        /\ Ids(OwnSummaries({g[o] : o \in memories})) = Ids(OwnSummaries(memories))
        /\ Ids(AllSummaries({g[o] : o \in memories})) = Ids(AllSummaries(memories))
        /\ Ids(FactsOf({g[o] : o \in memories})) = Ids(FactsOf(memories))
    BY <1>3, <2>4, RowsChanged
  <2>7. RowsOK(memories, nextId)' /\ OwnIds' = OwnIds /\ SummaryIds' = SummaryIds /\ FactIds' = FactIds
    BY <1>2, <2>5, <2>6 DEF OwnIds, SummaryIds, FactIds
  <2>8. DecayHolds'
    <3>1. /\ decay' \in [at : {"idle", "list", "fade"}, listed : SUBSET Row]
          /\ decay'.listed = decay.listed \ {m}
      BY <1>3, <2>1 DEF DecayHolds
    <3>2. ASSUME NEW l \in decay'.listed, NEW o \in memories', l.id = o.id
          PROVE  o.decayed = StaleAge
      <4>1. l \in decay.listed /\ l.id # m.id
        BY <1>3, <3>1 DEF DecayHolds
      <4>2. PICK q \in memories : o = w(q)
        BY <2>1
      <4>3. o = q
        BY <2>3, <3>2, <4>1, <4>2
      <4>. QED
        BY <1>3, <3>2, <4>1, <4>3 DEF DecayHolds
    <3>. QED
      BY <1>2, <1>3, <3>1, <3>2 DEF DecayHolds
  <2>9. erased' \in BOOLEAN /\ erased' = erased
    BY <1>2 DEF MemoryIInv, StoresHold, history
  <2>10. StoresHold' /\ FactsHold'
    BY <1>2, <2>7, <2>9, RowsMove DEF history
  <2>. QED
    BY <2>7, <2>8, <2>10 DEF MemoryIInv
<1>. QED
  BY <1>4, <1>5

LEMMA FadedGo ==
  ASSUME MemoryIInv, DeleteFaded
  PROVE  MemoryIInv'
<1>1. /\ memories' = memories \ {m \in Facts : m.salience < 1} /\ nextId' = nextId
      /\ decay' = Resting /\ UNCHANGED <<store, extraction, cooling, history>>
  BY DEF DeleteFaded, Delete, Decaying
<1>2. RowsOK(memories, nextId) /\ cooling' \in BOOLEAN
  BY <1>1 DEF MemoryIInv, DecayHolds
<1>3. memories' \subseteq memories
  BY <1>1
<1>4. RowsOK(memories, nextId)' /\ FactIds' \subseteq FactIds
  BY <1>1, <1>2, <1>3, RowsDropped DEF FactIds
<1>5. OwnIds' = OwnIds /\ SummaryIds' = SummaryIds
  <2>1. AllSummaries(memories') = AllSummaries(memories)
    BY <1>1 DEF AllSummaries, Facts
  <2>2. OwnSummaries(memories') = OwnSummaries(memories)
    BY <1>1 DEF OwnSummaries, Facts, IsSummary
  <2>. QED
    BY <2>1, <2>2 DEF OwnIds, SummaryIds
<1>6. erased' \in BOOLEAN /\ erased' = erased
  BY <1>1 DEF MemoryIInv, StoresHold, history
<1>7. StoresHold' /\ FactsHold'
  BY <1>1, <1>4, <1>5, <1>6, RowsMove DEF history
<1>. QED
  BY <1>1, <1>2, <1>4, <1>7, RestingIsOne DEF MemoryIInv

(* A row read back into a prompt, or edited.                               *)
LEMMA OwnerRewrites ==
  ASSUME MemoryIInv, Touch \/ Patch
  PROVE  MemoryIInv'
<1>1. PICK m \in memories, salience \in 0 .. Full : Rewrite(m.id, salience)
  <2>1. ASSUME Touch PROVE \E m \in memories, salience \in 0 .. Full : Rewrite(m.id, salience)
    <3>1. PICK m \in Facts : Rewrite(m.id, m.salience)
      BY <2>1 DEF Touch
    <3>2. m \in memories /\ m.salience \in 0 .. Full
      BY DEF Facts, MemoryIInv, RowsOK, Row
    <3>. QED
      BY <3>1, <3>2
  <2>2. ASSUME Patch PROVE \E m \in memories, salience \in 0 .. Full : Rewrite(m.id, salience)
    BY <2>2 DEF Patch
  <2>. QED
    BY <2>1, <2>2
<1>2. UNCHANGED <<store, extraction, decay, cooling, history>>
  BY DEF Touch, Patch, tasks
<1>3. /\ RowsOK(memories, nextId)' /\ nextId' = nextId
      /\ OwnIds' = OwnIds /\ SummaryIds' = SummaryIds /\ FactIds' = FactIds
      /\ \A o \in memories' :
           \E q \in memories : q.id = o.id /\ (q.decayed = StaleAge => o.decayed = StaleAge)
  BY <1>1, RowRewritten DEF MemoryIInv
<1>4. erased' \in BOOLEAN /\ erased' = erased /\ cooling' \in BOOLEAN /\ nextId' \in Nat /\ nextId <= nextId'
  BY <1>2, <1>3, MemoryAssumption DEF MemoryIInv, StoresHold, DecayHolds, RowsOK, history
<1>5. StoresHold' /\ FactsHold'
  BY <1>2, <1>3, <1>4, RowsMove DEF history
<1>6. DecayHolds'
  BY <1>2, <1>3, <1>4, DecayIsLeft DEF MemoryIInv
<1>. QED
  BY <1>3, <1>5, <1>6 DEF MemoryIInv

LEMMA OwnerErases ==
  ASSUME MemoryIInv, Erase
  PROVE  MemoryIInv'
<1>1. /\ memories' \subseteq memories /\ nextId' = nextId /\ erased' = TRUE
      /\ UNCHANGED <<store, extraction, decay, cooling, quotaLost, cutShort, outdated, stored>>
  BY DEF Erase, Delete, tasks
<1>2. /\ RowsOK(memories, nextId)' /\ FactIds' \subseteq FactIds
      /\ OwnIds' \subseteq OwnIds /\ SummaryIds' \subseteq SummaryIds
  BY <1>1, RowsDropped DEF MemoryIInv, FactIds, OwnIds, SummaryIds
<1>3. erased' \in BOOLEAN /\ ~(~erased') /\ cooling' \in BOOLEAN /\ nextId' \in Nat /\ nextId <= nextId'
  BY <1>1, MemoryAssumption DEF MemoryIInv, DecayHolds, RowsOK
<1>4. StoresHold' /\ FactsHold'
  BY <1>1, <1>2, <1>3, RowsMove
<1>5. DecayHolds'
  BY <1>1, <1>3, DecayIsLeft DEF MemoryIInv
<1>. QED
  BY <1>2, <1>4, <1>5 DEF MemoryIInv

LEMMA RowsAge ==
  ASSUME MemoryIInv, TimePasses
  PROVE  MemoryIInv'
<1> DEFINE Older(t) == IF t < StaleAge THEN t + 1 ELSE t
           w(m) == [m EXCEPT !.age = Older(@), !.decayed = Older(@)]
           g == [m \in memories |-> w(m)]
<1>1. /\ memories' = {w(m) : m \in memories} /\ nextId' = nextId /\ cooling' = FALSE
      /\ UNCHANGED <<store, extraction, decay, history>>
  BY DEF TimePasses
<1>2. RowsOK(memories, nextId) /\ StaleAge \in Nat
  BY MemoryAssumption DEF MemoryIInv
<1>3. ASSUME NEW m \in memories
      PROVE  /\ w(m) \in Row /\ w(m).id = m.id /\ w(m).kind = m.kind /\ w(m).age <= w(m).decayed
             /\ m.decayed = StaleAge => w(m).decayed = StaleAge
  <2>1. m \in Row /\ m.age <= m.decayed
    BY <1>2 DEF RowsOK
  <2>2. m.age \in 0 .. StaleAge /\ m.decayed \in 0 .. StaleAge
    BY <2>1 DEF Row
  <2>3. /\ Older(m.age) \in 0 .. StaleAge /\ Older(m.decayed) \in 0 .. StaleAge
        /\ Older(m.age) <= Older(m.decayed) /\ Older(StaleAge) = StaleAge
    BY <1>2, <2>1, <2>2
  <2> HIDE DEF Older
  <2>4. w(m) \in Row
    BY <2>1, <2>3 DEF Row
  <2>5. w(m).id = m.id /\ w(m).kind = m.kind /\ w(m).age = Older(m.age) /\ w(m).decayed = Older(m.decayed)
    BY <2>1 DEF Row
  <2> HIDE DEF w
  <2>. QED
    BY <2>3, <2>4, <2>5
<1> HIDE DEF w
<1>4. /\ g \in [memories -> Row]
      /\ \A m \in memories : g[m].id = m.id /\ g[m].kind = m.kind /\ g[m].age <= g[m].decayed
  BY <1>3
<1>5. memories' = {g[m] : m \in memories}
  BY <1>1
<1> HIDE DEF g
<1>6. /\ RowsOK({g[m] : m \in memories}, nextId)
      /\ Ids(OwnSummaries({g[m] : m \in memories})) = Ids(OwnSummaries(memories))
      /\ Ids(AllSummaries({g[m] : m \in memories})) = Ids(AllSummaries(memories))
      /\ Ids(FactsOf({g[m] : m \in memories})) = Ids(FactsOf(memories))
  BY <1>2, <1>4, RowsChanged
<1>7. RowsOK(memories, nextId)' /\ OwnIds' = OwnIds /\ SummaryIds' = SummaryIds /\ FactIds' = FactIds
  BY <1>1, <1>5, <1>6 DEF OwnIds, SummaryIds, FactIds
<1>8. erased' \in BOOLEAN /\ erased' = erased /\ cooling' \in BOOLEAN /\ nextId' \in Nat /\ nextId <= nextId'
  <2>1. nextId' \in Nat /\ nextId <= nextId'
    BY <1>1, <1>2, MemoryAssumption DEF RowsOK
  <2>2. erased' \in BOOLEAN /\ erased' = erased
    BY <1>1 DEF MemoryIInv, StoresHold, history
  <2>3. cooling' \in BOOLEAN
    BY <1>1
  <2>. QED
    BY <2>1, <2>2, <2>3
<1>9. StoresHold' /\ FactsHold'
  BY <1>1, <1>7, <1>8, RowsMove DEF history
<1>10. \A m \in memories' : \E o \in memories : o.id = m.id /\ (o.decayed = StaleAge => m.decayed = StaleAge)
  BY <1>1, <1>3
<1>11. DecayHolds'
  BY <1>1, <1>8, <1>10, DecayIsLeft DEF MemoryIInv
<1>. QED
  BY <1>7, <1>9, <1>11 DEF MemoryIInv

LEMMA AllEnd ==
  ASSUME MemoryIInv, Restart
  PROVE  MemoryIInv'
<1>1. /\ UNCHANGED <<memories, nextId, quotaLost, outdated, erased, stored>>
      /\ store' = [s \in Stores |-> Idle] /\ extraction' = [x \in Extractions |-> NoActions]
      /\ decay' = Resting /\ cooling' = FALSE
      /\ cutShort' = (cutShort \/ \E s \in Stores : store[s].at = "insert")
  BY DEF Restart
<1>2. store \in [Stores -> StoreRow] /\ StoresHold /\ RowsOK(memories, nextId) /\ FactsHold
  BY DEF MemoryIInv, StoresHold
<1>3. Numbered(OwnIds, SummaryIds, nextId) /\ nextId <= nextId
  BY IdsAreNumbered DEF MemoryIInv, OwnIds, SummaryIds, Numbered
<1>4. Idle \in StoreRow /\ Idle.at = "idle"
  <2>1. 0 \in 0 .. MaxRows
    BY MemoryAssumption
  <2>. QED
    BY <2>1 DEF Idle, StoreRow
<1>5. store' \in [Stores -> StoreRow] /\ \A s \in Stores : store'[s].at = "idle"
  BY <1>1, <1>4
<1>6. RoundsFit(OwnIds, SummaryIds, nextId, store')
  <2>1. \A s \in Stores : store'[s].at \notin Listing \cup {"insert"}
    BY <1>5 DEF Listing
  <2>. QED
    BY <1>2, <1>3, <2>1, RoundsStay DEF StoresHold
<1>7. /\ outdated' \in BOOLEAN /\ cutShort' \in BOOLEAN /\ (cutShort => cutShort')
      /\ \A s \in Stores : store[s].at = "insert" => cutShort'
  BY <1>1, <1>2 DEF StoresHold
<1>8. StoresHold'
  BY <1>1, <1>2, <1>5, <1>6, <1>7, StoresMove
<1>9. RowsOK(memories, nextId)' /\ FactIds' = FactIds
  BY <1>1, <1>2 DEF FactIds
<1>10. /\ extraction' \in [Extractions -> Batch]
       /\ \A x \in Extractions : BatchFits(extraction'[x]) /\ extraction'[x].at # "apply"
  BY <1>1, NoActionsIsOne
<1>11. FactsHold'
  BY <1>1, <1>2, <1>9, <1>10, FactsAreLeft
<1>12. DecayHolds'
  BY <1>1, RestingIsOne
<1>. QED
  BY <1>8, <1>9, <1>11, <1>12 DEF MemoryIInv

LEMMA MemoryStep == MemoryIInv /\ [MemoryNext]_memoryVars => MemoryIInv'
<1> SUFFICES ASSUME MemoryIInv, [MemoryNext]_memoryVars PROVE MemoryIInv'
  OBVIOUS
<1>1. ASSUME NEW s \in Stores, StoreStep(s) PROVE MemoryIInv'
  BY <1>1, StoreBegins, StoreCounts, StoreSelects, StoreEvicts, StoreInserts, StoreEnds DEF StoreStep
<1>2. ASSUME NEW x \in Extractions, ExtractionStep(x) PROVE MemoryIInv'
  BY <1>2, BatchIsExtracted, BatchCounts, BatchInserts, BatchUpdates, BatchEnds DEF ExtractionStep
<1>3. ASSUME DecayStep PROVE MemoryIInv'
  BY <1>3, DecayBegins, RowFades, FadedGo DEF DecayStep
<1>4. CASE UNCHANGED memoryVars
  <2>1. UNCHANGED <<memories, nextId, store, extraction, decay, cooling, history>>
    BY <1>4 DEF memoryVars, tasks
  <2>2. DecayHolds'
    BY <2>1 DEF MemoryIInv, DecayHolds
  <2>. QED
    BY <2>1, <2>2, DecayMoves
<1>. QED
  BY <1>1, <1>2, <1>3, <1>4, OwnerRewrites, OwnerErases, AllEnd, RowsAge DEF MemoryNext

(* The memories of a notebook, however turns overlap and tasks end:        *)
(* summaries above their maximum by no more than the turns in flight, the  *)
(* latest among them, and facts within the plan and the batches in flight. *)
THEOREM MemoriesStayBounded == MemorySpec => []MemoryInv
<1>1. MemorySpec => []MemoryIInv
  BY MemoryStarts, MemoryStep, PTL DEF MemorySpec
<1>. QED
  BY <1>1, MemoryIsSound, PTL

(* Decay fades a row at most once a week, whatever restarts and whoever    *)
(* edits, and deletes no summary.                                          *)
THEOREM DecayStaysMild == MemorySpec => DecayIsMild
<1>1. MemorySpec => []MemoryIInv
  BY MemoryStarts, MemoryStep, PTL DEF MemorySpec
<1>2. MemoryIInv => \A m \in memories :
                      m.id \in Ids(decay.listed) \ Ids(decay'.listed) => m.decayed = StaleAge
  BY DEF MemoryIInv, DecayHolds, Ids
<1>3. ASSUME MemoryIInv, MemoryNext, decay' # decay
      PROVE  Ids(Summaries) \subseteq Ids(memories')
  <2>1. ASSUME NEW s \in Stores, StoreStep(s) PROVE FALSE
    BY <1>3, <2>1 DEF StoreStep, Summarize, EmbedSummary, CountSummaries, SelectOldest, EvictSummaries,
       InsertSummary, EndStore, Goto
  <2>2. ASSUME NEW x \in Extractions, ExtractionStep(x) PROVE FALSE
    BY <1>3, <2>2 DEF ExtractionStep, ExtractMemories, CountFacts, ApplyInsert, ApplyUpdate, EndExtraction,
       Applied, Continue
  <2>3. ASSUME Touch \/ Patch \/ Erase \/ TimePasses PROVE FALSE
    BY <1>3, <2>3 DEF Touch, Patch, Erase, TimePasses, tasks
  <2>4. ASSUME StartDecay \/ ListStale \/ EndDecay \/ Restart PROVE UNCHANGED memories
    BY <2>4 DEF StartDecay, ListStale, EndDecay, Restart
  <2>5. ASSUME DeleteFaded PROVE Summaries \subseteq memories'
    BY <2>5 DEF DeleteFaded, Delete, Summaries, Facts
  <2>6. ASSUME Fade PROVE Ids(memories) \subseteq Ids(memories')
    <3>1. PICK m \in decay.listed :
            \/ memories' = {IF o.id = m.id
                            THEN [o EXCEPT !.salience = Faded(m), !.age = 0, !.decayed = 0]
                            ELSE o : o \in memories}
            \/ memories' = memories
      BY <2>6 DEF Fade
    <3>2. memories \subseteq Row
      BY <1>3 DEF MemoryIInv, RowsOK
    <3> DEFINE w(o) == IF o.id = m.id THEN [o EXCEPT !.salience = Faded(m), !.age = 0, !.decayed = 0] ELSE o
    <3>3. \A o \in memories : w(o).id = o.id
      BY <3>2 DEF Row
    <3>4. memories' = {w(o) : o \in memories} \/ memories' = memories
      BY <3>1
    <3> HIDE DEF w
    <3>5. \A o \in memories : \E p \in memories' : p.id = o.id
      BY <3>3, <3>4
    <3>. QED
      BY <3>5 DEF Ids
  <2>7. Summaries \subseteq memories
    BY DEF Summaries
  <2>. QED
    BY <1>3, <2>1, <2>2, <2>3, <2>4, <2>5, <2>6, <2>7 DEF MemoryNext, DecayStep, Ids
<1>4. MemoryIInv /\ [MemoryNext]_memoryVars
        => [\A m \in memories : m.id \in Ids(decay.listed) \ Ids(decay'.listed) => m.decayed = StaleAge]_memoryVars
           /\ [decay' # decay => Ids(Summaries) \subseteq Ids(memories')]_memoryVars
  BY <1>2, <1>3
<1>. QED
  BY <1>1, <1>4, PTL DEF MemorySpec, DecayIsMild, FadesOnceAWeek, SummariesOutlastDecay

=============================================================================
