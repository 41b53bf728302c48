--------------------------- MODULE IngestionTasks ---------------------------
(***************************************************************************)
(* The tasks one ingestion run owns (services/ingestion_tasks.rs) and the  *)
(* report its drain returns.  Async work can be cancelled and aborted;     *)
(* a closure on the blocking pool can be aborted only before it starts.    *)
(***************************************************************************)
EXTENDS Naturals, FiniteSets

CONSTANTS AsyncUnits, Closures

ASSUME UnitsAssumption ==
  /\ IsFiniteSet(AsyncUnits) /\ IsFiniteSet(Closures)
  /\ AsyncUnits \cap Closures = {}

VARIABLES
  unit,        \* AsyncUnits \cup Closures -> where the unit is
  counted,     \* closures in blocking_in_flight
  handles,     \* units whose abort handle is registered
  abortAsked,  \* units whose abort was requested
  forcedEnd,   \* history: units an abort ended
  owner,       \* where shutdown() is
  report       \* DrainReport, filled in as it is computed

ingestVars == <<unit, counted, handles, abortAsked, forcedEnd, owner, report>>

Units == AsyncUnits \cup Closures

\* Units the tracker still counts: a closure leaves it after its guard.
InTracker == {u \in Units : unit[u] \in {"queued", "running", "returned"}}

IngestInit ==
  /\ unit = [u \in Units |-> "new"]
  /\ counted = {} /\ handles = {} /\ abortAsked = {} /\ forcedEnd = {}
  /\ owner = "building"
  /\ report = [spawned |-> 0, blocking |-> 0, within |-> TRUE, abandoned |-> 0]

Set(u, place) == unit' = [unit EXCEPT ![u] = place]

Spawn(u) ==
  /\ owner = "building" /\ u \in AsyncUnits /\ unit[u] = "new"
  /\ Set(u, "running") /\ handles' = handles \cup {u}
  /\ UNCHANGED <<counted, abortAsked, forcedEnd, owner, report>>

\* Mutant: counted from inside the closure.
SpawnBlockingUncounted(u) ==
  /\ owner = "building" /\ u \in Closures /\ unit[u] = "new"
  /\ Set(u, "queued") /\ handles' = handles \cup {u}
  /\ UNCHANGED <<counted, abortAsked, forcedEnd, owner, report>>

SpawnBlocking(u) ==
  /\ owner = "building" /\ u \in Closures /\ unit[u] = "new"
  /\ Set(u, "queued") /\ handles' = handles \cup {u} /\ counted' = counted \cup {u}
  /\ UNCHANGED <<abortAsked, forcedEnd, owner, report>>

StartClosure(u) ==
  /\ unit[u] = "queued"
  /\ Set(u, "running")
  /\ UNCHANGED <<counted, handles, abortAsked, forcedEnd, owner, report>>

\* The closure returns and drops its guard; an async unit ends by itself.
UnitEnds(u) ==
  /\ unit[u] = "running"
  /\ Set(u, "returned") /\ counted' = counted \ {u}
  /\ UNCHANGED <<handles, abortAsked, forcedEnd, owner, report>>

LeaveTracker(u) ==
  /\ unit[u] = "returned"
  /\ Set(u, "gone")
  /\ UNCHANGED <<counted, handles, abortAsked, forcedEnd, owner, report>>

\* Async work unwinds at an await; a queued closure is dropped with its guard.
AbortTakesEffect(u) ==
  /\ u \in abortAsked
  /\ \/ u \in AsyncUnits /\ unit[u] = "running"
     \/ u \in Closures /\ unit[u] = "queued"
  /\ Set(u, "returned") /\ counted' = counted \ {u}
  /\ forcedEnd' = forcedEnd \cup {u}
  /\ UNCHANGED <<handles, abortAsked, owner, report>>

OwnerStep(from, to, newReport) ==
  /\ owner = from /\ owner' = to /\ report' = newReport
  /\ UNCHANGED <<unit, counted, handles, forcedEnd>>

BeginDrain ==
  /\ OwnerStep("building", "draining", [report EXCEPT !.spawned = Cardinality(handles)])
  /\ UNCHANGED abortAsked

WaitEnds ==
  /\ \/ InTracker = {} /\ OwnerStep("draining", "waited", report)
     \/ InTracker # {} /\ OwnerStep("draining", "waited", [report EXCEPT !.within = FALSE])
  /\ UNCHANGED abortAsked

ReadInFlight ==
  /\ OwnerStep("waited", IF report.within THEN "reported" ELSE "late",
       [report EXCEPT !.blocking = Cardinality(counted)])
  /\ UNCHANGED abortAsked

CountAbandoned ==
  /\ OwnerStep("late", "counted", [report EXCEPT !.abandoned = Cardinality(InTracker)])
  /\ UNCHANGED abortAsked

RequestAborts ==
  /\ OwnerStep("counted", "reported", report)
  /\ abortAsked' = handles

DrainStep == BeginDrain \/ WaitEnds \/ ReadInFlight \/ CountAbandoned \/ RequestAborts

UnitStep(u) ==
  \/ Spawn(u) \/ SpawnBlocking(u) \/ StartClosure(u) \/ UnitEnds(u)
  \/ LeaveTracker(u) \/ AbortTakesEffect(u)

IngestNext == DrainStep \/ \E u \in Units : UnitStep(u)

IngestSpec == IngestInit /\ [][IngestNext]_ingestVars

\* The runtime runs aborts and finished tasks; nothing makes a task end.
IngestFairness ==
  \A u \in Units : WF_ingestVars(AbortTakesEffect(u)) /\ WF_ingestVars(LeaveTracker(u))

-----------------------------------------------------------------------------
IngestTypeOK ==
  /\ unit \in [Units -> {"new", "queued", "running", "returned", "gone"}]
  /\ counted \subseteq Closures
  /\ handles \subseteq Units /\ abortAsked \subseteq Units /\ forcedEnd \subseteq Units
  /\ owner \in {"building", "draining", "waited", "late", "counted", "reported"}
  /\ report \in [spawned : Nat, blocking : Nat, within : BOOLEAN, abandoned : Nat]

MayStillRun == {u \in Closures : unit[u] \in {"queued", "running"}}

\* Everything stopped by itself if the report says so (is_clean).
CleanMeansStopped ==
  (report.within /\ report.abandoned = 0 /\ report.blocking = 0) => InTracker = {}

\* A closure nobody can stop is in the report, even one the pool had not started
\* when the drain looked: "honest count", spawn_blocking.
BlockingIsCounted == Cardinality(MayStillRun) <= report.blocking

\* A unit the drain had to kill is never reported among those that drained.
KilledAreAbandoned == Cardinality(forcedEnd) <= report.abandoned

\* Every unit of the run is either drained or abandoned (saturating_sub loses none).
ReportAddsUp == report.abandoned <= report.spawned /\ report.spawned = Cardinality(handles)

\* What the drain tells its caller is true at the time it returns and stays so.
DrainReportIsHonest ==
  owner = "reported" =>
    CleanMeansStopped /\ BlockingIsCounted /\ KilledAreAbandoned /\ ReportAddsUp

\* No async task of a run outlives the run's drain, however it is scheduled.
NoAsyncOutlivesDrain ==
  owner = "reported" ~> \A u \in AsyncUnits : unit[u] \in {"new", "gone"}

\* The run's units are well formed and its drain reports what really happened to them.
IngestInv == IngestTypeOK /\ DrainReportIsHonest

=============================================================================
