------------------------ MODULE ShutdownCoordinator ------------------------
(***************************************************************************)
(* The owner of the process's background tasks (middleware/shutdown.rs),   *)
(* the requests that hand work to it (run_admitted_source_request) and the *)
(* server's own life (run_server_lifecycle).                               *)
(*                                                                         *)
(* A request reserves its place, spawns one task and waits for the task to *)
(* say that its preparation is over.  What runs under the lifecycle mutex  *)
(* is one step; what follows the unlock is another.  The task tracker is   *)
(* the set of tokens it counts: reservations and tasks.                    *)
(***************************************************************************)
EXTENDS FiniteSets

CONSTANT Requests

VARIABLES
  accepting, forced, aborts,   \* Lifecycle, the part under the mutex
  closed, cancelled,           \* the tracker is closed, the root token cancelled
  closing,                     \* how far begin_shutdown has come
  held,                        \* reservations: TaskAdmission with its token
  call,                        \* Requests -> where the request's future is
  requestCancel,               \* Requests -> its drop guard has fired
  ready,                       \* Requests -> what the oneshot carries
  task,                        \* Requests -> where the spawned task is
  aborted,                     \* tasks whose abort was requested
  server,                      \* axum::serve
  runner,                      \* run_server_lifecycle
  toAbort                      \* the handles abort_remaining has cloned

lifecycle == <<accepting, forced, aborts>>
signals   == <<closed, cancelled, closing>>
requests  == <<held, call, requestCancel, ready>>
main      == <<server, runner, toAbort>>
coordVars == <<lifecycle, signals, requests, task, aborted, main>>

InTask   == {"preparing", "running", "ending", "leaving"}
InFlight == {"admitted", "spawned", "waiting"}

Tracked == {r \in Requests : task[r] \in InTask}

\* TaskTracker::wait
TrackerDone == closed /\ held = {} /\ Tracked = {}

CoordInit ==
  /\ accepting = TRUE /\ forced = FALSE /\ aborts = {}
  /\ closed = FALSE /\ cancelled = FALSE /\ closing = "no"
  /\ held = {} /\ aborted = {} /\ toAbort = {}
  /\ call = [r \in Requests |-> "idle"]
  /\ requestCancel = [r \in Requests |-> FALSE]
  /\ ready = [r \in Requests |-> "none"]
  /\ task = [r \in Requests |-> "none"]
  /\ server = "serving" /\ runner = "serving"

-----------------------------------------------------------------------------
(* Requests.                                                               *)

TryAdmit(r) ==
  /\ call[r] = "idle" /\ server # "exited"
  /\ IF accepting
     THEN call' = [call EXCEPT ![r] = "admitted"] /\ held' = held \cup {r}
     ELSE call' = [call EXCEPT ![r] = "refused"] /\ UNCHANGED held
  /\ UNCHANGED <<lifecycle, signals, requestCancel, ready, task, aborted, main>>

\* Mutant: a spawn that does not look at forced.
SpawnUnchecked(r) ==
  /\ call[r] = "admitted"
  /\ task' = [task EXCEPT ![r] = "preparing"]
  /\ aborts' = aborts \cup {r}
  /\ call' = [call EXCEPT ![r] = "spawned"]
  /\ UNCHANGED <<accepting, forced, signals, held, requestCancel, ready, aborted, main>>

SpawnAdmitted(r) ==
  /\ call[r] = "admitted" /\ ~forced
  /\ task' = [task EXCEPT ![r] = "preparing"]
  /\ aborts' = aborts \cup {r}
  /\ call' = [call EXCEPT ![r] = "spawned"]
  /\ UNCHANGED <<accepting, forced, signals, held, requestCancel, ready, aborted, main>>

\* The reservation outlives the moment the task has a token of its own.
DropReservation(r) ==
  /\ call[r] = "spawned"
  /\ call' = [call EXCEPT ![r] = "waiting"]
  /\ held' = held \ {r}
  /\ UNCHANGED <<lifecycle, signals, requestCancel, ready, task, aborted, main>>

SpawnRejected(r) ==
  /\ call[r] = "admitted" /\ forced
  /\ call' = [call EXCEPT ![r] = "rejected"]
  /\ held' = held \ {r}
  /\ requestCancel' = [requestCancel EXCEPT ![r] = TRUE]
  /\ UNCHANGED <<lifecycle, signals, ready, task, aborted, main>>

\* ready_rx resolves; request_guard is disarmed only behind a value.
Respond(r) ==
  /\ call[r] = "waiting" /\ ready[r] # "none"
  /\ call' = [call EXCEPT ![r] = IF ready[r] = "dropped" THEN "unavailable" ELSE "answered"]
  /\ requestCancel' = [requestCancel EXCEPT ![r] = ready[r] = "dropped"]
  /\ UNCHANGED <<lifecycle, signals, held, ready, task, aborted, main>>

\* The client or the router's timeout drops the request's future.
DropRequest(r) ==
  /\ call[r] = "waiting"
  /\ call' = [call EXCEPT ![r] = "gone"]
  /\ requestCancel' = [requestCancel EXCEPT ![r] = TRUE]
  /\ UNCHANGED <<lifecycle, signals, held, ready, task, aborted, main>>

-----------------------------------------------------------------------------
(* Tasks.                                                                  *)

StepTask(r, to, answer) ==
  /\ task' = [task EXCEPT ![r] = to]
  /\ ready' = [ready EXCEPT ![r] = IF @ = "none" THEN answer ELSE @]
  /\ UNCHANGED <<lifecycle, signals, held, call, requestCancel, aborted, main>>

Prepared(r) ==
  /\ task[r] = "preparing" /\ ~requestCancel[r]
  /\ \/ StepTask(r, "running", "response")   \* a job was claimed
     \/ StepTask(r, "ending", "response")    \* coalesced, or an error

PreparationCancelled(r) ==
  /\ task[r] = "preparing" /\ requestCancel[r]
  /\ StepTask(r, "ending", "dropped")

JobEnds(r) ==
  /\ task[r] = "running"
  /\ StepTask(r, "ending", "dropped")

\* An abort takes effect at the task's next await.
Unwind(r) ==
  /\ task[r] \in {"preparing", "running"} /\ r \in aborted
  /\ StepTask(r, "ending", "dropped")

\* Dropping TaskRegistration, then the tracker's token.
Unregister(r) ==
  /\ task[r] = "ending"
  /\ task' = [task EXCEPT ![r] = "leaving"]
  /\ aborts' = aborts \ {r}
  /\ UNCHANGED <<accepting, forced, signals, requests, aborted, main>>

Leave(r) ==
  /\ task[r] = "leaving"
  /\ task' = [task EXCEPT ![r] = "gone"]
  /\ UNCHANGED <<lifecycle, signals, requests, aborted, main>>

-----------------------------------------------------------------------------
(* Shutdown.                                                               *)

\* The part of begin_shutdown under the mutex; only its first caller goes on.
CloseAdmission ==
  /\ accepting' = FALSE
  /\ closing' = IF accepting THEN "refusing" ELSE closing
  /\ UNCHANGED <<forced, aborts, closed, cancelled>>

Signal ==
  /\ server = "serving"
  /\ CloseAdmission
  /\ server' = "stopping"
  /\ UNCHANGED <<requests, task, aborted, runner, toAbort>>

CloseTracker ==
  /\ closing = "refusing"
  /\ closing' = "closed" /\ closed' = TRUE
  /\ UNCHANGED <<lifecycle, cancelled, requests, task, aborted, main>>

CancelRoot ==
  /\ closing = "closed"
  /\ closing' = "done" /\ cancelled' = TRUE
  /\ UNCHANGED <<lifecycle, closed, requests, task, aborted, main>>

\* Graceful shutdown waits for the requests in flight; a failure does not.
ServerExits ==
  /\ \/ server = "serving"
     \/ server = "stopping" /\ \A r \in Requests : call[r] \notin InFlight
  /\ server' = "exited"
  /\ UNCHANGED <<lifecycle, signals, requests, task, aborted, runner, toAbort>>

Advance(to) ==
  /\ runner' = to
  /\ UNCHANGED <<lifecycle, signals, requests, task, aborted, server, toAbort>>

\* The biased select!: the token first, then the server's own end.
SeeShutdown == runner = "serving" /\ cancelled /\ Advance("draining")

SeeServerExit ==
  /\ runner = "serving" /\ server = "exited" /\ ~cancelled
  /\ CloseAdmission
  /\ runner' = "draining"
  /\ UNCHANGED <<requests, task, aborted, server, toAbort>>

\* join!(server, wait()) or wait() alone, within the timeout.
DrainEnds ==
  /\ runner = "draining" /\ server = "exited" /\ cancelled /\ TrackerDone
  /\ Advance("drained")

\* Mutant: a drain without a deadline.
DrainWaits == runner = "draining" /\ cancelled /\ FALSE /\ UNCHANGED coordVars

DrainTimesOut ==
  /\ runner = "draining"
  /\ forced' = TRUE /\ toAbort' = aborts
  /\ runner' = "aborting"
  /\ UNCHANGED <<accepting, aborts, signals, requests, task, aborted, server>>

AbortRemaining ==
  /\ runner = "aborting"
  /\ aborted' = aborted \cup toAbort
  /\ runner' = "stopped"
  /\ UNCHANGED <<lifecycle, signals, requests, task, server, toAbort>>

-----------------------------------------------------------------------------
RequestStep(r) ==
  \/ TryAdmit(r) \/ SpawnAdmitted(r) \/ DropReservation(r) \/ SpawnRejected(r)
  \/ Respond(r) \/ DropRequest(r)

TaskStep(r) ==
  \/ Prepared(r) \/ PreparationCancelled(r) \/ JobEnds(r)
  \/ Unwind(r) \/ Unregister(r) \/ Leave(r)

MainStep ==
  \/ Signal \/ CloseTracker \/ CancelRoot \/ ServerExits
  \/ SeeShutdown \/ SeeServerExit \/ DrainEnds \/ DrainTimesOut \/ AbortRemaining

CoordNext == MainStep \/ \E r \in Requests : RequestStep(r) \/ TaskStep(r)

CoordSpec == CoordInit /\ [][CoordNext]_coordVars

\* What the code counts on: begin_shutdown runs to its end, the drain's timer
\* fires, polled futures see what they wait for.  Nothing is assumed of the
\* clients, of the preparation or of the job.
CoordFairness ==
  /\ WF_coordVars(CloseTracker) /\ WF_coordVars(CancelRoot)
  /\ WF_coordVars(SeeShutdown) /\ WF_coordVars(SeeServerExit)
  /\ WF_coordVars(DrainEnds \/ DrainTimesOut) /\ WF_coordVars(AbortRemaining)
  /\ \A r \in Requests :
       /\ WF_coordVars(SpawnAdmitted(r) \/ SpawnRejected(r))
       /\ WF_coordVars(DropReservation(r)) /\ WF_coordVars(Respond(r))
       /\ WF_coordVars(PreparationCancelled(r)) /\ WF_coordVars(Unwind(r))
       /\ WF_coordVars(Unregister(r)) /\ WF_coordVars(Leave(r))

-----------------------------------------------------------------------------
CoordTypeOK ==
  /\ accepting \in BOOLEAN /\ forced \in BOOLEAN /\ closed \in BOOLEAN /\ cancelled \in BOOLEAN
  /\ closing \in {"no", "refusing", "closed", "done"}
  /\ aborts \subseteq Requests /\ held \subseteq Requests
  /\ aborted \subseteq Requests /\ toAbort \subseteq Requests
  /\ call \in [Requests -> InFlight \cup
       {"idle", "refused", "rejected", "answered", "unavailable", "gone"}]
  /\ requestCancel \in [Requests -> BOOLEAN]
  /\ ready \in [Requests -> {"none", "response", "dropped"}]
  /\ task \in [Requests -> InTask \cup {"none", "gone"}]
  /\ server \in {"serving", "stopping", "exited"}
  /\ runner \in {"serving", "draining", "drained", "aborting", "stopped"}

\* A drain that ended in time left nothing behind, neither a task nor a request
\* that may still start one: the reservation keeps the root scope non-empty
\* between admission and spawn (try_admit, TaskAdmission::spawn).
DrainedMeansQuiet == runner = "drained" => held = {} /\ Tracked = {}

\* After the forced abort every registered task has been told to stop: a spawn
\* either registered before the handles were cloned or is refused
\* (spawn_admitted holds the lock until the handle is in).
ForcedReachesAll == runner = "stopped" => aborts \subseteq aborted

\* An admitted request loses its task only to a forced shutdown, never to a
\* shutdown that merely began after the admission.
AdmittedIsKept == \A r \in Requests : call[r] = "rejected" => forced

\* However the server stops, signal or failure, its runner comes to an end.
ShutdownEnds == (~accepting \/ server = "exited") ~> runner \in {"drained", "stopped"}

\* A preparation whose request is gone does not outlive it, even when the
\* database never answers: the guard's token ends it.
OrphanedPreparationEnds ==
  \A r \in Requests : (call[r] = "gone" /\ task[r] = "preparing") ~> task[r] = "gone"

\* The coordinator at every step: a drain in time leaves no admitted task behind, a forced one
\* reaches every task there is, and an admission is honoured or refused, never lost.
CoordInv == CoordTypeOK /\ DrainedMeansQuiet /\ ForcedReachesAll /\ AdmittedIsKept

=============================================================================
