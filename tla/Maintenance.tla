---------------------------- MODULE Maintenance ----------------------------
(***************************************************************************)
(* The retention loop (services/maintenance.rs): a pass at start-up and    *)
(* one per interval until shutdown; each pass runs three domains, and the  *)
(* generation domain two calls, whatever the earlier ones returned.        *)
(* The health endpoint reads the status each domain leaves.                *)
(***************************************************************************)
EXTENDS Naturals

VARIABLES
  at,        \* where run_periodically and the pass are
  recovered, \* what fail_stale_builds returned in this pass
  status,    \* PurgeTaskState: domain -> last result
  newest,    \* history: domain -> what its calls of the newest pass returned
  stopping   \* the loop's shutdown token

maintVars == <<at, recovered, status, newest, stopping>>

Domains == {"rag_logs", "ocr_cache", "generations"}
Results == {"ok", "failed"}

MaintInit ==
  /\ at = "check" /\ recovered = "ok" /\ stopping \in BOOLEAN
  /\ status = [d \in Domains |-> "registered"]
  /\ newest = [d \in Domains |-> "registered"]

Check ==
  /\ at = "check"
  /\ at' = IF stopping THEN "ended" ELSE "rag_logs"
  /\ UNCHANGED <<recovered, status, newest, stopping>>

\* record_run of a domain that is one repository call.
RecordRun(d, next, result) ==
  /\ at = d
  /\ at' = next
  /\ status' = [status EXCEPT ![d] = result]
  /\ newest' = [newest EXCEPT ![d] = result]
  /\ UNCHANGED <<recovered, stopping>>

PurgeRagLogs == \E r \in Results : RecordRun("rag_logs", "ocr_cache", r)

PurgeOcrCache == \E r \in Results : RecordRun("ocr_cache", "generations", r)

\* run_generation_maintenance: reclaim follows a recovery that failed too.
FailStaleBuilds ==
  /\ at = "generations"
  /\ recovered' \in Results
  /\ at' = "reclaim"
  /\ UNCHANGED <<status, newest, stopping>>

\* Mutant: the domain's status is that of its last call.
ReclaimAllForgetting ==
  /\ at = "reclaim"
  /\ \E r \in Results :
       /\ status' = [status EXCEPT !["generations"] = r]
       /\ newest' = [newest EXCEPT !["generations"] =
                       IF recovered = "ok" /\ r = "ok" THEN "ok" ELSE "failed"]
  /\ at' = "sleep"
  /\ UNCHANGED <<recovered, stopping>>

ReclaimAll ==
  /\ at = "reclaim"
  /\ \E r \in Results :
       LET both == IF recovered = "ok" /\ r = "ok" THEN "ok" ELSE "failed"
       IN /\ status' = [status EXCEPT !["generations"] = both]
          /\ newest' = [newest EXCEPT !["generations"] = both]
  /\ at' = "sleep"
  /\ UNCHANGED <<recovered, stopping>>

\* The biased select! of the token and the interval.
Wake ==
  /\ at = "sleep"
  /\ at' = IF stopping THEN "ended" ELSE "check"
  /\ UNCHANGED <<recovered, status, newest, stopping>>

StopMaintenance ==
  /\ ~stopping /\ stopping' = TRUE
  /\ UNCHANGED <<at, recovered, status, newest>>

LoopStep == Check \/ PurgeRagLogs \/ PurgeOcrCache \/ FailStaleBuilds \/ ReclaimAll \/ Wake

MaintNext == LoopStep \/ StopMaintenance

-----------------------------------------------------------------------------
\* The status the health endpoint shows for a domain is its newest result: a
\* failed recovery is not hidden by a reclaim that succeeded after it.
StatusIsTruthful == [][status' = newest']_maintVars

\* Stale builds and old generations keep being looked at however often the other
\* domains fail, for as long as the server runs.
RecoveryKeepsRunning == []<>(at = "reclaim" \/ stopping)

\* Retention under failing domains: the status shown is that of the domains themselves, and
\* recovery of stale builds is tried again for ever.
MaintenanceIsTruthful == StatusIsTruthful /\ RecoveryKeepsRunning

=============================================================================
