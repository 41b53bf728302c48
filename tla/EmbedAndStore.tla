---------------------------- MODULE EmbedAndStore ----------------------------
(* What embed_and_store promises process_source: batches are stored one by   *)
(* one while it runs, and it succeeds only when all of them are stored,      *)
(* unless the server is shutting down.  SourceProcessing's StoreBatch,       *)
(* FinishStoring and BuildFails are these steps for one build.               *)
CONSTANT Batches

VARIABLES stored, outcome, shutdown

abstractVars == <<stored, outcome, shutdown>>

Init ==
  /\ stored = {}
  /\ outcome = "running"
  /\ shutdown = FALSE

StoreOne ==
  /\ outcome = "running"
  /\ \E b \in Batches \ stored : stored' = stored \cup {b}
  /\ UNCHANGED <<outcome, shutdown>>

Succeed ==
  /\ outcome = "running"
  /\ stored = Batches \/ shutdown
  /\ outcome' = "ok"
  /\ UNCHANGED <<stored, shutdown>>

(* A dropped commit may still have reached the database.                    *)
Fail ==
  /\ outcome = "running"
  /\ outcome' = "error"
  /\ stored' = stored \/ \E b \in Batches \ stored : stored' = stored \cup {b}
  /\ UNCHANGED shutdown

Shutdown ==
  /\ shutdown' = TRUE
  /\ UNCHANGED <<stored, outcome>>

Next == StoreOne \/ Succeed \/ Fail \/ Shutdown

Spec == Init /\ [][Next]_abstractVars
=============================================================================
