--------------------------- MODULE MCServerTasks ---------------------------
(* ShutdownCoordinator, IngestionTasks, EmbedPipeline and Maintenance share *)
(* no variable: each behaviour exercises one of them, chosen by focus.      *)
EXTENDS ShutdownCoordinator, IngestionTasks, EmbedPipeline, Maintenance

VARIABLE focus

mcVars == <<coordVars, ingestVars, pipeVars, maintVars, focus>>

MCInit ==
  /\ CoordInit /\ IngestInit /\ PipeInit /\ MaintInit
  /\ focus \in {"coordinator", "ingestion", "pipeline", "maintenance"}
  /\ focus # "maintenance" => stopping

MCNext ==
  /\ UNCHANGED focus
  /\ \/ focus = "coordinator" /\ CoordNext /\ UNCHANGED <<ingestVars, pipeVars, maintVars>>
     \/ focus = "ingestion" /\ IngestNext /\ UNCHANGED <<coordVars, pipeVars, maintVars>>
     \/ focus = "pipeline" /\ PipeNext /\ UNCHANGED <<coordVars, ingestVars, maintVars>>
     \/ focus = "maintenance" /\ MaintNext /\ UNCHANGED <<coordVars, ingestVars, pipeVars>>

MCSpec ==
  /\ MCInit /\ [][MCNext]_mcVars
  /\ (focus = "coordinator") => CoordFairness
  /\ (focus = "ingestion") => IngestFairness
  /\ (focus = "pipeline") => PipeFairness
  /\ (focus = "maintenance") => WF_maintVars(LoopStep)

(* Everything the server waits for when it stops comes to an end: the       *)
(* drain, a preparation whose client left, a run's async units and the      *)
(* two sides of a cancelled embedding stage.                                *)
TasksEnd == ShutdownEnds /\ OrphanedPreparationEnds /\ NoAsyncOutlivesDrain /\ CancelEndsBoth
=============================================================================
