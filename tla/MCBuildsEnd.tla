---------------------------- MODULE MCBuildsEnd ----------------------------
(* The instance of SourceProcessing that its liveness is checked on.       *)
EXTENDS SourceProcessing

VARIABLE late

MCGens == 1 .. 2
MCPositions == {0}

MCInit == ProcInit /\ late \in BOOLEAN

Arrives(w) == At(w, "idle") /\ job'[w].pc # "idle"

(* Bound: either two requests meet at the start, or one comes after the    *)
(* other, as late as LastAdmission: a short while is enough for the first. *)
Few ==
  \/ /\ ~late
     /\ now' <= LastAdmission + 1
     /\ \A w \in Workers : Arrives(w) => now = 0
  \/ /\ late
     /\ \A w \in Workers : Arrives(w) => \A v \in Workers \ {w} : At(v, "idle")

MCNext == ProcNext /\ Few /\ UNCHANGED late

(* FairProcSpec, as far as the bound lets time pass.                       *)
MCSpec ==
  /\ MCInit /\ [][MCNext]_<<procVars, late>>
  /\ TaskFairness
  /\ WF_procVars(Pass /\ Few)
=============================================================================
