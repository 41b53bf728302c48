------------------------ MODULE MCIndexTransactions -------------------------
(* Small instances of IndexTransactions for TLC.                           *)
EXTENDS IndexTransactions, TLC

MCGens == 1 .. 3
MCTwoGens == 1 .. 2
MCPositions == {0}

Symmetry == Permutations(Sessions)

EveryOp == AllOps
FailureOps == {"fail", "stale", "status"}
PointerOps == {"idle", "batch", "publish", "rollback", "reclaim"}

(* Bound: every call over two generations, of which the first is claimed   *)
(* before time passes and the second is given chunks, or the calls that    *)
(* move the pointer over three.                                            *)
Within ==
  \/ /\ generations[3].state = "absent" /\ generations[2].expected # 0
     /\ now = 0 \/ (generations[1].state # "absent" /\ generations[1].created_at = 0)
  \/ /\ \A c \in Sessions : txn[c].op \in PointerOps
     /\ \A g \in Gens : /\ generations[g].state # "failed"
                        /\ generations[g].expected # 0
     /\ \A s \in Sources : sources[s].row # "deleted" /\ sources[s].status # "error"
=============================================================================
