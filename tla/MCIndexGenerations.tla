------------------------- MODULE MCIndexGenerations -------------------------
(* Small instances for TLC.  By focus: the tables of IndexGenerations under *)
(* any sequence of calls, for one source with a long history of generations *)
(* or two sources that share the tables; the vectors and searches of        *)
(* VectorStore on top of them; or the account's other rows, OwnedRows.      *)
EXTENDS VectorStore, OwnedRows, TLC

CONSTANT Focuses
VARIABLE focus

mcVars == <<vars, vecVars, rowVars, focus>>

MCGens == 1 .. 3
MCPositions == {0, 1, 2}

MCInit ==
  /\ VecInit /\ OwnedInit /\ focus \in Focuses
  /\ focus # "rows" => exists = {} /\ ~demo

MCNext ==
  /\ UNCHANGED focus
  /\ \/ focus = "tables" /\ Next /\ UNCHANGED <<vecVars, rowVars>>
     \/ focus = "vectors" /\ VecNext /\ UNCHANGED rowVars
     \/ focus = "rows" /\ OwnedNext /\ UNCHANGED <<vars, vecVars>>

MCSpec == MCInit /\ [][MCNext]_mcVars

Symmetry ==
  Permutations(Sources) \cup Permutations(Fingerprints) \cup Permutations(Texts)

Present == {g \in Gens : generations[g].state # "absent"}

OneSource == \E s \in Sources : \A t \in Sources \ {s} : sources[t].row = "absent"

(* Bound on the tables: the second source comes with two generations of one *)
(* space; the third generation and the second space with one source and one *)
(* chunk.                                                                   *)
TablesWithin ==
  /\ \A g \in Gens : chunks[g] \subseteq {0, 1} /\ generations[g].expected <= 2
  /\ \/ /\ 3 \notin Present
        /\ now <= 1
        /\ \A g, h \in Gens :
             generations[g].fingerprint # Null /\ generations[h].fingerprint # Null
               => generations[g].fingerprint = generations[h].fingerprint
     \/ /\ OneSource
        /\ \A g \in Gens : chunks[g] \subseteq {0} /\ generations[g].expected <= 1

(* Bound on the vectors: one build at a time; two generations of up to      *)
(* three chunks, or a history of three generations of one chunk.            *)
VectorsWithin ==
  /\ Cardinality({g \in Gens : build[g].step # "none"}) <= 1
  /\ \/ 3 \notin Present /\ OneSource
     \/ \A g \in Gens : generations[g].expected <= 1

Within ==
  /\ focus = "tables" => TablesWithin
  /\ focus = "vectors" => VectorsWithin
=============================================================================
