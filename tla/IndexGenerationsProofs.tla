----------------------- MODULE IndexGenerationsProofs -----------------------
(***************************************************************************)
(* The safety of the index lifecycle for any number of sources,            *)
(* generations, chunks and fingerprints.                                   *)
(***************************************************************************)
EXTENDS IndexGenerations, FiniteSetTheorems, TLAPS

(* Rows of the two tables are what the schema says they are.               *)
LEMMA NewSourceType ==
  ASSUME NEW row \in {"absent", "live", "deleted"}
  PROVE  NewSource(row) \in SourceRow
BY DEF NewSource, SourceRow, Statuses

LEMMA NewGenerationType ==
  ASSUME NEW st \in {"absent", "building", "published", "failed", "deleted"},
         NEW s \in Sources \cup {Null}, NEW fp \in Fingerprints \cup {Null},
         NEW t \in Nat
  PROVE  NewGeneration(st, s, fp, t) \in GenerationRow
BY DEF NewGeneration, GenerationRow, NoPlan

(* A subset of the positions a build may store has a size.                 *)
LEMMA ChunkCount ==
  ASSUME NEW B \in SUBSET Positions
  PROVE  /\ IsFiniteSet(B)
         /\ Cardinality(B) \in Nat
         /\ B # {} => Cardinality(B) > 0
BY PositionsAssumption, FS_Subset, FS_CardinalityType, FS_EmptySet

LEMMA DropType ==
  ASSUME TypeOK, NEW D \in SUBSET Gens, Drop(D)
  PROVE  /\ generations' \in [Gens -> GenerationRow]
         /\ chunks' \in [Gens -> SUBSET Positions]
<1>1. ASSUME NEW g \in Gens
      PROVE  NewGeneration("deleted", generations[g].source_id, Null, 0) \in GenerationRow
  <2>1. generations[g].source_id \in Sources \cup {Null}
    BY DEF TypeOK, GenerationRow
  <2> QED BY <2>1, NewGenerationType
<1> QED BY <1>1 DEF TypeOK, Drop

LEMMA RestoreStatusType ==
  ASSUME TypeOK, NEW s \in Sources, RestoreStatus(s)
  PROVE  sources' \in [Sources -> SourceRow]
BY DEF TypeOK, RestoreStatus, DerivedStatus, SourceRow, Statuses

LEMMA TypingInit == Init => TypeOK
<1> SUFFICES ASSUME Init PROVE TypeOK
  OBVIOUS
<1>1. sources \in [Sources -> SourceRow]
  BY NewSourceType DEF Init
<1>2. generations \in [Gens -> GenerationRow]
  BY NewGenerationType DEF Init
<1> QED BY <1>1, <1>2 DEF Init, TypeOK

LEMMA TypingStep ==
  ASSUME TypeOK, [Next]_vars
  PROVE  TypeOK'
<1>1. CASE Tick
  BY <1>1 DEF Tick, TypeOK
<1>2. ASSUME NEW s \in Sources, CreateSource(s) PROVE TypeOK'
  <2>1. NewSource("live") \in SourceRow
    BY NewSourceType
  <2> QED BY <1>2, <2>1 DEF CreateSource, TypeOK
<1>3. ASSUME NEW s \in Sources, NEW g \in Gens, NEW fp \in Fingerprints, Claim(s, g, fp)
      PROVE  TypeOK'
  <2>1. NewGeneration("building", s, fp, now) \in GenerationRow
    BY NewGenerationType DEF TypeOK
  <2> QED BY <1>3, <2>1 DEF Claim, TypeOK
<1>4. ASSUME NEW g \in Gens, NEW n \in 0 .. Cardinality(Positions), RecordBuildPlan(g, n)
      PROVE  TypeOK'
  <2>1. n \in Nat
    BY ChunkCount
  <2> QED BY <1>4, <2>1 DEF RecordBuildPlan, TypeOK, GenerationRow
<1>5. ASSUME NEW g \in Gens, NEW s \in Sources, NEW B \in (SUBSET Positions) \ {{}},
             StoreChunkBatch(g, s, B)
      PROVE  TypeOK'
  BY <1>5 DEF StoreChunkBatch, TypeOK
<1>6. ASSUME NEW g \in Gens, NEW s \in Sources, NEW at \in 0 .. MaxTime, Publish(g, s, at)
      PROVE  TypeOK'
  <2>1. Cardinality(chunks[g]) \in Nat
    BY ChunkCount DEF TypeOK
  <2>2. at \in Nat
    BY TimeAssumption
  <2>3. generations' \in [Gens -> GenerationRow]
    <3> DEFINE row == [generations[g] EXCEPT !.state = "published", !.published_at = at,
                                             !.stored = Cardinality(chunks[g])]
    <3>1. generations[g] \in GenerationRow
      BY DEF TypeOK
    <3>2. row \in GenerationRow
      BY <3>1, <2>1, <2>2 DEF GenerationRow
    <3>3. generations' = [generations EXCEPT ![g] = row]
      BY <1>6, <3>1 DEF Publish, TypeOK
    <3> QED BY <3>2, <3>3 DEF TypeOK
  <2>4. sources' \in [Sources -> SourceRow]
    BY <1>6, <2>1, ZenonT(40) DEF Publish, TypeOK, SourceRow, Statuses
  <2> QED BY <1>6, <2>3, <2>4 DEF Publish, TypeOK
<1>7. ASSUME NEW g \in Gens, NEW s \in Sources, MarkFailed(g, s) PROVE TypeOK'
  <2>1. generations' \in [Gens -> GenerationRow]
    BY <1>7 DEF MarkFailed, TypeOK, GenerationRow
  <2>2. sources' \in [Sources -> SourceRow]
    BY <1>7, RestoreStatusType DEF MarkFailed
  <2> QED BY <1>7, <2>1, <2>2 DEF MarkFailed, TypeOK
<1>8. ASSUME NEW g \in Gens, FailStaleBuild(g) PROVE TypeOK'
  <2>1. generations' \in [Gens -> GenerationRow]
    BY <1>8 DEF FailStaleBuild, TypeOK, GenerationRow
  <2>2. sources' \in [Sources -> SourceRow]
    BY <1>8 DEF FailStaleBuild, RestoreStatus, DerivedStatus, TypeOK, SourceRow, Statuses
  <2> QED BY <1>8, <2>1, <2>2 DEF FailStaleBuild, TypeOK
<1>9. ASSUME NEW s \in Sources, RollbackToPrevious(s) PROVE TypeOK'
  <2>1. PICK g \in PreviousPublished(s) :
          sources' = [sources EXCEPT ![s].active = g,
                                     ![s].chunk_count = generations[g].stored,
                                     ![s].status = "ready"]
    BY <1>9 DEF RollbackToPrevious
  <2>2. g \in Gens
    BY DEF PreviousPublished, Predecessors, Newest
  <2>3. generations[g].stored \in Nat
    BY <2>2 DEF TypeOK, GenerationRow
  <2>4. sources' \in [Sources -> SourceRow]
    BY <2>1, <2>2, <2>3, ZenonT(40) DEF TypeOK, SourceRow, Statuses
  <2> QED BY <1>9, <2>4 DEF RollbackToPrevious, TypeOK
<1>10. ASSUME NEW s \in Sources, Reclaim(s) PROVE TypeOK'
  <2>1. PICK at \in 0 .. now : Drop(Reclaimable(s, at))
    BY <1>10 DEF Reclaim
  <2>2. Reclaimable(s, at) \in SUBSET Gens
    BY DEF Reclaimable
  <2> QED BY <1>10, <2>1, <2>2, DropType DEF Reclaim, TypeOK
<1>11. ASSUME NEW s \in Sources, DeleteSource(s) PROVE TypeOK'
  <2>1. NewSource("deleted") \in SourceRow
    BY NewSourceType
  <2>2. sources' \in [Sources -> SourceRow]
    BY <1>11, <2>1 DEF DeleteSource, TypeOK
  <2> QED BY <1>11, <2>2, DropType DEF DeleteSource, TypeOK
<1>12. ASSUME NEW s \in Sources, NEW st \in WrittenStatuses, UpdateStatus(s, st)
       PROVE  TypeOK'
  BY <1>12 DEF UpdateStatus, TypeOK, SourceRow, WrittenStatuses, Statuses
<1>13. CASE UNCHANGED vars
  BY <1>13 DEF vars, TypeOK
<1> QED
  BY <1>1, <1>2, <1>3, <1>4, <1>5, <1>6, <1>7, <1>8, <1>9, <1>10, <1>11, <1>12, <1>13
  DEF Next

(* Type correctness of the tables under every call of the repositories.    *)
THEOREM Typing == Spec => []TypeOK
BY TypingInit, TypingStep, PTL DEF Spec

-----------------------------------------------------------------------------
(* What a step does to generations that are not the one it works on.       *)

LEMMA DropEffect ==
  ASSUME TypeOK, NEW D \in SUBSET Gens, Drop(D), NEW g \in Gens
  PROVE  /\ g \notin D => generations'[g] = generations[g] /\ chunks'[g] = chunks[g]
         /\ g \in D => generations'[g].state = "deleted"
BY DEF Drop, NewGeneration

LEMMA RestoreStatusEffect ==
  ASSUME TypeOK, NEW s \in Sources, RestoreStatus(s), NEW r \in Sources
  PROVE  /\ sources'[r].active = sources[r].active
         /\ sources'[r].chunk_count = sources[r].chunk_count
         /\ sources'[r].row = sources[r].row
BY DEF TypeOK, RestoreStatus, SourceRow

(* A source that keeps its pointer to a generation whose row and chunks    *)
(* the step leaves alone keeps a complete index.                           *)
LEMMA ActiveFrame ==
  ASSUME ActiveIndexComplete, NEW s \in Sources, NEW g,
         sources[s].active = g, g # Null, sources'[s].active = g,
         sources'[s].chunk_count = sources[s].chunk_count,
         generations'[g] = generations[g], chunks'[g] = chunks[g]
  PROVE  CompleteIndex(s, g)'
BY DEF ActiveIndexComplete, CompleteIndex, Owned, Exists

(* The active generation is a row of the table, and not a building one.    *)
LEMMA ActiveIsPublished ==
  ASSUME TypeOK, ActiveIndexComplete, NEW s \in Sources, sources[s].active # Null
  PROVE  /\ sources[s].active \in Gens
         /\ generations[sources[s].active].state = "published"
         /\ generations[sources[s].active].source_id = s
BY DEF TypeOK, SourceRow, ActiveIndexComplete, CompleteIndex, Owned

-----------------------------------------------------------------------------
(* The inductive invariant.                                                *)

LEMMA IndexInvInit == Init => IndexInv
<1> SUFFICES ASSUME Init PROVE IndexInv
  OBVIOUS
<1>1. TypeOK
  BY TypingInit
<1>2. PublishedComplete
  BY DEF Init, PublishedComplete, NewGeneration
<1>3. ActiveIndexComplete
  BY DEF Init, ActiveIndexComplete, NewSource
<1> QED BY <1>1, <1>2, <1>3 DEF IndexInv

LEMMA IndexInvStep ==
  ASSUME IndexInv, TypeOK', [Next]_vars
  PROVE  PublishedComplete' /\ ActiveIndexComplete'
<1> USE DEF IndexInv
<1>1. CASE Tick
  BY <1>1 DEF Tick, PublishedComplete, ActiveIndexComplete, CompleteIndex, Owned, Exists
<1>2. ASSUME NEW s \in Sources, CreateSource(s)
      PROVE  PublishedComplete' /\ ActiveIndexComplete'
  <2>1. PublishedComplete'
    BY <1>2 DEF CreateSource, PublishedComplete
  <2>2. ASSUME NEW r \in Sources, sources'[r].active # Null
        PROVE  CompleteIndex(r, sources[r].active)'
    <3>1. r # s
      BY <1>2, <2>2 DEF CreateSource, NewSource, TypeOK
    <3> QED BY <1>2, <2>2, <3>1
            DEF CreateSource, TypeOK, ActiveIndexComplete, CompleteIndex, Owned, Exists
  <2> QED BY <2>1, <2>2 DEF ActiveIndexComplete
<1>3. ASSUME NEW s \in Sources, NEW g \in Gens, NEW fp \in Fingerprints, Claim(s, g, fp)
      PROVE  PublishedComplete' /\ ActiveIndexComplete'
  <2>1. PublishedComplete'
    BY <1>3 DEF Claim, NewGeneration, PublishedComplete, TypeOK
  <2>2. ASSUME NEW r \in Sources, sources'[r].active # Null
        PROVE  CompleteIndex(r, sources[r].active)'
    <3>1. sources[r].active # g
      BY <1>3, <2>2, ActiveIsPublished DEF Claim
    <3> QED BY <1>3, <2>2, <3>1, ActiveIsPublished, ActiveFrame DEF Claim, TypeOK
  <2> QED BY <2>1, <2>2 DEF ActiveIndexComplete
<1>4. ASSUME NEW g \in Gens, NEW n \in 0 .. Cardinality(Positions), RecordBuildPlan(g, n)
      PROVE  PublishedComplete' /\ ActiveIndexComplete'
  <2>1. PublishedComplete'
    BY <1>4 DEF RecordBuildPlan, PublishedComplete, TypeOK, GenerationRow
  <2>2. ASSUME NEW r \in Sources, sources'[r].active # Null
        PROVE  CompleteIndex(r, sources[r].active)'
    <3>1. sources[r].active # g
      BY <1>4, <2>2, ActiveIsPublished DEF RecordBuildPlan
    <3> QED BY <1>4, <2>2, <3>1, ActiveIsPublished, ActiveFrame DEF RecordBuildPlan, TypeOK
  <2> QED BY <2>1, <2>2 DEF ActiveIndexComplete
<1>5. ASSUME NEW g \in Gens, NEW s \in Sources, NEW B \in (SUBSET Positions) \ {{}},
             StoreChunkBatch(g, s, B)
      PROVE  PublishedComplete' /\ ActiveIndexComplete'
  <2>1. PublishedComplete'
    BY <1>5 DEF StoreChunkBatch, PublishedComplete, TypeOK
  <2>2. ASSUME NEW r \in Sources, sources'[r].active # Null
        PROVE  CompleteIndex(r, sources[r].active)'
    <3>1. sources[r].active # g
      BY <1>5, <2>2, ActiveIsPublished DEF StoreChunkBatch
    <3> QED BY <1>5, <2>2, <3>1, ActiveIsPublished, ActiveFrame DEF StoreChunkBatch, TypeOK
  <2> QED BY <2>1, <2>2 DEF ActiveIndexComplete
<1>6. ASSUME NEW g \in Gens, NEW s \in Sources, NEW at \in 0 .. MaxTime, Publish(g, s, at)
      PROVE  PublishedComplete' /\ ActiveIndexComplete'
  <2>1. /\ generations'[g].state = "published"
        /\ generations'[g].expected = Cardinality(chunks[g])
        /\ generations'[g].stored = Cardinality(chunks[g])
        /\ generations'[g].source_id = s
        /\ chunks'[g] = chunks[g] /\ chunks[g] # {}
        /\ \A h \in Gens \ {g} : generations'[h] = generations[h] /\ chunks'[h] = chunks[h]
    BY <1>6 DEF Publish, Publishable, Owned, TypeOK, GenerationRow
  <2>2. PublishedComplete'
    BY <2>1 DEF PublishedComplete
  <2>3. ASSUME NEW r \in Sources, sources'[r].active # Null
        PROVE  CompleteIndex(r, sources[r].active)'
    <3>1. CASE r = s
      BY <1>6, <2>1, <3>1 DEF Publish, CompleteIndex, Owned, Exists, TypeOK, SourceRow
    <3>2. CASE r # s
      <4>1. sources'[r] = sources[r]
        BY <1>6, <3>2 DEF Publish, TypeOK
      <4>2. sources[r].active # g
        BY <1>6, <2>3, <4>1, ActiveIsPublished DEF Publish, Publishable
      <4> QED BY <2>1, <2>3, <4>1, <4>2, ActiveIsPublished, ActiveFrame
    <3> QED BY <3>1, <3>2
  <2> QED BY <2>2, <2>3 DEF ActiveIndexComplete
<1>7. ASSUME NEW g \in Gens, NEW s \in Sources, MarkFailed(g, s)
      PROVE  PublishedComplete' /\ ActiveIndexComplete'
  <2>1. \A h \in Gens : \/ generations'[h] = generations[h]
                        \/ generations[h].state = "building" /\ generations'[h].state = "failed"
    BY <1>7 DEF MarkFailed, TypeOK, GenerationRow
  <2>2. PublishedComplete'
    BY <1>7, <2>1 DEF PublishedComplete, MarkFailed
  <2>3. ASSUME NEW r \in Sources, sources'[r].active # Null
        PROVE  CompleteIndex(r, sources[r].active)'
    BY <1>7, <2>1, <2>3, ActiveIsPublished, ActiveFrame, RestoreStatusEffect DEF MarkFailed
  <2> QED BY <2>2, <2>3 DEF ActiveIndexComplete
<1>8. ASSUME NEW g \in Gens, FailStaleBuild(g)
      PROVE  PublishedComplete' /\ ActiveIndexComplete'
  <2>1. \A h \in Gens : \/ generations'[h] = generations[h]
                        \/ generations[h].state = "building" /\ generations'[h].state = "failed"
    BY <1>8 DEF FailStaleBuild, TypeOK, GenerationRow
  <2>2. PublishedComplete'
    BY <1>8, <2>1 DEF PublishedComplete, FailStaleBuild
  <2>3. ASSUME NEW r \in Sources
        PROVE  sources'[r].active = sources[r].active
               /\ sources'[r].chunk_count = sources[r].chunk_count
    BY <1>8 DEF FailStaleBuild, RestoreStatus, TypeOK, SourceRow
  <2>4. ASSUME NEW r \in Sources, sources'[r].active # Null
        PROVE  CompleteIndex(r, sources[r].active)'
    BY <1>8, <2>1, <2>3, <2>4, ActiveIsPublished, ActiveFrame DEF FailStaleBuild
  <2> QED BY <2>2, <2>4 DEF ActiveIndexComplete
<1>9. ASSUME NEW s \in Sources, RollbackToPrevious(s)
      PROVE  PublishedComplete' /\ ActiveIndexComplete'
  <2>1. PICK g \in PreviousPublished(s) :
          sources' = [sources EXCEPT ![s].active = g,
                                     ![s].chunk_count = generations[g].stored,
                                     ![s].status = "ready"]
    BY <1>9 DEF RollbackToPrevious
  <2>2. g \in Gens /\ Owned(g, s) /\ generations[g].state = "published"
    BY DEF PreviousPublished, Predecessors, Newest
  <2>3. PublishedComplete'
    BY <1>9 DEF PublishedComplete, RollbackToPrevious
  <2>4. ASSUME NEW r \in Sources, sources'[r].active # Null
        PROVE  CompleteIndex(r, sources[r].active)'
    <3>1. CASE r = s
      <4>1. sources'[r].active = g /\ sources'[r].chunk_count = generations[g].stored
        BY <2>1, <3>1 DEF TypeOK, SourceRow
      <4> QED BY <1>9, <2>2, <3>1, <4>1
              DEF RollbackToPrevious, PublishedComplete, CompleteIndex, Owned, Exists
    <3>2. CASE r # s
      <4>1. sources'[r] = sources[r]
        BY <2>1, <3>2 DEF TypeOK
      <4> QED BY <1>9, <2>4, <4>1, ActiveFrame DEF RollbackToPrevious
    <3> QED BY <3>1, <3>2
  <2> QED BY <2>3, <2>4 DEF ActiveIndexComplete
<1>10. ASSUME NEW s \in Sources, Reclaim(s)
       PROVE  PublishedComplete' /\ ActiveIndexComplete'
  <2>0. PICK at \in 0 .. now : Drop(Reclaimable(s, at))
    BY <1>10 DEF Reclaim
  <2>1. Reclaimable(s, at) \in SUBSET Gens /\ Drop(Reclaimable(s, at)) /\ sources' = sources
    BY <1>10, <2>0 DEF Reclaim, Reclaimable
  <2>2. PublishedComplete'
    BY <2>1, DropEffect DEF PublishedComplete
  <2>3. ASSUME NEW r \in Sources, sources'[r].active # Null
        PROVE  CompleteIndex(r, sources[r].active)'
    <3>1. sources[r].active \notin Reclaimable(s, at)
      BY <2>1, <2>3, ActiveIsPublished DEF Reclaimable, Owned
    <3> QED BY <2>1, <2>3, <3>1, ActiveIsPublished, ActiveFrame, DropEffect
  <2> QED BY <2>2, <2>3 DEF ActiveIndexComplete
<1>11. ASSUME NEW s \in Sources, DeleteSource(s)
       PROVE  PublishedComplete' /\ ActiveIndexComplete'
  <2> DEFINE D == {g \in Gens : Owned(g, s)}
  <2>1. D \in SUBSET Gens /\ Drop(D)
    BY <1>11 DEF DeleteSource
  <2>2. PublishedComplete'
    BY <2>1, DropEffect DEF PublishedComplete
  <2>3. ASSUME NEW r \in Sources, sources'[r].active # Null
        PROVE  CompleteIndex(r, sources[r].active)'
    <3>1. r # s
      BY <1>11, <2>3 DEF DeleteSource, NewSource, TypeOK
    <3>2. sources'[r] = sources[r]
      BY <1>11, <3>1 DEF DeleteSource, TypeOK
    <3>3. sources[r].active \in Gens \ D
      BY <2>3, <3>1, <3>2, ActiveIsPublished DEF Owned
    <3> QED BY <2>1, <2>3, <3>2, <3>3, ActiveFrame, DropEffect
  <2> QED BY <2>2, <2>3 DEF ActiveIndexComplete
<1>12. ASSUME NEW s \in Sources, NEW st \in WrittenStatuses, UpdateStatus(s, st)
       PROVE  PublishedComplete' /\ ActiveIndexComplete'
  <2>1. \A r \in Sources : /\ sources'[r].active = sources[r].active
                           /\ sources'[r].chunk_count = sources[r].chunk_count
    BY <1>12 DEF UpdateStatus, TypeOK, SourceRow
  <2> QED BY <1>12, <2>1
          DEF UpdateStatus, PublishedComplete, ActiveIndexComplete, CompleteIndex, Owned, Exists
<1>13. CASE UNCHANGED vars
  BY <1>13 DEF vars, PublishedComplete, ActiveIndexComplete, CompleteIndex, Owned, Exists
<1> QED
  BY <1>1, <1>2, <1>3, <1>4, <1>5, <1>6, <1>7, <1>8, <1>9, <1>10, <1>11, <1>12, <1>13
  DEF Next

(* The chunks counted for a published generation are the chunks it has, so *)
(* that a rollback, which copies the count, installs a whole index.        *)
THEOREM IndexStaysSound == Spec => []IndexInv
<1>1. Init => IndexInv
  BY IndexInvInit
<1>2. IndexInv /\ TypeOK' /\ [Next]_vars => IndexInv'
  BY IndexInvStep DEF IndexInv
<1> QED BY <1>1, <1>2, Typing, PTL DEF Spec

(* Search always reads one whole index of the right source, under every    *)
(* interleaving of builds, failures, rollbacks, reclaims and deletions.    *)
THEOREM ActiveIndexIsComplete == Spec => []ActiveIndexComplete
<1>1. IndexInv => ActiveIndexComplete
  BY DEF IndexInv
<1> QED BY <1>1, IndexStaysSound, PTL

-----------------------------------------------------------------------------
(* The tables between two calls.                                           *)

LEMMA TablesInit == Init => TablesAgree
<1> SUFFICES ASSUME Init PROVE TablesAgree
  OBVIOUS
<1>1. \A g \in Gens : ~Exists(g) /\ chunks[g] = {}
  BY DEF Init, NewGeneration, Exists
<1>2. ReadyMeansSearchable
  BY DEF Init, NewSource, ReadyMeansSearchable
<1> QED BY <1>1, <1>2 DEF TablesAgree, OneOwner, NoOrphans, Building, Owned

(* RESTORE_SOURCE_STATUS writes "ready" where there is an index only.      *)
LEMMA RestoreKeepsTruth ==
  ASSUME TypeOK, ReadyMeansSearchable, NEW s \in Sources, RestoreStatus(s)
  PROVE  ReadyMeansSearchable'
BY DEF TypeOK, ReadyMeansSearchable, RestoreStatus, DerivedStatus, SourceRow

(* A step that creates no owner and takes no row away keeps both of the    *)
(* other parts.                                                            *)
LEMMA OwnersFrame ==
  ASSUME OneOwner, NoOrphans,
         \A g \in Gens, s \in Sources : Owned(g, s)' => Owned(g, s),
         \A g \in Gens : /\ Exists(g) /\ ~Exists(g)' => chunks'[g] = {}
                         /\ generations'[g].state = "building" => generations[g].state = "building"
                         /\ Exists(g)' => Exists(g) /\ generations'[g].source_id = generations[g].source_id
                         /\ ~Exists(g) => chunks'[g] \subseteq chunks[g],
         \A s \in Sources : Live(s) => \/ Live(s)'
                                       \/ \A g \in Gens : ~Owned(g, s)'
  PROVE  OneOwner' /\ NoOrphans'
<1>1. OneOwner'
  BY DEF OneOwner, Building
<1>2. ASSUME NEW g \in Gens, Exists(g)'
      PROVE  \E s \in Sources : Owned(g, s)' /\ Live(s)'
  <2>1. PICK s \in Sources : Owned(g, s) /\ Live(s)
    BY <1>2 DEF NoOrphans
  <2>2. Owned(g, s)'
    BY <1>2, <2>1 DEF Owned
  <2> QED BY <2>1, <2>2
<1>3. ASSUME NEW g \in Gens, chunks'[g] # {}
      PROVE  Exists(g)'
  BY <1>3 DEF NoOrphans
<1> QED BY <1>1, <1>2, <1>3 DEF NoOrphans

LEMMA TablesStep ==
  ASSUME TypeOK, TablesAgree, [Next]_vars
  PROVE  TablesAgree'
<1> USE DEF TablesAgree
<1>1. CASE Tick
  <2>1. OneOwner' /\ NoOrphans'
    BY <1>1 DEF Tick, OneOwner, NoOrphans, Building, Owned, Exists, Live
  <2> QED BY <1>1, <2>1 DEF Tick, ReadyMeansSearchable
<1>2. ASSUME NEW s \in Sources, CreateSource(s) PROVE TablesAgree'
  <2>1. ReadyMeansSearchable'
    BY <1>2 DEF CreateSource, NewSource, TypeOK, ReadyMeansSearchable
  <2>2. \A r \in Sources : Live(r) => Live(r)'
    BY <1>2 DEF CreateSource, NewSource, TypeOK, Live
  <2>3. OneOwner' /\ NoOrphans'
    BY <1>2, <2>2, OwnersFrame DEF CreateSource, Owned, Exists
  <2> QED BY <2>1, <2>3
<1>3. ASSUME NEW s \in Sources, NEW g \in Gens, NEW fp \in Fingerprints, Claim(s, g, fp)
      PROVE  TablesAgree'
  <2>1. /\ generations'[g].state = "building" /\ generations'[g].source_id = s
        /\ generations[g].state = "absent"
        /\ \A h \in Gens \ {g} : generations'[h] = generations[h]
    BY <1>3 DEF Claim, NewGeneration, TypeOK
  <2>2. \A r \in Sources : Building(r)' = IF r = s THEN {g} ELSE Building(r)
    BY <1>3, <2>1 DEF Claim, Building, Owned, Exists
  <2>3. OneOwner'
    BY <2>2 DEF OneOwner
  <2>4. NoOrphans'
    <3>1. Live(s)' /\ \A r \in Sources : Live(r) => Live(r)'
      BY <1>3 DEF Claim, Live
    <3> QED BY <1>3, <2>1, <3>1 DEF Claim, NoOrphans, Owned, Exists
  <2> QED BY <1>3, <2>3, <2>4 DEF Claim, ReadyMeansSearchable
<1>4. ASSUME NEW g \in Gens, NEW n \in 0 .. Cardinality(Positions), RecordBuildPlan(g, n)
      PROVE  TablesAgree'
  <2>1. \A h \in Gens : /\ generations'[h].state = generations[h].state
                        /\ generations'[h].source_id = generations[h].source_id
    BY <1>4 DEF RecordBuildPlan, TypeOK, GenerationRow
  <2>2. OneOwner' /\ NoOrphans'
    BY <1>4, <2>1, OwnersFrame DEF RecordBuildPlan, Owned, Exists, Live
  <2> QED BY <1>4, <2>2 DEF RecordBuildPlan, ReadyMeansSearchable
<1>5. ASSUME NEW g \in Gens, NEW s \in Sources, NEW B \in (SUBSET Positions) \ {{}},
             StoreChunkBatch(g, s, B)
      PROVE  TablesAgree'
  <2>1. Exists(g) /\ \A h \in Gens \ {g} : chunks'[h] = chunks[h]
    BY <1>5 DEF StoreChunkBatch, Owned, TypeOK
  <2>2. OneOwner' /\ NoOrphans'
    BY <1>5, <2>1, OwnersFrame DEF StoreChunkBatch, Owned, Exists, Live
  <2> QED BY <1>5, <2>2 DEF StoreChunkBatch, ReadyMeansSearchable
<1>6. ASSUME NEW g \in Gens, NEW s \in Sources, NEW at \in 0 .. MaxTime, Publish(g, s, at)
      PROVE  TablesAgree'
  <2>1. /\ generations[g].state = "building" /\ generations'[g].state = "published"
        /\ generations'[g].source_id = generations[g].source_id
        /\ \A h \in Gens \ {g} : generations'[h] = generations[h]
    BY <1>6 DEF Publish, Publishable, TypeOK, GenerationRow
  <2>2. /\ \A r \in Sources : sources'[r].row = sources[r].row
        /\ sources'[s].active = g
        /\ \A r \in Sources \ {s} : sources'[r] = sources[r]
    BY <1>6 DEF Publish, TypeOK, SourceRow
  <2>3. OneOwner' /\ NoOrphans'
    BY <1>6, <2>1, <2>2, OwnersFrame DEF Publish, Owned, Exists, Live
  <2>4. ReadyMeansSearchable'
    BY <2>2, NullAssumption DEF ReadyMeansSearchable
  <2> QED BY <2>3, <2>4
<1>7. ASSUME NEW g \in Gens, NEW s \in Sources, MarkFailed(g, s) PROVE TablesAgree'
  <2>1. \A h \in Gens : \/ generations'[h] = generations[h]
                        \/ /\ generations[h].state = "building" /\ generations'[h].state = "failed"
                           /\ generations'[h].source_id = generations[h].source_id
    BY <1>7 DEF MarkFailed, TypeOK, GenerationRow
  <2>2. \A r \in Sources : sources'[r].row = sources[r].row
    BY <1>7, RestoreStatusEffect DEF MarkFailed
  <2>3. OneOwner' /\ NoOrphans'
    BY <1>7, <2>1, <2>2, OwnersFrame DEF MarkFailed, Owned, Exists, Live
  <2> QED BY <1>7, <2>3, RestoreKeepsTruth DEF MarkFailed
<1>8. ASSUME NEW g \in Gens, FailStaleBuild(g) PROVE TablesAgree'
  <2> DEFINE s == generations[g].source_id
  <2>1. s \in Sources
    BY <1>8 DEF FailStaleBuild, NoOrphans, Owned, Exists
  <2>2. \A h \in Gens : \/ generations'[h] = generations[h]
                        \/ /\ generations[h].state = "building" /\ generations'[h].state = "failed"
                           /\ generations'[h].source_id = generations[h].source_id
    BY <1>8 DEF FailStaleBuild, TypeOK, GenerationRow
  <2>3. \A r \in Sources : sources'[r].row = sources[r].row
    BY <1>8, <2>1, RestoreStatusEffect DEF FailStaleBuild
  <2>4. OneOwner' /\ NoOrphans'
    BY <1>8, <2>2, <2>3, OwnersFrame DEF FailStaleBuild, Owned, Exists, Live
  <2> QED BY <1>8, <2>1, <2>4, RestoreKeepsTruth DEF FailStaleBuild
<1>9. ASSUME NEW s \in Sources, RollbackToPrevious(s) PROVE TablesAgree'
  <2>1. PICK g \in PreviousPublished(s) :
          sources' = [sources EXCEPT ![s].active = g,
                                     ![s].chunk_count = generations[g].stored,
                                     ![s].status = "ready"]
    BY <1>9 DEF RollbackToPrevious
  <2>2. g \in Gens
    BY DEF PreviousPublished, Predecessors, Newest
  <2>3. ReadyMeansSearchable'
    BY <2>1, <2>2, NullAssumption DEF TypeOK, SourceRow, ReadyMeansSearchable
  <2>4. \A r \in Sources : sources'[r].row = sources[r].row
    BY <2>1 DEF TypeOK, SourceRow
  <2>5. OneOwner' /\ NoOrphans'
    BY <1>9, <2>4, OwnersFrame DEF RollbackToPrevious, Owned, Exists, Live
  <2> QED BY <2>3, <2>5
<1>10. ASSUME NEW s \in Sources, Reclaim(s) PROVE TablesAgree'
  <2>0. PICK at \in 0 .. now : Drop(Reclaimable(s, at))
    BY <1>10 DEF Reclaim
  <2>1. Reclaimable(s, at) \in SUBSET Gens /\ Drop(Reclaimable(s, at)) /\ sources' = sources
    BY <1>10, <2>0 DEF Reclaim, Reclaimable
  <2>2. \A g \in Gens : \/ generations'[g] = generations[g] /\ chunks'[g] = chunks[g]
                        \/ generations'[g].state = "deleted" /\ chunks'[g] = {}
    BY <2>1 DEF Drop, NewGeneration
  <2>3. OneOwner' /\ NoOrphans'
    BY <2>1, <2>2, OwnersFrame DEF Owned, Exists, Live
  <2> QED BY <2>1, <2>3 DEF ReadyMeansSearchable
<1>11. ASSUME NEW s \in Sources, DeleteSource(s) PROVE TablesAgree'
  <2>1. \A g \in Gens : /\ Owned(g, s) => generations'[g].state = "deleted" /\ chunks'[g] = {}
                        /\ ~Owned(g, s) => generations'[g] = generations[g] /\ chunks'[g] = chunks[g]
    BY <1>11 DEF DeleteSource, Drop, NewGeneration
  <2>2. /\ \A r \in Sources \ {s} : sources'[r] = sources[r]
        /\ sources'[s].status = "busy"
    BY <1>11 DEF DeleteSource, NewSource, TypeOK
  <2>3. OneOwner' /\ NoOrphans'
    BY <2>1, <2>2, OwnersFrame DEF Owned, Exists, Live
  <2>4. ReadyMeansSearchable'
    BY <2>2 DEF ReadyMeansSearchable
  <2> QED BY <2>3, <2>4
<1>12. ASSUME NEW s \in Sources, NEW st \in WrittenStatuses, UpdateStatus(s, st)
       PROVE  TablesAgree'
  <2>1. \A r \in Sources : sources'[r].row = sources[r].row
    BY <1>12 DEF UpdateStatus, TypeOK, SourceRow
  <2>2. OneOwner' /\ NoOrphans'
    BY <1>12, <2>1, OwnersFrame DEF UpdateStatus, Owned, Exists, Live
  <2>3. ReadyMeansSearchable'
    BY <1>12 DEF UpdateStatus, TypeOK, SourceRow, WrittenStatuses, ReadyMeansSearchable
  <2> QED BY <2>2, <2>3
<1>13. CASE UNCHANGED vars
  <2>1. OneOwner' /\ NoOrphans'
    BY <1>13 DEF vars, OneOwner, NoOrphans, Building, Owned, Exists, Live
  <2> QED BY <1>13, <2>1 DEF vars, ReadyMeansSearchable
<1> QED
  BY <1>1, <1>2, <1>3, <1>4, <1>5, <1>6, <1>7, <1>8, <1>9, <1>10, <1>11, <1>12, <1>13
  DEF Next

(* A source called ready has an index, a source has one owner, and nothing *)
(* outlives its row, whatever calls interleave.                            *)
THEOREM TablesKeepAgreeing == Spec => []TablesAgree
BY TablesInit, TablesStep, Typing, PTL DEF Spec

-----------------------------------------------------------------------------
(* What one call does to one generation, and to one pointer.               *)

(* The life of a generation: claimed, at work, decided, deleted.           *)
LEMMA GenerationMoves ==
  ASSUME TypeOK, [Next]_vars, NEW g \in Gens
  PROVE  \/ generations'[g] = generations[g] /\ chunks'[g] = chunks[g]
         \/ generations[g].state \in {"absent", "building"}
         \/ generations'[g].state = "deleted"
<1>1. ASSUME NEW D \in SUBSET Gens, Drop(D)
      PROVE  \/ generations'[g] = generations[g] /\ chunks'[g] = chunks[g]
             \/ generations'[g].state = "deleted"
  BY <1>1, DropEffect
<1>2. CASE Tick \/ UNCHANGED vars
  BY <1>2 DEF Tick, vars
<1>3. CASE \E s \in Sources : CreateSource(s) \/ RollbackToPrevious(s)
  BY <1>3 DEF CreateSource, RollbackToPrevious
<1>4. CASE \E s \in Sources, h \in Gens, fp \in Fingerprints : Claim(s, h, fp)
  BY <1>4 DEF Claim, TypeOK
<1>5. CASE \E h \in Gens, n \in 0 .. Cardinality(Positions) : RecordBuildPlan(h, n)
  BY <1>5 DEF RecordBuildPlan, TypeOK
<1>6. CASE \E h \in Gens, s \in Sources, B \in (SUBSET Positions) \ {{}} : StoreChunkBatch(h, s, B)
  BY <1>6 DEF StoreChunkBatch, TypeOK
<1>7. CASE \E h \in Gens, s \in Sources, at \in 0 .. MaxTime : Publish(h, s, at)
  BY <1>7 DEF Publish, Publishable, TypeOK
<1>8. CASE \E h \in Gens, s \in Sources : MarkFailed(h, s)
  BY <1>8 DEF MarkFailed, TypeOK
<1>9. CASE \E h \in Gens : FailStaleBuild(h)
  BY <1>9 DEF FailStaleBuild, TypeOK
<1>10. CASE \E s \in Sources : Reclaim(s)
  BY <1>1, <1>10 DEF Reclaim, Reclaimable
<1>11. CASE \E s \in Sources : DeleteSource(s)
  BY <1>1, <1>11 DEF DeleteSource
<1>12. CASE \E s \in Sources, st \in WrittenStatuses : UpdateStatus(s, st)
  BY <1>12 DEF UpdateStatus
<1> QED
  BY <1>2, <1>3, <1>4, <1>5, <1>6, <1>7, <1>8, <1>9, <1>10, <1>11, <1>12 DEF Next

(* A pointer moves when its build is published, on a rollback, or with its *)
(* source.                                                                 *)
LEMMA PointerMoves ==
  ASSUME IndexInv, TablesAgree, [Next]_vars, NEW s \in Sources
  PROVE  \/ sources'[s].active = sources[s].active
         \/ sources'[s].row = "deleted"
         \/ \E g \in Gens : /\ sources'[s].active = g
                            /\ generations[g].state = "building"
                            /\ generations'[g].state = "published"
         \/ sources'[s].active \in Predecessors(s)
<1> USE DEF IndexInv
<1>1. CASE Tick \/ UNCHANGED vars
  BY <1>1 DEF Tick, vars
<1>2. CASE \E r \in Sources : CreateSource(r)
  <2>1. PICK r \in Sources : CreateSource(r)
    BY <1>2
  <2>2. ~Live(r)
    BY <2>1 DEF CreateSource, Live
  <2>3. sources[r].active = Null
    BY <2>2, ActiveIsPublished DEF ActiveIndexComplete, CompleteIndex, TablesAgree, NoOrphans, Owned
  <2> QED BY <2>1, <2>3 DEF CreateSource, NewSource, TypeOK
<1>3. CASE \E r \in Sources : RollbackToPrevious(r)
  BY <1>3 DEF RollbackToPrevious, PreviousPublished, Newest, TypeOK, SourceRow
<1>4. CASE \E g \in Gens, r \in Sources, at \in 0 .. MaxTime : Publish(g, r, at)
  BY <1>4 DEF Publish, Publishable, TypeOK, SourceRow, GenerationRow
<1>5. CASE \E g \in Gens, r \in Sources : MarkFailed(g, r)
  BY <1>5, RestoreStatusEffect DEF MarkFailed
<1>6. CASE \E g \in Gens : FailStaleBuild(g)
  BY <1>6 DEF FailStaleBuild, RestoreStatus, TypeOK, SourceRow
<1>7. CASE \E r \in Sources : DeleteSource(r)
  BY <1>7 DEF DeleteSource, NewSource, TypeOK
<1>8. CASE \E r \in Sources, st \in WrittenStatuses : UpdateStatus(r, st)
  BY <1>8 DEF UpdateStatus, TypeOK, SourceRow
<1> QED
  BY <1>1, <1>2, <1>3, <1>4, <1>5, <1>6, <1>7, <1>8
  DEF Next, Claim, RecordBuildPlan, StoreChunkBatch, Reclaim

(* Once published or failed, a generation never changes again.             *)
LEMMA OutcomeStep ==
  ASSUME TypeOK, [Next]_vars, NEW g \in Gens,
         generations[g].state \in {"published", "failed"}, Exists(g)'
  PROVE  generations'[g] = generations[g] /\ chunks'[g] = chunks[g]
BY GenerationMoves DEF Exists

(* Search moves to a whole index, in the space it leaves.                  *)
LEMMA PointerStep ==
  ASSUME IndexInv, TablesAgree, [Next]_vars, NEW s \in Sources,
         sources[s].active # sources'[s].active, Live(s)'
  PROVE  \E g \in Gens :
            /\ sources'[s].active = g
            /\ \/ /\ generations[g].state = "building"
                  /\ generations'[g].state = "published"
               \/ /\ generations[g].state = "published"
                  /\ sources[s].active # Null
                  /\ generations[g].fingerprint = generations[sources[s].active].fingerprint
<1>1. ASSUME sources'[s].active \in Predecessors(s)
      PROVE  \E g \in Gens : /\ sources'[s].active = g
                             /\ generations[g].state = "published"
                             /\ sources[s].active # Null
                             /\ generations[g].fingerprint = generations[sources[s].active].fingerprint
  BY <1>1 DEF Predecessors
<1> QED BY <1>1, PointerMoves DEF Live

(* The index search reads, and the one a rollback returns to, stay.        *)
LEMMA TargetStep ==
  ASSUME IndexInv, TablesAgree, [Next]_vars, NEW s \in Sources, Live(s)',
         NEW g \in Gens, g \in PreviousPublished(s) \cup {sources[s].active}
  PROVE  generations'[g].state = "published"
<1> USE DEF IndexInv
<1>1. Owned(g, s) /\ generations[g].state = "published"
  BY ActiveIsPublished, NullAssumption DEF PreviousPublished, Newest, Predecessors, Owned, Exists
<1>2. CASE generations'[g] = generations[g]
  BY <1>1, <1>2
<1>3. ASSUME NEW r \in Sources, Reclaim(r)
      PROVE  generations'[g] = generations[g]
  <2>1. PICK at \in 0 .. now : Drop(Reclaimable(r, at))
    BY <1>3 DEF Reclaim
  <2>2. g \notin Reclaimable(r, at) /\ Reclaimable(r, at) \in SUBSET Gens
    BY <1>1 DEF Reclaimable, Owned
  <2> QED BY <2>1, <2>2, DropEffect
<1>4. ASSUME NEW r \in Sources, DeleteSource(r)
      PROVE  generations'[g] = generations[g]
  <2>1. r # s
    BY <1>4 DEF DeleteSource, NewSource, Live, TypeOK
  <2>2. ~Owned(g, r)
    BY <1>1, <2>1 DEF Owned
  <2> QED BY <1>4, <2>2, DropEffect DEF DeleteSource
<1>5. CASE ~ \E r \in Sources : Reclaim(r) \/ DeleteSource(r)
  BY <1>1, <1>5, ZenonT(40)
  DEF Next, vars, Tick, CreateSource, RollbackToPrevious, Claim, RecordBuildPlan, StoreChunkBatch,
      Publish, Publishable, MarkFailed, FailStaleBuild, UpdateStatus, TypeOK
<1> QED BY <1>2, <1>3, <1>4, <1>5

(* What became of a build, search's move and the way back, in every step.  *)
THEOREM HistoryStaysKept == Spec => HistoryIsKept
<1>1. IndexInv /\ TablesAgree /\ [Next]_vars => [KeepsOutcomes /\ MovesWhole /\ KeepsTargets]_vars
  <2> SUFFICES ASSUME IndexInv, TablesAgree, [Next]_vars
               PROVE  KeepsOutcomes /\ MovesWhole /\ KeepsTargets
    OBVIOUS
  <2>1. KeepsOutcomes
    BY OutcomeStep DEF KeepsOutcomes, IndexInv
  <2>2. MovesWhole
    BY PointerStep DEF MovesWhole
  <2>3. KeepsTargets
    BY TargetStep DEF KeepsTargets
  <2> QED BY <2>1, <2>2, <2>3
<1> QED
  BY <1>1, IndexStaysSound, TablesKeepAgreeing, PTL
  DEF Spec, HistoryIsKept, OutcomeIsFinal, PointerMovesWhole, RollbackTargetKept
=============================================================================
