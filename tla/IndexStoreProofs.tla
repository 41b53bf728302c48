---------------------- MODULE IndexStoreProofs --------------------------
(***************************************************************************)
(* The transactions of the repositories implement their atomic calls: for  *)
(* any number of sessions, sources and generations, every transaction of   *)
(* IndexTransactions takes effect as one step of IndexGenerations, or as   *)
(* none.  The argument is the one the row locks are there for: what a      *)
(* transaction has read stays as it read it, because every other           *)
(* transaction that would change it waits for a lock this one holds.       *)
(* And the vectors under the generations, for any texts, vector spaces and *)
(* batch size: a stored vector is the embedding of its own row, and a      *)
(* search reads whole indexes of one space.                                *)
(***************************************************************************)
EXTENDS IndexTransactions, VectorStore, IndexGenerationsProofs, PlacesProofs

TxnRow ==
  [op: AllOps \cup {"idle"},
   pc: {"idle", "lock", "insert", "validate", "point", "mark", "restore",
        "restoring", "skipped", "select", "delete", "chunks", "source",
        "cascade", "held", "commit"},
   s: Sources \cup {Null}, g: Gens \cup {Null}, n: Nat, at: Nat,
   B: SUBSET Positions, todo: SUBSET Gens, hit: BOOLEAN,
   held: SUBSET (Rows \X LockModes)]

(* The locks a transaction holds between two of its statements.            *)
LocksOf(t) ==
  CASE t.op = "batch" /\ t.pc = "insert" -> {<<t.g, "share">>}
    [] t.op = "batch" /\ t.pc = "commit" -> {<<t.g, "share">>, <<t.s, "key share">>}
    [] t.op = "publish" /\ t.pc \in {"validate", "point"} -> {<<t.g, "update">>}
    [] t.op = "publish" /\ t.pc = "commit" -> {<<t.g, "update">>, <<t.s, "no key update">>}
    [] t.op \in {"fail", "stale"} /\ t.pc \in {"restore", "restoring", "skipped", "commit"}
         -> {<<x, "no key update">> : x \in {y \in {t.g} : t.hit} \cup {y \in {t.s} : t.pc = "commit"}}
    [] t.op = "rollback" /\ t.pc \in {"select", "point"} -> {<<t.s, "update">>}
    [] t.op = "rollback" /\ t.pc = "commit" -> {<<t.s, "update">>, <<t.g, "key share">>}
    [] t.op = "reclaim" /\ t.pc \in {"select", "delete"} -> {<<t.s, "update">>}
    [] t.op = "delete" /\ t.pc = "cascade" -> {<<t.s, "update">>}
    [] t.op \in {"reclaim", "delete"} /\ t.pc = "commit"
         -> {<<x, "update">> : x \in {t.s} \cup t.todo}
    [] t.op = "lease" /\ t.pc = "held" -> {<<t.s, "share">>}
    [] OTHER -> {}

LocksExclude ==
  \A c, d \in Sessions : c # d =>
    \A l \in txn[c].held, m \in txn[d].held : l[1] = m[1] => m[2] \notin Conflicts(l[2])

(* What a transaction has seen and relies on until it ends.                *)
BatchOK(t) ==
  t.op = "batch" =>
    /\ t.s \in Sources /\ t.g \in Gens /\ t.B # {}
    /\ t.pc \in {"lock", "insert", "commit"}
    /\ t.pc # "lock" => t.g \in Building(t.s)

PublishOK(t) ==
  t.op = "publish" =>
    /\ t.s \in Sources /\ t.g \in Gens
    /\ t.pc \in {"lock", "validate", "point", "commit"}
    /\ generations[t.g].source_id = t.s
    /\ generations[t.g].created_at <= t.at
    /\ t.pc # "lock" => t.g \in Building(t.s)
    /\ t.pc \in {"point", "commit"} => Publishable(t.g, t.s) /\ t.n = Cardinality(chunks[t.g])

FailOK(t) ==
  t.op \in {"fail", "stale"} =>
    /\ t.s \in Sources /\ t.g \in Gens
    /\ t.pc \in {"mark", "restore", "restoring", "skipped", "commit"}
    /\ generations[t.g].source_id = t.s
    /\ t.pc # "mark" => (generations[t.g].state = "building" <=> t.hit)
    /\ t.hit => t.pc # "skipped"
    /\ t.op = "stale" => OlderThan(t.g, StaleAfter) /\ (t.pc # "mark" => t.hit)

RollbackOK(t) ==
  t.op = "rollback" =>
    /\ t.s \in Sources
    /\ t.pc \in {"lock", "select", "point", "commit"}
    /\ t.pc # "lock" => Live(t.s)
    /\ t.pc \in {"point", "commit"} => t.g \in PreviousPublished(t.s) /\ t.n = generations[t.g].stored

ReclaimOK(t) ==
  t.op = "reclaim" =>
    /\ t.s \in Sources
    /\ t.pc \in {"lock", "select", "delete", "commit"}
    /\ t.pc \in {"delete", "commit"} => t.todo = Reclaimable(t.s, t.at) /\ t.todo # {}

DeleteOK(t) ==
  t.op = "delete" =>
    /\ t.s \in Sources
    /\ t.pc \in {"chunks", "source", "cascade", "commit"}
    /\ t.pc \in {"cascade", "commit"} => Live(t.s) /\ t.todo = {g \in Gens : Owned(g, t.s)}

LeaseOK(t) ==
  t.op = "lease" =>
    /\ t.s \in Sources /\ t.g \in Gens
    /\ t.pc \in {"lock", "held"}
    /\ t.pc = "held" => Live(t.s) /\ sources[t.s].active = t.g

SessionOK(t) ==
  /\ t.held = LocksOf(t) /\ t.at <= now
  /\ BatchOK(t) /\ PublishOK(t) /\ FailOK(t) /\ RollbackOK(t)
  /\ ReclaimOK(t) /\ DeleteOK(t) /\ LeaseOK(t)

AbsentIsBlank == \A g \in Gens : generations[g].state = "absent" => generations[g].source_id = Null

ClaimedInThePast == \A g \in Gens : generations[g].created_at <= now

TablesOK == IndexInv /\ TablesAgree /\ AbsentIsBlank /\ ClaimedInThePast /\ now <= MaxTime

TxnIInv == TablesOK /\ TxnTypeOK /\ LocksExclude /\ \A c \in Sessions : SessionOK(txn[c])

-----------------------------------------------------------------------------
(* The tables.                                                             *)

LEMMA BlankStep ==
  ASSUME TypeOK, AbsentIsBlank, now <= MaxTime, [Next]_vars
  PROVE  AbsentIsBlank' /\ now' <= MaxTime
<1>1. now' <= MaxTime
  <2>1. now' = now \/ Tick
    BY DEF Next, vars, CreateSource, Claim, RecordBuildPlan, StoreChunkBatch, Publish, MarkFailed,
           FailStaleBuild, RollbackToPrevious, Reclaim, DeleteSource, UpdateStatus
  <2> QED BY <2>1, TimeAssumption DEF Tick, TypeOK
<1>2. ASSUME NEW g \in Gens, generations'[g].state = "absent"
      PROVE  generations'[g].source_id = Null
  <2>1. ASSUME NEW D, Drop(D) PROVE generations'[g] = generations[g]
    BY <1>2, <2>1 DEF Drop, NewGeneration
  <2>2. CASE \E s \in Sources : Reclaim(s) \/ DeleteSource(s)
    BY <1>2, <2>1, <2>2 DEF Reclaim, DeleteSource, AbsentIsBlank
  <2>3. CASE \E s \in Sources, h \in Gens, fp \in Fingerprints : Claim(s, h, fp)
    BY <1>2, <2>3 DEF Claim, NewGeneration, AbsentIsBlank, TypeOK
  <2>4. CASE \E h \in Gens, n \in 0 .. Cardinality(Positions) : RecordBuildPlan(h, n)
    BY <1>2, <2>4 DEF RecordBuildPlan, AbsentIsBlank, TypeOK, GenerationRow
  <2>5. CASE \E h \in Gens, s \in Sources, at \in 0 .. MaxTime : Publish(h, s, at)
    BY <1>2, <2>5 DEF Publish, AbsentIsBlank, TypeOK, GenerationRow
  <2>6. CASE \E h \in Gens, s \in Sources : MarkFailed(h, s)
    BY <1>2, <2>6 DEF MarkFailed, AbsentIsBlank, TypeOK, GenerationRow
  <2>7. CASE \E h \in Gens : FailStaleBuild(h)
    BY <1>2, <2>7 DEF FailStaleBuild, AbsentIsBlank, TypeOK, GenerationRow
  <2>8. CASE generations' = generations
    BY <1>2, <2>8 DEF AbsentIsBlank
  <2> QED
    BY <2>2, <2>3, <2>4, <2>5, <2>6, <2>7, <2>8
    DEF Next, vars, Tick, CreateSource, StoreChunkBatch, RollbackToPrevious, UpdateStatus
<1> QED BY <1>1, <1>2 DEF AbsentIsBlank

LEMMA ClaimedStep ==
  ASSUME TypeOK, TypeOK', ClaimedInThePast, [Next]_vars
  PROVE  ClaimedInThePast'
<1>1. now \in Nat /\ now' \in Nat /\ now <= now'
  <2>1. now' = now \/ Tick
    BY DEF Next, vars, CreateSource, Claim, RecordBuildPlan, StoreChunkBatch, Publish, MarkFailed,
           FailStaleBuild, RollbackToPrevious, Reclaim, DeleteSource, UpdateStatus
  <2> QED BY <2>1 DEF Tick, TypeOK
<1>2. ASSUME NEW g \in Gens
      PROVE  generations'[g].created_at \in {0, now, generations[g].created_at}
  <2>1. ASSUME NEW D, Drop(D) PROVE generations'[g].created_at \in {0, generations[g].created_at}
    BY <2>1 DEF Drop, NewGeneration
  <2>2. CASE \E s \in Sources : Reclaim(s) \/ DeleteSource(s)
    BY <2>1, <2>2 DEF Reclaim, DeleteSource
  <2>3. CASE \E s \in Sources, h \in Gens, fp \in Fingerprints : Claim(s, h, fp)
    BY <2>3 DEF Claim, NewGeneration, TypeOK
  <2>4. CASE \E h \in Gens, n \in 0 .. Cardinality(Positions) : RecordBuildPlan(h, n)
    BY <2>4 DEF RecordBuildPlan, TypeOK, GenerationRow
  <2>5. CASE \E h \in Gens, s \in Sources, at \in 0 .. MaxTime : Publish(h, s, at)
    BY <2>5 DEF Publish, TypeOK, GenerationRow
  <2>6. CASE \E h \in Gens, s \in Sources : MarkFailed(h, s)
    BY <2>6 DEF MarkFailed, TypeOK, GenerationRow
  <2>7. CASE \E h \in Gens : FailStaleBuild(h)
    BY <2>7 DEF FailStaleBuild, TypeOK, GenerationRow
  <2>8. CASE generations' = generations
    BY <2>8
  <2> QED
    BY <2>2, <2>3, <2>4, <2>5, <2>6, <2>7, <2>8
    DEF Next, vars, Tick, CreateSource, StoreChunkBatch, RollbackToPrevious, UpdateStatus
<1>3. ASSUME NEW g \in Gens PROVE generations'[g].created_at <= now'
  <2>1. generations[g].created_at \in Nat /\ generations[g].created_at <= now
    BY DEF TypeOK, GenerationRow, ClaimedInThePast
  <2> QED BY <1>1, <1>2, <2>1
<1> QED BY <1>3 DEF ClaimedInThePast

LEMMA TablesKept ==
  ASSUME TablesOK, [Next]_vars
  PROVE  TablesOK'
<1>1. TypeOK'
  BY TypingStep DEF TablesOK, IndexInv
<1>2. IndexInv'
  BY <1>1, IndexInvStep DEF TablesOK, IndexInv
<1>3. TablesAgree'
  BY TablesStep DEF TablesOK, IndexInv
<1>4. ClaimedInThePast'
  BY <1>1, ClaimedStep DEF TablesOK, IndexInv
<1> QED BY <1>2, <1>3, <1>4, BlankStep DEF TablesOK, IndexInv

LEMMA TablesStart == Init => TablesOK
<1> SUFFICES ASSUME Init PROVE TablesOK
  OBVIOUS
<1>1. AbsentIsBlank /\ ClaimedInThePast /\ now <= MaxTime
  BY TimeAssumption DEF Init, AbsentIsBlank, ClaimedInThePast, NewGeneration
<1> QED BY <1>1, IndexInvInit, TablesInit DEF TablesOK

(* A pointer leads to a row of the source, and only a live source has one. *)
LEMMA Pointed ==
  ASSUME TablesOK, NEW s \in Sources, sources[s].active # Null
  PROVE  /\ sources[s].active \in Gens /\ Owned(sources[s].active, s) /\ Live(s)
<1>1. sources[s].active \in Gens /\ Owned(sources[s].active, s)
  BY DEF TablesOK, IndexInv, TypeOK, SourceRow, ActiveIndexComplete, CompleteIndex
<1> QED BY <1>1 DEF TablesOK, TablesAgree, NoOrphans, Owned

LEMMA OwnersLive ==
  ASSUME TablesOK, NEW s \in Sources, NEW g \in Gens, Owned(g, s)
  PROVE  Live(s)
BY DEF TablesOK, TablesAgree, NoOrphans, Owned

-----------------------------------------------------------------------------
(* What a session relies on, against the steps of the others.              *)

SameFor(g, s) ==
  /\ Owned(g, s)' <=> Owned(g, s)
  /\ Owned(g, s) =>
       /\ generations'[g].state = generations[g].state
       /\ generations'[g].fingerprint = generations[g].fingerprint
       /\ generations'[g].created_at = generations[g].created_at
       /\ generations'[g].published_at = generations[g].published_at
       /\ generations'[g].stored = generations[g].stored

(* The steps that a transaction and its locks allow.                       *)
Allows(t) ==
  /\ now <= now'
  /\ \A g \in Gens : generations[g].source_id \in Sources =>
       /\ generations'[g].source_id = generations[g].source_id
       /\ generations'[g].created_at <= generations[g].created_at
       /\ generations'[g].state = "building" => generations[g].state = "building"
  /\ \A g \in Gens, m \in LockModes :
       Exists(g) /\ m # "key share" /\ <<g, m>> \in t.held
         => generations'[g].state = generations[g].state
  /\ \A g \in Gens : Exists(g) /\ <<g, "update">> \in t.held
         => generations'[g] = generations[g] /\ chunks'[g] = chunks[g]
  /\ \A s \in Sources, m \in {"share", "update"} : <<s, m>> \in t.held
         => sources'[s].active = sources[s].active /\ (Live(s) => Live(s)')
  /\ \A s \in Sources : <<s, "update">> \in t.held => \A g \in Gens : SameFor(g, s)

LEMMA QueriesKept ==
  ASSUME TablesOK, NEW s \in Sources, sources'[s].active = sources[s].active,
         \A g \in Gens : SameFor(g, s)
  PROVE  /\ PreviousPublished(s)' = PreviousPublished(s)
         /\ \A at : Reclaimable(s, at)' = Reclaimable(s, at)
<1> USE DEF SameFor
<1>1. Predecessors(s)' = Predecessors(s)
  <2>1. CASE sources[s].active = Null
    BY <2>1 DEF Predecessors
  <2>2. CASE sources[s].active # Null
    <3>1. generations'[sources[s].active].fingerprint = generations[sources[s].active].fingerprint
      BY <2>2, Pointed
    <3> QED BY <2>2, <3>1 DEF Predecessors
  <2> QED BY <2>1, <2>2
<1>2. \A g, h \in Predecessors(s) : Later(g, h)' <=> Later(g, h)
  BY DEF Predecessors, Later
<1>3. PreviousPublished(s)' = PreviousPublished(s)
  BY <1>1, <1>2 DEF PreviousPublished, Newest
<1>4. ASSUME NEW at PROVE Reclaimable(s, at)' = Reclaimable(s, at)
  BY <1>3 DEF Reclaimable
<1> QED BY <1>3, <1>4

LEMMA SessionKept ==
  ASSUME TablesOK, TablesOK', NEW t \in TxnRow, SessionOK(t), Allows(t)
  PROVE  SessionOK(t)'
<1> USE DEF SessionOK
<1>1. t.at <= now'
  <2>1. t.at <= now /\ now <= now'
    BY DEF Allows
  <2>2. t.at \in Nat /\ now \in Nat /\ now' \in Nat
    BY DEF TablesOK, IndexInv, TypeOK, TxnRow
  <2> QED BY <2>1, <2>2
<1>2. BatchOK(t)'
  <2>1. SUFFICES ASSUME t.op = "batch", t.pc # "lock" PROVE t.g \in Building(t.s)'
    BY DEF BatchOK
  <2>2. /\ t.g \in Building(t.s) /\ t.s \in Sources /\ t.g \in Gens
        /\ t.pc \in {"insert", "commit"}
    BY <2>1 DEF BatchOK
  <2>3. <<t.g, "share">> \in t.held
    BY <2>1, <2>2 DEF LocksOf
  <2> QED BY <2>2, <2>3 DEF Allows, Building, Owned, Exists, LockModes
<1>3. PublishOK(t)'
  <2>1. SUFFICES ASSUME t.op = "publish" PROVE PublishOK(t)'
    BY DEF PublishOK
  <2>2. /\ t.s \in Sources /\ t.g \in Gens /\ t.pc \in {"lock", "validate", "point", "commit"}
        /\ generations[t.g].source_id = t.s /\ generations[t.g].created_at <= t.at
    BY <2>1 DEF PublishOK
  <2>3. generations[t.g].created_at \in Nat /\ generations'[t.g].created_at \in Nat /\ t.at \in Nat
    BY <2>2 DEF TablesOK, IndexInv, TypeOK, GenerationRow, TxnRow
  <2>4. /\ generations'[t.g].source_id = t.s
        /\ generations'[t.g].created_at <= generations[t.g].created_at
    BY <2>2 DEF Allows
  <2>6. generations'[t.g].created_at <= t.at
    BY <2>2, <2>3, <2>4
  <2>5. ASSUME t.pc # "lock"
        PROVE  /\ generations'[t.g] = generations[t.g] /\ chunks'[t.g] = chunks[t.g]
               /\ t.g \in Building(t.s)
    <3>1. t.g \in Building(t.s)
      BY <2>1, <2>5 DEF PublishOK
    <3>2. <<t.g, "update">> \in t.held
      BY <2>1, <2>2, <2>5 DEF LocksOf
    <3> QED BY <2>2, <3>1, <3>2 DEF Allows, Building, Owned
  <2> QED BY <2>1, <2>2, <2>4, <2>5, <2>6 DEF PublishOK, Building, Owned, Exists, Publishable
<1>4. FailOK(t)'
  <2>1. SUFFICES ASSUME t.op \in {"fail", "stale"} PROVE FailOK(t)'
    BY DEF FailOK
  <2>2. /\ t.s \in Sources /\ t.g \in Gens
        /\ t.pc \in {"mark", "restore", "restoring", "skipped", "commit"}
        /\ generations[t.g].source_id = t.s
    BY <2>1 DEF FailOK
  <2>3. /\ generations[t.g].created_at \in Nat /\ generations'[t.g].created_at \in Nat
        /\ now \in Nat /\ now' \in Nat
    BY <2>2 DEF TablesOK, IndexInv, TypeOK, GenerationRow
  <2>6. /\ generations'[t.g].source_id = t.s /\ now <= now'
        /\ generations'[t.g].created_at <= generations[t.g].created_at
    BY <2>2 DEF Allows
  <2>4. generations'[t.g].source_id = t.s /\ (OlderThan(t.g, StaleAfter) => OlderThan(t.g, StaleAfter)')
    BY <2>3, <2>6, TimeAssumption DEF OlderThan
  <2>5. ASSUME t.pc # "mark"
        PROVE  generations'[t.g].state = "building" <=> t.hit
    <3>1. generations[t.g].state = "building" <=> t.hit
      BY <2>1, <2>5 DEF FailOK
    <3>2. CASE t.hit
      <4>1. <<t.g, "no key update">> \in t.held
        BY <2>1, <2>2, <2>5, <3>2 DEF LocksOf
      <4> QED BY <2>2, <3>1, <3>2, <4>1 DEF Allows, Exists, LockModes
    <3>3. CASE ~t.hit
      BY <2>2, <3>1, <3>3 DEF Allows
    <3> QED BY <3>2, <3>3
  <2> QED BY <2>1, <2>2, <2>4, <2>5 DEF FailOK
<1>5. RollbackOK(t)'
  <2>1. SUFFICES ASSUME t.op = "rollback", t.pc # "lock" PROVE RollbackOK(t)'
    BY DEF RollbackOK
  <2>2. t.s \in Sources /\ t.pc \in {"select", "point", "commit"} /\ Live(t.s)
    BY <2>1 DEF RollbackOK
  <2>3. <<t.s, "update">> \in t.held
    BY <2>1, <2>2 DEF LocksOf
  <2>4. /\ sources'[t.s].active = sources[t.s].active /\ Live(t.s)'
        /\ \A g \in Gens : SameFor(g, t.s)
    BY <2>2, <2>3 DEF Allows
  <2>5. PreviousPublished(t.s)' = PreviousPublished(t.s)
    BY <2>2, <2>4, QueriesKept
  <2>6. \A g \in PreviousPublished(t.s) : generations'[g].stored = generations[g].stored
    BY <2>4 DEF PreviousPublished, Newest, Predecessors, SameFor
  <2> QED BY <2>1, <2>2, <2>4, <2>5, <2>6 DEF RollbackOK
<1>6. ReclaimOK(t)'
  <2>1. SUFFICES ASSUME t.op = "reclaim", t.pc # "lock" PROVE ReclaimOK(t)'
    BY DEF ReclaimOK
  <2>2. t.s \in Sources /\ t.pc \in {"select", "delete", "commit"}
    BY <2>1 DEF ReclaimOK
  <2>3. <<t.s, "update">> \in t.held
    BY <2>1, <2>2 DEF LocksOf
  <2>4. sources'[t.s].active = sources[t.s].active /\ \A g \in Gens : SameFor(g, t.s)
    BY <2>2, <2>3 DEF Allows
  <2>5. Reclaimable(t.s, t.at)' = Reclaimable(t.s, t.at)
    BY <2>2, <2>4, QueriesKept
  <2> QED BY <2>1, <2>2, <2>5 DEF ReclaimOK
<1>7. DeleteOK(t)'
  <2>1. SUFFICES ASSUME t.op = "delete", t.pc \in {"cascade", "commit"} PROVE DeleteOK(t)'
    BY DEF DeleteOK
  <2>2. t.s \in Sources /\ Live(t.s) /\ t.todo = {g \in Gens : Owned(g, t.s)}
    BY <2>1 DEF DeleteOK
  <2>3. <<t.s, "update">> \in t.held
    BY <2>1, <2>2 DEF LocksOf
  <2>4. Live(t.s)' /\ \A g \in Gens : Owned(g, t.s)' <=> Owned(g, t.s)
    BY <2>2, <2>3 DEF Allows, SameFor
  <2> QED BY <2>1, <2>2, <2>4 DEF DeleteOK
<1>8. LeaseOK(t)'
  <2>1. SUFFICES ASSUME t.op = "lease", t.pc = "held" PROVE LeaseOK(t)'
    BY DEF LeaseOK
  <2>2. t.s \in Sources /\ Live(t.s) /\ <<t.s, "share">> \in t.held
    BY <2>1 DEF LeaseOK, LocksOf
  <2> QED BY <2>1, <2>2 DEF LeaseOK, Allows
<1> QED BY <1>1, <1>2, <1>3, <1>4, <1>5, <1>6, <1>7, <1>8 DEF LocksOf

-----------------------------------------------------------------------------
(* The statements before a commit: the session takes its lock and relies   *)
(* on what it has just read.                                               *)

Relies(u) ==
  /\ u \in TxnRow /\ SessionOK(u)

OwnStep(c, u) ==
  /\ UNCHANGED vars /\ txn' = [txn EXCEPT ![c] = u] /\ Relies(u)
  /\ u.held = {} \/ (Granted(c) /\ u.held = txn[c].held \cup Wanted(c))

LEMMA IdleRow == Idle \in TxnRow /\ Idle.held = {} /\ Idle.op = "idle" /\ Idle.at = 0
BY DEF Idle, TxnRow

LEMMA IdleRelies ==
  ASSUME TablesOK
  PROVE  Relies(Idle)
<1>1. Idle.at <= now
  BY IdleRow DEF TablesOK, IndexInv, TypeOK
<1> QED BY <1>1, IdleRow
        DEF Relies, SessionOK, LocksOf, BatchOK, PublishOK, FailOK, RollbackOK, ReclaimOK, DeleteOK,
            LeaseOK

LEMMA SessionNow ==
  ASSUME TxnIInv, NEW c \in Sessions
  PROVE  txn[c] \in TxnRow /\ SessionOK(txn[c]) /\ DOMAIN txn = Sessions
BY DEF TxnIInv, TxnTypeOK, TxnRow

LEMMA OwnEnd ==
  ASSUME TxnIInv, NEW c \in Sessions, End(c), UNCHANGED vars
  PROVE  \E u : OwnStep(c, u)
<1>1. OwnStep(c, Idle)
  BY IdleRelies, IdleRow DEF TxnIInv, End, OwnStep
<1> QED BY <1>1

(* Taking a lock changes what is held, and nothing else of the session.    *)
LEMMA GotoRow ==
  ASSUME TxnIInv, NEW c \in Sessions, NEW v \in TxnRow, NEW W \in SUBSET (Rows \X LockModes),
         Wanted(c) = W, Goto(c, v)
  PROVE  \E u \in TxnRow :
           /\ txn' = [txn EXCEPT ![c] = u]
           /\ u.op = v.op /\ u.pc = v.pc /\ u.s = v.s /\ u.g = v.g /\ u.n = v.n /\ u.at = v.at
           /\ u.B = v.B /\ u.todo = v.todo /\ (u.hit <=> v.hit) /\ u.held = v.held \cup W
<1> DEFINE u == [v EXCEPT !.held = v.held \cup W]
<1>1. /\ u \in TxnRow
      /\ u.op = v.op /\ u.pc = v.pc /\ u.s = v.s /\ u.g = v.g /\ u.n = v.n /\ u.at = v.at
      /\ u.B = v.B /\ u.todo = v.todo /\ (u.hit <=> v.hit) /\ u.held = v.held \cup W
  BY DEF TxnRow
<1>2. txn' = [txn EXCEPT ![c] = u]
  BY DEF Goto
<1> HIDE DEF u
<1> QED BY <1>1, <1>2

LEMMA OwnGo ==
  ASSUME TxnIInv, NEW c \in Sessions, NEW u \in TxnRow, SessionOK(u), UNCHANGED vars, Granted(c),
         txn' = [txn EXCEPT ![c] = u], u.held = txn[c].held \cup Wanted(c)
  PROVE  \E w : OwnStep(c, w)
<1>1. OwnStep(c, u)
  BY DEF OwnStep, Relies
<1> QED BY <1>1

(* Of the conditions on a session only that of its own call says anything. *)
CallOK(u) ==
  \/ u.op = "batch" /\ BatchOK(u)
  \/ u.op = "publish" /\ PublishOK(u)
  \/ u.op \in {"fail", "stale"} /\ FailOK(u)
  \/ u.op = "rollback" /\ RollbackOK(u)
  \/ u.op = "reclaim" /\ ReclaimOK(u)
  \/ u.op = "delete" /\ DeleteOK(u)
  \/ u.op = "lease" /\ LeaseOK(u)

LEMMA OwnCall ==
  ASSUME NEW u, u.held = LocksOf(u), u.at <= now, CallOK(u)
  PROVE  SessionOK(u)
BY DEF CallOK, SessionOK, BatchOK, PublishOK, FailOK, RollbackOK, ReclaimOK, DeleteOK, LeaseOK

(* Neither the call's condition nor its locks depend on what is held.      *)
LEMMA HeldIsApart ==
  ASSUME NEW u, NEW v,
         u.op = v.op, u.pc = v.pc, u.s = v.s, u.g = v.g, u.n = v.n, u.at = v.at,
         u.B = v.B, u.todo = v.todo, u.hit <=> v.hit
  PROVE  /\ LocksOf(u) = LocksOf(v)
         /\ CallOK(v) => CallOK(u)
<1>1. LocksOf(u) = LocksOf(v)
  BY DEF LocksOf
<1>2. /\ BatchOK(v) => BatchOK(u)
      /\ PublishOK(v) => PublishOK(u)
  BY DEF BatchOK, PublishOK
<1>3. FailOK(v) => FailOK(u)
  BY DEF FailOK
<1>4. /\ RollbackOK(v) => RollbackOK(u)
      /\ ReclaimOK(v) => ReclaimOK(u)
  BY DEF RollbackOK, ReclaimOK
<1>5. /\ DeleteOK(v) => DeleteOK(u)
      /\ LeaseOK(v) => LeaseOK(u)
  BY DEF DeleteOK, LeaseOK
<1> QED BY <1>1, <1>2, <1>3, <1>4, <1>5 DEF CallOK

LEMMA OwnGoto ==
  ASSUME TxnIInv, NEW c \in Sessions, NEW v \in TxnRow, NEW W \in SUBSET (Rows \X LockModes),
         Wanted(c) = W, Goto(c, v), Granted(c), UNCHANGED vars,
         v.held = txn[c].held, LocksOf(v) = v.held \cup W, v.at <= now, CallOK(v)
  PROVE  \E w : OwnStep(c, w)
<1>1. PICK u \in TxnRow :
        /\ txn' = [txn EXCEPT ![c] = u]
        /\ u.op = v.op /\ u.pc = v.pc /\ u.s = v.s /\ u.g = v.g /\ u.n = v.n /\ u.at = v.at
        /\ u.B = v.B /\ u.todo = v.todo /\ (u.hit <=> v.hit) /\ u.held = v.held \cup W
  BY GotoRow
<1>2. SessionOK(u)
  BY <1>1, HeldIsApart, OwnCall
<1> QED BY <1>1, <1>2, OwnGo

LEMMA WantedIs ==
  ASSUME NEW c, NEW t, t = txn[c]
  PROVE  /\ t.op = "batch" /\ t.pc = "lock" => Wanted(c) = {<<t.g, "share">>}
         /\ t.op = "batch" /\ t.pc = "insert" => Wanted(c) = {<<t.s, "key share">>}
         /\ t.op = "publish" /\ t.pc = "lock" => Wanted(c) = {<<t.g, "update">>}
         /\ t.op = "publish" /\ t.pc = "validate" => Wanted(c) = {}
         /\ t.op = "publish" /\ t.pc = "point" => Wanted(c) = {<<t.s, "no key update">>}
         /\ t.op \in {"fail", "stale"} /\ t.pc = "mark" /\ generations[t.g].state = "building"
              => Wanted(c) = {<<t.g, "no key update">>}
         /\ t.op \in {"fail", "stale"} /\ t.pc = "mark" /\ generations[t.g].state # "building"
              => Wanted(c) = {}
         /\ t.op \in {"fail", "stale"} /\ t.pc = "restoring" => Wanted(c) = {<<t.s, "no key update">>}
         /\ t.op \in {"fail", "stale"} /\ t.pc = "restore" => Wanted(c) = {}
         /\ t.op \in {"rollback", "reclaim"} /\ t.pc = "lock" => Wanted(c) = {<<t.s, "update">>}
         /\ t.op \in {"rollback", "reclaim"} /\ t.pc = "select" => Wanted(c) = {}
         /\ t.op = "rollback" /\ t.pc = "point" => Wanted(c) = {<<t.g, "key share">>}
         /\ t.op = "reclaim" /\ t.pc = "delete" => Wanted(c) = {<<g, "update">> : g \in t.todo}
         /\ t.op = "delete" /\ t.pc = "chunks" => Wanted(c) = {}
         /\ t.op = "delete" /\ t.pc = "source" => Wanted(c) = {<<t.s, "update">>}
         /\ t.op = "delete" /\ t.pc = "cascade" => Wanted(c) = {<<g, "update">> : g \in t.todo}
         /\ t.op = "lease" /\ t.pc = "lock" => Wanted(c) = {<<t.s, "share">>}
         /\ t.pc \in {"commit", "held", "skipped"} => Wanted(c) = {}
<1>1. /\ t.op = "batch" /\ t.pc = "lock" => Wanted(c) = {<<t.g, "share">>}
      /\ t.op = "batch" /\ t.pc = "insert" => Wanted(c) = {<<t.s, "key share">>}
  BY DEF Wanted, LockBuildingMode
<1>2. /\ t.op = "publish" /\ t.pc = "lock" => Wanted(c) = {<<t.g, "update">>}
      /\ t.op = "publish" /\ t.pc = "validate" => Wanted(c) = {}
      /\ t.op = "publish" /\ t.pc = "point" => Wanted(c) = {<<t.s, "no key update">>}
  BY DEF Wanted, LockForPublicationMode
<1>3. /\ t.op \in {"fail", "stale"} /\ t.pc = "mark" /\ generations[t.g].state = "building"
           => Wanted(c) = {<<t.g, "no key update">>}
      /\ t.op \in {"fail", "stale"} /\ t.pc = "mark" /\ generations[t.g].state # "building"
           => Wanted(c) = {}
      /\ t.op \in {"fail", "stale"} /\ t.pc = "restoring" => Wanted(c) = {<<t.s, "no key update">>}
      /\ t.op \in {"fail", "stale"} /\ t.pc = "restore" => Wanted(c) = {}
  BY DEF Wanted
<1>4. /\ t.op \in {"rollback", "reclaim"} /\ t.pc = "lock" => Wanted(c) = {<<t.s, "update">>}
      /\ t.op \in {"rollback", "reclaim"} /\ t.pc = "select" => Wanted(c) = {}
      /\ t.op = "rollback" /\ t.pc = "point" => Wanted(c) = {<<t.g, "key share">>}
      /\ t.op = "reclaim" /\ t.pc = "delete" => Wanted(c) = {<<g, "update">> : g \in t.todo}
  BY DEF Wanted, LockSourceMode
<1>5. /\ t.op = "delete" /\ t.pc = "chunks" => Wanted(c) = {}
      /\ t.op = "delete" /\ t.pc = "source" => Wanted(c) = {<<t.s, "update">>}
      /\ t.op = "delete" /\ t.pc = "cascade" => Wanted(c) = {<<g, "update">> : g \in t.todo}
      /\ t.op = "lease" /\ t.pc = "lock" => Wanted(c) = {<<t.s, "share">>}
      /\ t.pc \in {"commit", "held", "skipped"} => Wanted(c) = {}
  BY DEF Wanted, LeaseMode
<1> QED BY <1>1, <1>2, <1>3, <1>4, <1>5

LEMMA LocksAre ==
  ASSUME NEW t
  PROVE  /\ t.op = "batch" /\ t.pc = "lock" => LocksOf(t) = {}
         /\ t.op = "batch" /\ t.pc = "insert" => LocksOf(t) = {<<t.g, "share">>}
         /\ t.op = "batch" /\ t.pc = "commit" => LocksOf(t) = {<<t.g, "share">>} \cup {<<t.s, "key share">>}
         /\ t.op = "publish" /\ t.pc = "lock" => LocksOf(t) = {}
         /\ t.op = "publish" /\ t.pc \in {"validate", "point"} => LocksOf(t) = {<<t.g, "update">>}
         /\ t.op = "publish" /\ t.pc = "commit"
              => LocksOf(t) = {<<t.g, "update">>} \cup {<<t.s, "no key update">>}
         /\ t.op \in {"rollback", "reclaim"} /\ t.pc = "lock" => LocksOf(t) = {}
         /\ t.op = "rollback" /\ t.pc \in {"select", "point"} => LocksOf(t) = {<<t.s, "update">>}
         /\ t.op = "rollback" /\ t.pc = "commit"
              => LocksOf(t) = {<<t.s, "update">>} \cup {<<t.g, "key share">>}
         /\ t.op = "reclaim" /\ t.pc \in {"select", "delete"} => LocksOf(t) = {<<t.s, "update">>}
         /\ t.op = "delete" /\ t.pc \in {"chunks", "source"} => LocksOf(t) = {}
         /\ t.op = "delete" /\ t.pc = "cascade" => LocksOf(t) = {<<t.s, "update">>}
         /\ t.op \in {"reclaim", "delete"} /\ t.pc = "commit"
              => LocksOf(t) = {<<t.s, "update">>} \cup {<<g, "update">> : g \in t.todo}
         /\ t.op = "lease" /\ t.pc = "lock" => LocksOf(t) = {}
         /\ t.op = "lease" /\ t.pc = "held" => LocksOf(t) = {<<t.s, "share">>}
<1>1. /\ t.op = "batch" /\ t.pc = "lock" => LocksOf(t) = {}
      /\ t.op = "batch" /\ t.pc = "insert" => LocksOf(t) = {<<t.g, "share">>}
      /\ t.op = "batch" /\ t.pc = "commit" => LocksOf(t) = {<<t.g, "share">>} \cup {<<t.s, "key share">>}
  BY DEF LocksOf
<1>2. /\ t.op = "publish" /\ t.pc = "lock" => LocksOf(t) = {}
      /\ t.op = "publish" /\ t.pc \in {"validate", "point"} => LocksOf(t) = {<<t.g, "update">>}
      /\ t.op = "publish" /\ t.pc = "commit"
           => LocksOf(t) = {<<t.g, "update">>} \cup {<<t.s, "no key update">>}
  BY DEF LocksOf
<1>3. /\ t.op \in {"rollback", "reclaim"} /\ t.pc = "lock" => LocksOf(t) = {}
      /\ t.op = "rollback" /\ t.pc \in {"select", "point"} => LocksOf(t) = {<<t.s, "update">>}
      /\ t.op = "rollback" /\ t.pc = "commit"
           => LocksOf(t) = {<<t.s, "update">>} \cup {<<t.g, "key share">>}
      /\ t.op = "reclaim" /\ t.pc \in {"select", "delete"} => LocksOf(t) = {<<t.s, "update">>}
  BY DEF LocksOf
<1>4. /\ t.op = "delete" /\ t.pc \in {"chunks", "source"} => LocksOf(t) = {}
      /\ t.op = "delete" /\ t.pc = "cascade" => LocksOf(t) = {<<t.s, "update">>}
      /\ t.op = "lease" /\ t.pc = "lock" => LocksOf(t) = {}
      /\ t.op = "lease" /\ t.pc = "held" => LocksOf(t) = {<<t.s, "share">>}
  BY DEF LocksOf
<1>5. t.op \in {"reclaim", "delete"} /\ t.pc = "commit"
        => LocksOf(t) = {<<x, "update">> : x \in {t.s} \cup t.todo}
  BY DEF LocksOf
<1> QED BY <1>1, <1>2, <1>3, <1>4, <1>5

LEMMA LockIn ==
  ASSUME NEW D \in SUBSET Rows, NEW m \in LockModes
  PROVE  {<<x, m>> : x \in D} \in SUBSET (Rows \X LockModes)
OBVIOUS

LEMMA OneLock ==
  ASSUME NEW x \in Rows, NEW m \in LockModes
  PROVE  {<<x, m>>} \in SUBSET (Rows \X LockModes)
<1>1. {<<x, m>>} = {<<y, m>> : y \in {x}}
  OBVIOUS
<1> QED BY <1>1, LockIn

(* store_chunk_batch.                                                      *)
LEMMA BatchStatements ==
  ASSUME TxnIInv, NEW c \in Sessions, BatchLock(c) \/ BatchInsert(c)
  PROVE  \E w : OwnStep(c, w)
<1>1. PICK t \in TxnRow : t = txn[c] /\ SessionOK(t)
  BY SessionNow
<1>2. /\ t.op = "batch" /\ t.held = LocksOf(t) /\ t.at <= now /\ BatchOK(t)
      /\ t.s \in Sources /\ t.g \in Gens /\ Granted(c) /\ UNCHANGED vars
  BY <1>1 DEF SessionOK, BatchOK, BatchLock, BatchInsert, At
<1>3. CASE BatchLock(c) /\ t.g \in Building(t.s)
  <2> DEFINE v == [t EXCEPT !.pc = "insert"]
  <2>1. /\ v \in TxnRow /\ v.op = "batch" /\ v.pc = "insert" /\ v.s = t.s /\ v.g = t.g
        /\ v.B = t.B /\ v.held = t.held /\ v.at = t.at
    BY <1>2 DEF TxnRow
  <2>2. t.pc = "lock" /\ Goto(c, v)
    BY <1>1, <1>3 DEF BatchLock, At, Step
  <2> HIDE DEF v
  <2>3. CallOK(v)
    BY <1>2, <1>3, <2>1 DEF CallOK, BatchOK
  <2>4. Wanted(c) = {<<t.g, "share">>} /\ t.held = {} /\ LocksOf(v) = {<<t.g, "share">>}
    BY <1>1, <1>2, <2>1, <2>2, WantedIs, LocksAre
  <2>5. {<<t.g, "share">>} \in SUBSET (Rows \X LockModes)
    BY <1>2, OneLock DEF Rows, LockModes
  <2> QED BY <1>1, <1>2, <2>1, <2>2, <2>3, <2>4, <2>5, OwnGoto
<1>4. CASE BatchLock(c) /\ t.g \notin Building(t.s)
  BY <1>1, <1>2, <1>4, OwnEnd DEF BatchLock
<1>5. CASE BatchInsert(c)
  <2> DEFINE v == [t EXCEPT !.pc = "commit"]
  <2>1. /\ v \in TxnRow /\ v.op = "batch" /\ v.pc = "commit" /\ v.s = t.s /\ v.g = t.g
        /\ v.B = t.B /\ v.held = t.held /\ v.at = t.at
    BY <1>2 DEF TxnRow
  <2>2. t.pc = "insert" /\ Goto(c, v)
    BY <1>1, <1>5 DEF BatchInsert, At, Step
  <2> HIDE DEF v
  <2>3. CallOK(v)
    BY <1>2, <2>1, <2>2 DEF CallOK, BatchOK
  <2>4. /\ Wanted(c) = {<<t.s, "key share">>} /\ t.held = {<<t.g, "share">>}
        /\ LocksOf(v) = {<<t.g, "share">>} \cup {<<t.s, "key share">>}
    BY <1>1, <1>2, <2>1, <2>2, WantedIs, LocksAre
  <2>5. {<<t.s, "key share">>} \in SUBSET (Rows \X LockModes)
    BY <1>2, OneLock DEF Rows, LockModes
  <2> QED BY <1>1, <1>2, <2>1, <2>2, <2>3, <2>4, <2>5, OwnGoto
<1> QED BY <1>3, <1>4, <1>5

(* publish_in_txn.                                                         *)
LEMMA PublishStatements ==
  ASSUME TxnIInv, NEW c \in Sessions, PublishLock(c) \/ PublishValidate(c) \/ PublishPoint(c)
  PROVE  \E w : OwnStep(c, w)
<1>1. PICK t \in TxnRow : t = txn[c] /\ SessionOK(t)
  BY SessionNow
<1>2. /\ t.op = "publish" /\ t.held = LocksOf(t) /\ t.at <= now /\ PublishOK(t)
      /\ t.s \in Sources /\ t.g \in Gens /\ Granted(c) /\ UNCHANGED vars
  BY <1>1 DEF SessionOK, PublishOK, PublishLock, PublishValidate, PublishPoint, At
<1>3. CASE PublishLock(c) /\ t.g \in Building(t.s)
  <2> DEFINE v == [t EXCEPT !.pc = "validate"]
  <2>1. /\ v \in TxnRow /\ v.op = "publish" /\ v.pc = "validate"
        /\ v.s = t.s /\ v.g = t.g /\ v.n = t.n /\ v.B = t.B /\ v.todo = t.todo /\ v.at = t.at /\ v.held = t.held /\ (v.hit <=> t.hit)
    BY <1>1, <1>2 DEF TxnRow
  <2>2. t.pc = "lock" /\ Goto(c, v)
    BY <1>1, <1>2, <1>3 DEF PublishLock, At, Step
  <2> HIDE DEF v
  <2>3. CallOK(v)
    BY <1>2, <1>3, <2>1 DEF CallOK, PublishOK
  <2>4. Wanted(c) = {<<t.g, "update">>}
    BY <1>1, <1>2, <2>2, WantedIs
  <2>6. t.held = {}
    BY <1>2, <2>2, LocksAre
  <2>7. LocksOf(v) = v.held \cup {<<t.g, "update">>}
    BY <1>2, <2>1, <2>6, LocksAre
  <2>5. {<<t.g, "update">>} \in SUBSET (Rows \X LockModes)
    BY <1>2, OneLock DEF Rows, LockModes
  <2> QED BY <1>1, <1>2, <2>1, <2>2, <2>3, <2>4, <2>5, <2>7, OwnGoto
<1>4. CASE PublishLock(c) /\ t.g \notin Building(t.s)
  BY <1>1, <1>2, <1>4, OwnEnd DEF PublishLock
<1>5. CASE PublishValidate(c) /\ Publishable(t.g, t.s)
  <2>0. Cardinality(chunks[t.g]) \in Nat
    BY <1>2, ChunkCount DEF TxnIInv, TablesOK, IndexInv, TypeOK
  <2> DEFINE v == [t EXCEPT !.pc = "point", !.n = Cardinality(chunks[t.g])]
  <2>1. /\ v \in TxnRow /\ v.op = "publish" /\ v.pc = "point"
        /\ v.s = t.s /\ v.g = t.g /\ v.B = t.B /\ v.todo = t.todo /\ v.at = t.at /\ v.held = t.held /\ (v.hit <=> t.hit) /\ v.n = Cardinality(chunks[t.g])
    BY <1>1, <1>2, <2>0 DEF TxnRow
  <2>2. t.pc = "validate" /\ Goto(c, v)
    BY <1>1, <1>2, <1>5 DEF PublishValidate, At, Step
  <2> HIDE DEF v
  <2>3. CallOK(v)
    BY <1>2, <1>5, <2>1, <2>2 DEF CallOK, PublishOK
  <2>4. Wanted(c) = {}
    BY <1>1, <1>2, <2>2, WantedIs
  <2>6. t.held = {<<t.g, "update">>}
    BY <1>2, <2>2, LocksAre
  <2>7. LocksOf(v) = v.held \cup {}
    BY <1>2, <2>1, <2>6, LocksAre
  <2>5. {} \in SUBSET (Rows \X LockModes)
    OBVIOUS
  <2> QED BY <1>1, <1>2, <2>1, <2>2, <2>3, <2>4, <2>5, <2>7, OwnGoto
<1>6. CASE PublishValidate(c) /\ ~Publishable(t.g, t.s)
  BY <1>1, <1>2, <1>6, OwnEnd DEF PublishValidate
<1>7. CASE PublishPoint(c)
  <2> DEFINE v == [t EXCEPT !.pc = "commit"]
  <2>1. /\ v \in TxnRow /\ v.op = "publish" /\ v.pc = "commit"
        /\ v.s = t.s /\ v.g = t.g /\ v.n = t.n /\ v.B = t.B /\ v.todo = t.todo /\ v.at = t.at /\ v.held = t.held /\ (v.hit <=> t.hit)
    BY <1>1, <1>2 DEF TxnRow
  <2>2. t.pc = "point" /\ Goto(c, v)
    BY <1>1, <1>2, <1>7 DEF PublishPoint, At, Step
  <2> HIDE DEF v
  <2>3. CallOK(v)
    BY <1>2, <2>1, <2>2 DEF CallOK, PublishOK
  <2>4. Wanted(c) = {<<t.s, "no key update">>}
    BY <1>1, <1>2, <2>2, WantedIs
  <2>6. t.held = {<<t.g, "update">>}
    BY <1>2, <2>2, LocksAre
  <2>7. LocksOf(v) = v.held \cup {<<t.s, "no key update">>}
    BY <1>2, <2>1, <2>6, LocksAre
  <2>5. {<<t.s, "no key update">>} \in SUBSET (Rows \X LockModes)
    BY <1>2, OneLock DEF Rows, LockModes
  <2> QED BY <1>1, <1>2, <2>1, <2>2, <2>3, <2>4, <2>5, <2>7, OwnGoto
<1> QED BY <1>3, <1>4, <1>5, <1>6, <1>7

(* rollback_to_previous.                                                   *)
LEMMA RollbackStatements ==
  ASSUME TxnIInv, NEW c \in Sessions, RollbackLock(c) \/ RollbackSelect(c) \/ RollbackPoint(c)
  PROVE  \E w : OwnStep(c, w)
<1>1. PICK t \in TxnRow : t = txn[c] /\ SessionOK(t)
  BY SessionNow
<1>2. /\ t.op = "rollback" /\ t.held = LocksOf(t) /\ t.at <= now /\ RollbackOK(t)
      /\ t.s \in Sources /\ Granted(c) /\ UNCHANGED vars
  BY <1>1 DEF SessionOK, RollbackOK, RollbackLock, RollbackSelect, RollbackPoint, At
<1>3. CASE RollbackLock(c) /\ Live(t.s)
  <2> DEFINE v == [t EXCEPT !.pc = "select"]
  <2>1. /\ v \in TxnRow /\ v.op = "rollback" /\ v.pc = "select"
        /\ v.s = t.s /\ v.g = t.g /\ v.n = t.n /\ v.B = t.B /\ v.todo = t.todo /\ v.at = t.at /\ v.held = t.held /\ (v.hit <=> t.hit)
    BY <1>1, <1>2 DEF TxnRow
  <2>2. t.pc = "lock" /\ Goto(c, v)
    BY <1>1, <1>2, <1>3 DEF RollbackLock, At, Step
  <2> HIDE DEF v
  <2>3. CallOK(v)
    BY <1>2, <1>3, <2>1 DEF CallOK, RollbackOK
  <2>4. Wanted(c) = {<<t.s, "update">>}
    BY <1>1, <1>2, <2>2, WantedIs
  <2>6. t.held = {}
    BY <1>2, <2>2, LocksAre
  <2>7. LocksOf(v) = v.held \cup {<<t.s, "update">>}
    BY <1>2, <2>1, <2>6, LocksAre
  <2>5. {<<t.s, "update">>} \in SUBSET (Rows \X LockModes)
    BY <1>2, OneLock DEF Rows, LockModes
  <2> QED BY <1>1, <1>2, <2>1, <2>2, <2>3, <2>4, <2>5, <2>7, OwnGoto
<1>4. CASE RollbackLock(c) /\ ~Live(t.s)
  BY <1>1, <1>2, <1>4, OwnEnd DEF RollbackLock
<1>5. ASSUME NEW g \in PreviousPublished(t.s), At(c, "rollback", "select"),
             Goto(c, [txn[c] EXCEPT !.pc = "point", !.g = g, !.n = generations[g].stored])
      PROVE  \E w : OwnStep(c, w)
  <2>0. g \in Gens /\ generations[g].stored \in Nat
    BY <1>5 DEF PreviousPublished, Newest, Predecessors, TxnIInv, TablesOK, IndexInv, TypeOK, GenerationRow
  <2> DEFINE v == [t EXCEPT !.pc = "point", !.g = g, !.n = generations[g].stored]
  <2>1. /\ v \in TxnRow /\ v.op = "rollback" /\ v.pc = "point"
        /\ v.s = t.s /\ v.B = t.B /\ v.todo = t.todo /\ v.at = t.at /\ v.held = t.held /\ (v.hit <=> t.hit) /\ v.g = g /\ v.n = generations[g].stored
    BY <1>1, <1>2, <2>0 DEF TxnRow
  <2>2. t.pc = "select" /\ Goto(c, v)
    BY <1>1, <1>2, <1>5 DEF At, At, Step
  <2> HIDE DEF v
  <2>3. CallOK(v)
    BY <1>2, <1>5, <2>1, <2>2 DEF CallOK, RollbackOK
  <2>4. Wanted(c) = {}
    BY <1>1, <1>2, <2>2, WantedIs
  <2>6. t.held = {<<t.s, "update">>}
    BY <1>2, <2>2, LocksAre
  <2>7. LocksOf(v) = v.held \cup {}
    BY <1>2, <2>1, <2>6, LocksAre
  <2>5. {} \in SUBSET (Rows \X LockModes)
    OBVIOUS
  <2> QED BY <1>1, <1>2, <2>1, <2>2, <2>3, <2>4, <2>5, <2>7, OwnGoto
<1>6. CASE RollbackSelect(c) /\ End(c)
  BY <1>1, <1>2, <1>6, OwnEnd DEF RollbackSelect
<1>7. CASE RollbackPoint(c)
  <2>0. t.g \in Gens
    BY <1>1, <1>2, <1>7 DEF RollbackPoint, At, RollbackOK, PreviousPublished, Newest, Predecessors
  <2> DEFINE v == [t EXCEPT !.pc = "commit"]
  <2>1. /\ v \in TxnRow /\ v.op = "rollback" /\ v.pc = "commit"
        /\ v.s = t.s /\ v.g = t.g /\ v.n = t.n /\ v.B = t.B /\ v.todo = t.todo /\ v.at = t.at /\ v.held = t.held /\ (v.hit <=> t.hit)
    BY <1>1, <1>2 DEF TxnRow
  <2>2. t.pc = "point" /\ Goto(c, v)
    BY <1>1, <1>2, <1>7 DEF RollbackPoint, At, Step
  <2> HIDE DEF v
  <2>3. CallOK(v)
    BY <1>2, <2>1, <2>2 DEF CallOK, RollbackOK
  <2>4. Wanted(c) = {<<t.g, "key share">>}
    BY <1>1, <1>2, <2>2, WantedIs
  <2>6. t.held = {<<t.s, "update">>}
    BY <1>2, <2>2, LocksAre
  <2>7. LocksOf(v) = v.held \cup {<<t.g, "key share">>}
    BY <1>2, <2>1, <2>6, LocksAre
  <2>5. {<<t.g, "key share">>} \in SUBSET (Rows \X LockModes)
    BY <1>2, <2>0, OneLock DEF Rows, LockModes
  <2> QED BY <1>1, <1>2, <2>1, <2>2, <2>3, <2>4, <2>5, <2>7, OwnGoto
<1>8. CASE RollbackSelect(c)
  BY <1>1, <1>5, <1>6, <1>8 DEF RollbackSelect
<1> QED BY <1>3, <1>4, <1>7, <1>8

(* reclaim.                                                                *)
LEMMA ReclaimStatements ==
  ASSUME TxnIInv, NEW c \in Sessions, ReclaimLock(c) \/ ReclaimSelect(c) \/ ReclaimDelete(c)
  PROVE  \E w : OwnStep(c, w)
<1>1. PICK t \in TxnRow : t = txn[c] /\ SessionOK(t)
  BY SessionNow
<1>2. /\ t.op = "reclaim" /\ t.held = LocksOf(t) /\ t.at <= now /\ ReclaimOK(t)
      /\ t.s \in Sources /\ Granted(c) /\ UNCHANGED vars
  BY <1>1 DEF SessionOK, ReclaimOK, ReclaimLock, ReclaimSelect, ReclaimDelete, At
<1>3. CASE ReclaimLock(c)
  <2> DEFINE v == [t EXCEPT !.pc = "select"]
  <2>1. /\ v \in TxnRow /\ v.op = "reclaim" /\ v.pc = "select"
        /\ v.s = t.s /\ v.g = t.g /\ v.n = t.n /\ v.B = t.B /\ v.todo = t.todo /\ v.at = t.at /\ v.held = t.held /\ (v.hit <=> t.hit)
    BY <1>1, <1>2 DEF TxnRow
  <2>2. t.pc = "lock" /\ Goto(c, v)
    BY <1>1, <1>2, <1>3 DEF ReclaimLock, At, Step
  <2> HIDE DEF v
  <2>3. CallOK(v)
    BY <1>2, <1>3, <2>1 DEF CallOK, ReclaimOK
  <2>4. Wanted(c) = {<<t.s, "update">>}
    BY <1>1, <1>2, <2>2, WantedIs
  <2>6. t.held = {}
    BY <1>2, <2>2, LocksAre
  <2>7. LocksOf(v) = v.held \cup {<<t.s, "update">>}
    BY <1>2, <2>1, <2>6, LocksAre
  <2>5. {<<t.s, "update">>} \in SUBSET (Rows \X LockModes)
    BY <1>2, OneLock DEF Rows, LockModes
  <2> QED BY <1>1, <1>2, <2>1, <2>2, <2>3, <2>4, <2>5, <2>7, OwnGoto
<1>4. CASE ReclaimSelect(c) /\ Reclaimable(t.s, t.at) # {}
  <2>0. Reclaimable(t.s, t.at) \in SUBSET Gens
    BY DEF Reclaimable
  <2> DEFINE v == [t EXCEPT !.pc = "delete", !.todo = Reclaimable(t.s, t.at)]
  <2>1. /\ v \in TxnRow /\ v.op = "reclaim" /\ v.pc = "delete"
        /\ v.s = t.s /\ v.g = t.g /\ v.n = t.n /\ v.B = t.B /\ v.at = t.at /\ v.held = t.held /\ (v.hit <=> t.hit) /\ v.todo = Reclaimable(t.s, t.at)
    BY <1>1, <1>2, <2>0 DEF TxnRow
  <2>2. t.pc = "select" /\ Goto(c, v)
    BY <1>1, <1>2, <1>4 DEF ReclaimSelect, At, Step
  <2> HIDE DEF v
  <2>3. CallOK(v)
    BY <1>2, <1>4, <2>1, <2>2 DEF CallOK, ReclaimOK
  <2>4. Wanted(c) = {}
    BY <1>1, <1>2, <2>2, WantedIs
  <2>6. t.held = {<<t.s, "update">>}
    BY <1>2, <2>2, LocksAre
  <2>7. LocksOf(v) = v.held \cup {}
    BY <1>2, <2>1, <2>6, LocksAre
  <2>5. {} \in SUBSET (Rows \X LockModes)
    OBVIOUS
  <2> QED BY <1>1, <1>2, <2>1, <2>2, <2>3, <2>4, <2>5, <2>7, OwnGoto
<1>5. CASE ReclaimSelect(c) /\ Reclaimable(t.s, t.at) = {}
  BY <1>1, <1>2, <1>5, OwnEnd DEF ReclaimSelect
<1>6. CASE ReclaimDelete(c)
  <2> DEFINE v == [t EXCEPT !.pc = "commit"]
  <2>1. /\ v \in TxnRow /\ v.op = "reclaim" /\ v.pc = "commit"
        /\ v.s = t.s /\ v.g = t.g /\ v.n = t.n /\ v.B = t.B /\ v.todo = t.todo /\ v.at = t.at /\ v.held = t.held /\ (v.hit <=> t.hit)
    BY <1>1, <1>2 DEF TxnRow
  <2>2. t.pc = "delete" /\ Goto(c, v)
    BY <1>1, <1>2, <1>6 DEF ReclaimDelete, At, Step
  <2> HIDE DEF v
  <2>3. CallOK(v)
    BY <1>2, <2>1, <2>2 DEF CallOK, ReclaimOK
  <2>4. Wanted(c) = {<<g, "update">> : g \in t.todo}
    BY <1>1, <1>2, <2>2, WantedIs
  <2>6. t.held = {<<t.s, "update">>}
    BY <1>2, <2>2, LocksAre
  <2>7. LocksOf(v) = v.held \cup {<<g, "update">> : g \in t.todo}
    BY <1>2, <2>1, <2>6, LocksAre
  <2>5. {<<g, "update">> : g \in t.todo} \in SUBSET (Rows \X LockModes)
    BY <1>1, LockIn DEF Rows, LockModes, TxnRow
  <2> QED BY <1>1, <1>2, <2>1, <2>2, <2>3, <2>4, <2>5, <2>7, OwnGoto
<1> QED BY <1>3, <1>4, <1>5, <1>6

(* SourceRepository::delete.                                               *)
LEMMA DeleteStatements ==
  ASSUME TxnIInv, NEW c \in Sessions, DeleteChunks(c) \/ DeleteSourceRow(c) \/ DeleteCascade(c)
  PROVE  \E w : OwnStep(c, w)
<1>1. PICK t \in TxnRow : t = txn[c] /\ SessionOK(t)
  BY SessionNow
<1>2. /\ t.op = "delete" /\ t.held = LocksOf(t) /\ t.at <= now /\ DeleteOK(t)
      /\ t.s \in Sources /\ Granted(c) /\ UNCHANGED vars
  BY <1>1 DEF SessionOK, DeleteOK, DeleteChunks, DeleteSourceRow, DeleteCascade, At
<1>3. CASE DeleteChunks(c) /\ Live(t.s)
  <2> DEFINE v == [t EXCEPT !.pc = "source"]
  <2>1. /\ v \in TxnRow /\ v.op = "delete" /\ v.pc = "source"
        /\ v.s = t.s /\ v.g = t.g /\ v.n = t.n /\ v.B = t.B /\ v.todo = t.todo /\ v.at = t.at /\ v.held = t.held /\ (v.hit <=> t.hit)
    BY <1>1, <1>2 DEF TxnRow
  <2>2. t.pc = "chunks" /\ Goto(c, v)
    BY <1>1, <1>2, <1>3 DEF DeleteChunks, At, Step
  <2> HIDE DEF v
  <2>3. CallOK(v)
    BY <1>2, <1>3, <2>1 DEF CallOK, DeleteOK
  <2>4. Wanted(c) = {}
    BY <1>1, <1>2, <2>2, WantedIs
  <2>6. t.held = {}
    BY <1>2, <2>2, LocksAre
  <2>7. LocksOf(v) = v.held \cup {}
    BY <1>2, <2>1, <2>6, LocksAre
  <2>5. {} \in SUBSET (Rows \X LockModes)
    OBVIOUS
  <2> QED BY <1>1, <1>2, <2>1, <2>2, <2>3, <2>4, <2>5, <2>7, OwnGoto
<1>4. CASE DeleteChunks(c) /\ ~Live(t.s)
  BY <1>1, <1>2, <1>4, OwnEnd DEF DeleteChunks
<1>5. CASE DeleteSourceRow(c) /\ Live(t.s)
  <2> DEFINE v == [t EXCEPT !.pc = "cascade", !.todo = {g \in Gens : Owned(g, t.s)}]
  <2>1. /\ v \in TxnRow /\ v.op = "delete" /\ v.pc = "cascade"
        /\ v.s = t.s /\ v.g = t.g /\ v.n = t.n /\ v.B = t.B /\ v.at = t.at /\ v.held = t.held /\ (v.hit <=> t.hit) /\ v.todo = {g \in Gens : Owned(g, t.s)}
    BY <1>1, <1>2 DEF TxnRow
  <2>2. t.pc = "source" /\ Goto(c, v)
    BY <1>1, <1>2, <1>5 DEF DeleteSourceRow, At, Step
  <2> HIDE DEF v
  <2>3. CallOK(v)
    BY <1>2, <1>5, <2>1, <2>2 DEF CallOK, DeleteOK
  <2>4. Wanted(c) = {<<t.s, "update">>}
    BY <1>1, <1>2, <2>2, WantedIs
  <2>6. t.held = {}
    BY <1>2, <2>2, LocksAre
  <2>7. LocksOf(v) = v.held \cup {<<t.s, "update">>}
    BY <1>2, <2>1, <2>6, LocksAre
  <2>5. {<<t.s, "update">>} \in SUBSET (Rows \X LockModes)
    BY <1>2, OneLock DEF Rows, LockModes
  <2> QED BY <1>1, <1>2, <2>1, <2>2, <2>3, <2>4, <2>5, <2>7, OwnGoto
<1>6. CASE DeleteSourceRow(c) /\ ~Live(t.s)
  BY <1>1, <1>2, <1>6, OwnEnd DEF DeleteSourceRow
<1>7. CASE DeleteCascade(c)
  <2> DEFINE v == [t EXCEPT !.pc = "commit"]
  <2>1. /\ v \in TxnRow /\ v.op = "delete" /\ v.pc = "commit"
        /\ v.s = t.s /\ v.g = t.g /\ v.n = t.n /\ v.B = t.B /\ v.todo = t.todo /\ v.at = t.at /\ v.held = t.held /\ (v.hit <=> t.hit)
    BY <1>1, <1>2 DEF TxnRow
  <2>2. t.pc = "cascade" /\ Goto(c, v)
    BY <1>1, <1>2, <1>7 DEF DeleteCascade, At, Step
  <2> HIDE DEF v
  <2>3. CallOK(v)
    BY <1>2, <2>1, <2>2 DEF CallOK, DeleteOK
  <2>4. Wanted(c) = {<<g, "update">> : g \in t.todo}
    BY <1>1, <1>2, <2>2, WantedIs
  <2>6. t.held = {<<t.s, "update">>}
    BY <1>2, <2>2, LocksAre
  <2>7. LocksOf(v) = v.held \cup {<<g, "update">> : g \in t.todo}
    BY <1>2, <2>1, <2>6, LocksAre
  <2>5. {<<g, "update">> : g \in t.todo} \in SUBSET (Rows \X LockModes)
    BY <1>1, LockIn DEF Rows, LockModes, TxnRow
  <2> QED BY <1>1, <1>2, <2>1, <2>2, <2>3, <2>4, <2>5, <2>7, OwnGoto
<1> QED BY <1>3, <1>4, <1>5, <1>6, <1>7

(* lock_active_generations and the release of its lease.                   *)
LEMMA LeaseStatements ==
  ASSUME TxnIInv, NEW c \in Sessions, LeaseLock(c) \/ LeaseRelease(c)
  PROVE  \E w : OwnStep(c, w)
<1>1. PICK t \in TxnRow : t = txn[c] /\ SessionOK(t)
  BY SessionNow
<1>2. /\ t.op = "lease" /\ t.held = LocksOf(t) /\ t.at <= now /\ LeaseOK(t)
      /\ t.s \in Sources /\ t.g \in Gens /\ Granted(c) /\ UNCHANGED vars
  BY <1>1 DEF SessionOK, LeaseOK, LeaseLock, LeaseRelease, At
<1>3. CASE LeaseLock(c) /\ Live(t.s) /\ sources[t.s].active = t.g
  <2> DEFINE v == [t EXCEPT !.pc = "held"]
  <2>1. /\ v \in TxnRow /\ v.op = "lease" /\ v.pc = "held"
        /\ v.s = t.s /\ v.g = t.g /\ v.n = t.n /\ v.B = t.B /\ v.todo = t.todo /\ v.at = t.at /\ v.held = t.held /\ (v.hit <=> t.hit)
    BY <1>1, <1>2 DEF TxnRow
  <2>2. t.pc = "lock" /\ Goto(c, v)
    BY <1>1, <1>2, <1>3 DEF LeaseLock, At, Step
  <2> HIDE DEF v
  <2>3. CallOK(v)
    BY <1>2, <1>3, <2>1 DEF CallOK, LeaseOK
  <2>4. Wanted(c) = {<<t.s, "share">>}
    BY <1>1, <1>2, <2>2, WantedIs
  <2>6. t.held = {}
    BY <1>2, <2>2, LocksAre
  <2>7. LocksOf(v) = v.held \cup {<<t.s, "share">>}
    BY <1>2, <2>1, <2>6, LocksAre
  <2>5. {<<t.s, "share">>} \in SUBSET (Rows \X LockModes)
    BY <1>2, OneLock DEF Rows, LockModes
  <2> QED BY <1>1, <1>2, <2>1, <2>2, <2>3, <2>4, <2>5, <2>7, OwnGoto
<1>4. CASE LeaseLock(c) /\ ~(Live(t.s) /\ sources[t.s].active = t.g)
  BY <1>1, <1>2, <1>4, OwnEnd DEF LeaseLock
<1>5. CASE LeaseRelease(c)
  BY <1>1, <1>2, <1>5, OwnEnd DEF LeaseRelease
<1> QED BY <1>3, <1>4, <1>5

(* A failing build locks its row only if it was still building.            *)
LEMMA FailLocksAre ==
  ASSUME NEW t
  PROVE  /\ t.op \in {"fail", "stale"} /\ t.pc = "mark" => LocksOf(t) = {}
         /\ t.op \in {"fail", "stale"} /\ t.pc \in {"restore", "restoring", "skipped"} /\ t.hit
              => LocksOf(t) = {<<t.g, "no key update">>}
         /\ t.op \in {"fail", "stale"} /\ t.pc \in {"restore", "restoring", "skipped"} /\ ~t.hit
              => LocksOf(t) = {}
         /\ t.op \in {"fail", "stale"} /\ t.pc = "commit" /\ t.hit
              => LocksOf(t) = {<<t.g, "no key update">>} \cup {<<t.s, "no key update">>}
         /\ t.op \in {"fail", "stale"} /\ t.pc = "commit" /\ ~t.hit
              => LocksOf(t) = {<<t.s, "no key update">>}
<1> DEFINE D == {y \in {t.g} : t.hit} \cup {y \in {t.s} : t.pc = "commit"}
<1>1. t.op \in {"fail", "stale"} /\ t.pc = "mark" => LocksOf(t) = {}
  BY DEF LocksOf
<1>2. t.op \in {"fail", "stale"} /\ t.pc \in {"restore", "restoring", "skipped", "commit"}
        => LocksOf(t) = {<<x, "no key update">> : x \in D}
  BY DEF LocksOf
<1>3. /\ t.pc # "commit" => D = {y \in {t.g} : t.hit}
      /\ t.pc = "commit" => D = {y \in {t.g} : t.hit} \cup {t.s}
  OBVIOUS
<1>4. /\ t.hit => {y \in {t.g} : t.hit} = {t.g}
      /\ ~t.hit => {y \in {t.g} : t.hit} = {}
  OBVIOUS
<1> QED BY <1>1, <1>2, <1>3, <1>4

(* Whoever fails the one build of a source finds no other.                 *)
LEMMA OwnBuildOnly ==
  ASSUME TablesOK, NEW s \in Sources, NEW g \in Gens,
         generations[g].source_id = s, generations[g].state = "building"
  PROVE  Building(s) \ {g} = {}
<1>1. g \in Building(s)
  BY DEF Building, Owned, Exists
<1> QED BY <1>1 DEF TablesOK, TablesAgree, OneOwner

(* mark_failed, and one iteration of fail_stale_builds.                    *)
LEMMA FailStatements ==
  ASSUME TxnIInv, NEW c \in Sessions, FailMark(c) \/ FailRestore(c) \/ FailRestoring(c)
  PROVE  \E w : OwnStep(c, w)
<1>1. PICK t \in TxnRow : t = txn[c] /\ SessionOK(t)
  BY SessionNow
<1>2. /\ t.op \in {"fail", "stale"} /\ t.held = LocksOf(t) /\ t.at <= now /\ FailOK(t)
      /\ t.s \in Sources /\ t.g \in Gens /\ generations[t.g].source_id = t.s
      /\ Granted(c) /\ UNCHANGED vars
  BY <1>1 DEF SessionOK, FailOK, FailMark, FailRestore, FailRestoring, At
<1>3. CASE FailMark(c) /\ generations[t.g].state = "building"
  <2> DEFINE v == [t EXCEPT !.pc = "restore", !.hit = (generations[t.g].state = "building")]
  <2>1. /\ v \in TxnRow /\ v.op = t.op /\ v.pc = "restore"
        /\ v.s = t.s /\ v.g = t.g /\ v.n = t.n /\ v.B = t.B /\ v.todo = t.todo /\ v.at = t.at /\ v.held = t.held /\ (v.hit <=> generations[t.g].state = "building")
    BY <1>1, <1>2 DEF TxnRow
  <2>2. t.pc = "mark" /\ Goto(c, v)
    BY <1>1, <1>2, <1>3 DEF FailMark, At, Step
  <2> HIDE DEF v
  <2>3. CallOK(v)
    BY <1>2, <1>3, <2>1 DEF CallOK, FailOK
  <2>4. Wanted(c) = {<<t.g, "no key update">>}
    BY <1>1, <1>2, <1>3, <2>2, WantedIs
  <2>6. t.held = {}
    BY <1>2, <2>2, FailLocksAre
  <2>7. LocksOf(v) = v.held \cup {<<t.g, "no key update">>}
    BY <1>2, <1>3, <2>1, <2>6, FailLocksAre
  <2>5. {<<t.g, "no key update">>} \in SUBSET (Rows \X LockModes)
    BY <1>2, OneLock DEF Rows, LockModes
  <2> QED BY <1>1, <1>2, <2>1, <2>2, <2>3, <2>4, <2>5, <2>7, OwnGoto
<1>4. CASE FailMark(c) /\ ~(generations[t.g].state = "building") /\ t.op = "stale"
  BY <1>1, <1>2, <1>4, OwnEnd DEF FailMark
<1>5. CASE FailMark(c) /\ ~(generations[t.g].state = "building") /\ t.op # "stale"
  <2> DEFINE v == [t EXCEPT !.pc = "restore", !.hit = (generations[t.g].state = "building")]
  <2>1. /\ v \in TxnRow /\ v.op = t.op /\ v.pc = "restore"
        /\ v.s = t.s /\ v.g = t.g /\ v.n = t.n /\ v.B = t.B /\ v.todo = t.todo /\ v.at = t.at /\ v.held = t.held /\ (v.hit <=> generations[t.g].state = "building")
    BY <1>1, <1>2 DEF TxnRow
  <2>2. t.pc = "mark" /\ Goto(c, v)
    BY <1>1, <1>2, <1>5 DEF FailMark, At, Step
  <2> HIDE DEF v
  <2>3. CallOK(v)
    BY <1>2, <1>5, <2>1 DEF CallOK, FailOK
  <2>4. Wanted(c) = {}
    BY <1>1, <1>2, <1>5, <2>2, WantedIs
  <2>6. t.held = {}
    BY <1>2, <2>2, FailLocksAre
  <2>7. LocksOf(v) = v.held \cup {}
    BY <1>2, <1>5, <2>1, <2>6, FailLocksAre
  <2>5. {} \in SUBSET (Rows \X LockModes)
    OBVIOUS
  <2> QED BY <1>1, <1>2, <2>1, <2>2, <2>3, <2>4, <2>5, <2>7, OwnGoto
<1>6. CASE FailRestore(c) /\ Building(t.s) \ (IF t.hit THEN {t.g} ELSE {}) = {}
  <2>0. TRUE
    OBVIOUS
  <2> DEFINE v == [t EXCEPT !.pc = "restoring"]
  <2>1. /\ v \in TxnRow /\ v.op = t.op /\ v.pc = "restoring"
        /\ v.s = t.s /\ v.g = t.g /\ v.n = t.n /\ v.B = t.B /\ v.todo = t.todo /\ v.at = t.at /\ v.held = t.held /\ (v.hit <=> t.hit)
    BY <1>1, <1>2 DEF TxnRow
  <2>2. t.pc = "restore" /\ Goto(c, v)
    BY <1>1, <1>2, <1>6 DEF FailRestore, At, Step
  <2> HIDE DEF v
  <2>3. CallOK(v)
    BY <1>2, <2>0, <2>1, <2>2 DEF CallOK, FailOK
  <2>4. Wanted(c) = {}
    BY <1>1, <1>2, <2>2, WantedIs
  <2>7. LocksOf(v) = v.held \cup {}
    BY <1>2, <2>1, <2>2, FailLocksAre
  <2>5. {} \in SUBSET (Rows \X LockModes)
    OBVIOUS
  <2> QED BY <1>1, <1>2, <2>1, <2>2, <2>3, <2>4, <2>5, <2>7, OwnGoto
<1>7. CASE FailRestore(c) /\ Building(t.s) \ (IF t.hit THEN {t.g} ELSE {}) # {}
  <2>0. ~t.hit
    BY <1>1, <1>2, <1>7, OwnBuildOnly DEF FailRestore, At, FailOK, TxnIInv
  <2> DEFINE v == [t EXCEPT !.pc = "skipped"]
  <2>1. /\ v \in TxnRow /\ v.op = t.op /\ v.pc = "skipped"
        /\ v.s = t.s /\ v.g = t.g /\ v.n = t.n /\ v.B = t.B /\ v.todo = t.todo /\ v.at = t.at /\ v.held = t.held /\ (v.hit <=> t.hit)
    BY <1>1, <1>2 DEF TxnRow
  <2>2. t.pc = "restore" /\ Goto(c, v)
    BY <1>1, <1>2, <1>7 DEF FailRestore, At, Step
  <2> HIDE DEF v
  <2>3. CallOK(v)
    BY <1>2, <2>0, <2>1, <2>2 DEF CallOK, FailOK
  <2>4. Wanted(c) = {}
    BY <1>1, <1>2, <2>2, WantedIs
  <2>7. LocksOf(v) = v.held \cup {}
    BY <1>2, <2>1, <2>2, FailLocksAre
  <2>5. {} \in SUBSET (Rows \X LockModes)
    OBVIOUS
  <2> QED BY <1>1, <1>2, <2>1, <2>2, <2>3, <2>4, <2>5, <2>7, OwnGoto
<1>8. CASE FailRestoring(c)
  <2> DEFINE v == [t EXCEPT !.pc = "commit"]
  <2>1. /\ v \in TxnRow /\ v.op = t.op /\ v.pc = "commit"
        /\ v.s = t.s /\ v.g = t.g /\ v.n = t.n /\ v.B = t.B /\ v.todo = t.todo /\ v.at = t.at /\ v.held = t.held /\ (v.hit <=> t.hit)
    BY <1>1, <1>2 DEF TxnRow
  <2>2. t.pc = "restoring" /\ Goto(c, v)
    BY <1>1, <1>2, <1>8 DEF FailRestoring, At, Step
  <2> HIDE DEF v
  <2>3. CallOK(v)
    BY <1>2, <2>1, <2>2 DEF CallOK, FailOK
  <2>4. Wanted(c) = {<<t.s, "no key update">>}
    BY <1>1, <1>2, <2>2, WantedIs
  <2>7. LocksOf(v) = v.held \cup {<<t.s, "no key update">>}
    BY <1>2, <2>1, <2>2, FailLocksAre
  <2>5. {<<t.s, "no key update">>} \in SUBSET (Rows \X LockModes)
    BY <1>2, OneLock DEF Rows, LockModes
  <2> QED BY <1>1, <1>2, <2>1, <2>2, <2>3, <2>4, <2>5, <2>7, OwnGoto
<1>9. FailMark(c) \/ FailRestore(c) \/ FailRestoring(c)
  OBVIOUS
<1> QED BY <1>3, <1>4, <1>5, <1>6, <1>7, <1>8, <1>9

(* A session opens a transaction, or loses the one it had.                 *)
LEMMA BeginRelies ==
  ASSUME TxnIInv, NEW c \in Sessions, NEW v \in TxnRow, UNCHANGED vars,
         txn' = [txn EXCEPT ![c] = v], v.held = {}, LocksOf(v) = {}, v.at <= now, CallOK(v)
  PROVE  \E w : OwnStep(c, w)
<1>1. OwnStep(c, v)
  BY OwnCall DEF OwnStep, Relies
<1> QED BY <1>1

LEMMA Opened ==
  ASSUME TxnIInv, NEW c \in Sessions, NEW op, NEW pc, NEW s \in Sources, NEW g \in Gens \cup {Null},
         Begin(c, op, pc, s, g),
         \/ op = "publish" /\ pc = "lock" /\ g \in Gens /\ generations[g].source_id = s
         \/ op = "fail" /\ pc = "mark" /\ g \in Gens /\ generations[g].source_id = s
         \/ op = "stale" /\ pc = "mark" /\ g \in Gens /\ generations[g].source_id = s
                          /\ OlderThan(g, StaleAfter)
         \/ op = "lease" /\ pc = "lock" /\ g \in Gens
         \/ op = "rollback" /\ pc = "lock"
         \/ op = "reclaim" /\ pc = "lock"
         \/ op = "delete" /\ pc = "chunks"
  PROVE  \E w : OwnStep(c, w)
<1> DEFINE v == [Idle EXCEPT !.op = op, !.pc = pc, !.s = s, !.g = g, !.at = now]
<1>1. now \in Nat
  BY DEF TxnIInv, TablesOK, IndexInv, TypeOK
<1>2. op \in AllOps
  BY DEF AllOps
<1>3. pc \in {"lock", "mark", "chunks"}
  OBVIOUS
<1>4. /\ v \in TxnRow /\ v.op = op /\ v.pc = pc /\ v.s = s /\ v.g = g /\ v.at = now /\ v.held = {}
  BY <1>1, <1>2, <1>3, IdleRow DEF TxnRow
<1>5. txn' = [txn EXCEPT ![c] = v] /\ UNCHANGED vars
  BY DEF Begin
<1> HIDE DEF v
<1>10. v.at <= now
  BY <1>1, <1>4
<1>6. LocksOf(v) = {}
  BY <1>4 DEF LocksOf
<1>7. CASE op = "publish"
  <2>1. generations[g].created_at <= now
    BY <1>7 DEF TxnIInv, TablesOK, ClaimedInThePast
  <2>2. PublishOK(v)
    BY <1>4, <1>7, <2>1 DEF PublishOK
  <2>3. CallOK(v)
    BY <1>4, <1>7, <2>2 DEF CallOK
  <2> QED BY <1>4, <1>5, <1>6, <1>10, <2>3, BeginRelies
<1>8. CASE op \in {"fail", "stale"}
  <2>1. FailOK(v)
    BY <1>4, <1>8 DEF FailOK
  <2>3. CallOK(v)
    BY <1>4, <1>8, <2>1 DEF CallOK
  <2> QED BY <1>4, <1>5, <1>6, <1>10, <2>3, BeginRelies
<1>9. CASE op \in {"rollback", "reclaim", "delete", "lease"}
  <2>1. RollbackOK(v) /\ ReclaimOK(v) /\ DeleteOK(v) /\ LeaseOK(v)
    BY <1>4, <1>9 DEF RollbackOK, ReclaimOK, DeleteOK, LeaseOK
  <2>3. CallOK(v)
    BY <1>4, <1>9, <2>1 DEF CallOK
  <2> QED BY <1>4, <1>5, <1>6, <1>10, <2>3, BeginRelies
<1> QED BY <1>7, <1>8, <1>9

LEMMA BatchOpened ==
  ASSUME TxnIInv, NEW c \in Sessions, NEW s \in Sources, NEW g \in Gens,
         NEW B \in (SUBSET Positions) \ {{}}, BatchBegin(c, g, s, B)
  PROVE  \E w : OwnStep(c, w)
<1> DEFINE v == [Idle EXCEPT !.op = "batch", !.pc = "lock", !.s = s, !.g = g, !.B = B]
<1>1. now \in Nat
  BY DEF TxnIInv, TablesOK, IndexInv, TypeOK
<1>4. /\ v \in TxnRow /\ v.op = "batch" /\ v.pc = "lock" /\ v.s = s /\ v.g = g /\ v.at = 0
      /\ v.held = {} /\ v.B = B
  BY IdleRow DEF TxnRow, AllOps
<1>5. txn' = [txn EXCEPT ![c] = v] /\ UNCHANGED vars
  BY DEF BatchBegin
<1> HIDE DEF v
<1>6. LocksOf(v) = {} /\ BatchOK(v)
  BY <1>4 DEF LocksOf, BatchOK
<1>7. CallOK(v) /\ v.at <= now
  BY <1>1, <1>4, <1>6 DEF CallOK
<1> QED BY <1>4, <1>5, <1>6, <1>7, BeginRelies

LEMMA StartRelies ==
  ASSUME TxnIInv, NEW c \in Sessions, Start(c) \/ Abort(c)
  PROVE  \E w : OwnStep(c, w)
<1>1. CASE Abort(c)
  BY <1>1, OwnEnd DEF Abort
<1>2. ASSUME NEW g \in Gens, StaleSelect(c, g) PROVE \E w : OwnStep(c, w)
  <2>1. generations[g].source_id \in Sources
    BY <1>2 DEF StaleSelect, TxnIInv, TablesOK, TablesAgree, NoOrphans, Owned, Exists
  <2> QED BY <1>2, <2>1, Opened DEF StaleSelect
<1>3. CASE Start(c)
  BY <1>2, <1>3, Opened, BatchOpened DEF Start
<1> QED BY <1>1, <1>3

-----------------------------------------------------------------------------
(* Locks exclude each other, and a session that keeps its row keeps what   *)
(* it relies on.                                                           *)

LEMMA ConflictsMutual ==
  ASSUME NEW a \in LockModes, NEW b \in LockModes, a \in Conflicts(b)
  PROVE  b \in Conflicts(a)
BY DEF LockModes, Conflicts

LEMMA Excluded ==
  ASSUME LocksExclude, NEW c \in Sessions, NEW d \in Sessions \ {c}, NEW x, NEW m, NEW n,
         <<x, m>> \in txn[c].held, n \in Conflicts(m)
  PROVE  <<x, n>> \notin txn[d].held
BY DEF LocksExclude

LEMMA LocksKept ==
  ASSUME TxnIInv, NEW c \in Sessions, NEW u \in TxnRow, txn' = [txn EXCEPT ![c] = u],
         u.held = {} \/ (Granted(c) /\ u.held = txn[c].held \cup Wanted(c))
  PROVE  txn' \in [Sessions -> TxnRow] /\ LocksExclude'
<1>1. txn \in [Sessions -> TxnRow]
  BY DEF TxnIInv, TxnTypeOK, TxnRow
<1>2. txn' \in [Sessions -> TxnRow]
  BY <1>1
<1>3. \A d \in Sessions : /\ txn'[d] = IF d = c THEN u ELSE txn[d]
                          /\ \A l \in txn'[d].held : l[2] \in LockModes
  <2>1. \A d \in Sessions : txn'[d].held \in SUBSET (Rows \X LockModes)
    BY <1>2 DEF TxnRow
  <2> QED BY <1>1, <2>1
<1>4. ASSUME NEW d \in Sessions \ {c}, NEW l \in u.held, NEW m \in txn[d].held, l[1] = m[1]
      PROVE  m[2] \notin Conflicts(l[2])
  <2>1. CASE l \in txn[c].held
    BY <1>4, <2>1 DEF TxnIInv, LocksExclude
  <2>2. CASE Granted(c) /\ l \in Wanted(c)
    BY <1>4, <2>2 DEF Granted, CanLock, Blockers
  <2> QED BY <1>4, <2>1, <2>2
<1>5. ASSUME NEW a \in Sessions, NEW b \in Sessions, a # b,
             NEW l \in txn'[a].held, NEW m \in txn'[b].held, l[1] = m[1]
      PROVE  m[2] \notin Conflicts(l[2])
  <2>1. l[2] \in LockModes /\ m[2] \in LockModes
    BY <1>3
  <2>2. CASE a # c /\ b # c
    BY <1>3, <1>5, <2>2 DEF TxnIInv, LocksExclude
  <2>3. CASE a = c
    BY <1>3, <1>4, <1>5, <2>3
  <2>4. CASE b = c
    <3>1. l[2] \notin Conflicts(m[2])
      BY <1>3, <1>4, <1>5, <2>4
    <3> QED BY <2>1, <3>1, ConflictsMutual
  <2> QED BY <2>2, <2>3, <2>4
<1> QED BY <1>2, <1>5 DEF LocksExclude

LEMMA OthersKept ==
  ASSUME TxnIInv, TablesOK', NEW d \in Sessions, txn'[d] = txn[d], Allows(txn[d])
  PROVE  SessionOK(txn[d])'
<1>1. PICK t \in TxnRow : t = txn[d] /\ SessionOK(t)
  BY SessionNow
<1>2. SessionOK(t)'
  BY <1>1, SessionKept DEF TxnIInv
<1> QED BY <1>1, <1>2

LEMMA MoveKeepsAll ==
  ASSUME TxnIInv, [Next]_vars, NEW c \in Sessions, NEW u \in TxnRow,
         txn' = [txn EXCEPT ![c] = u], SessionOK(u)',
         u.held = {} \/ (Granted(c) /\ u.held = txn[c].held \cup Wanted(c)),
         \A d \in Sessions \ {c} : Allows(txn[d])
  PROVE  TxnIInv'
<1>1. TablesOK'
  BY TablesKept DEF TxnIInv
<1>2. txn' \in [Sessions -> TxnRow] /\ LocksExclude'
  BY LocksKept
<1>3. TxnTypeOK'
  BY <1>1, <1>2 DEF TablesOK, IndexInv, TxnTypeOK, TxnRow
<1>4. ASSUME NEW d \in Sessions PROVE SessionOK(txn[d])'
  <2>1. CASE d = c
    <3>1. txn'[d] = u
      BY <2>1, SessionNow
    <3> QED BY <3>1
  <2>2. CASE d # c
    <3>1. txn'[d] = txn[d]
      BY <2>2, SessionNow
    <3> QED BY <1>1, <2>2, <3>1, OthersKept
  <2> QED BY <2>1, <2>2
<1> QED BY <1>1, <1>2, <1>3, <1>4 DEF TxnIInv

LEMMA QuietAllows ==
  ASSUME TxnIInv, UNCHANGED vars, NEW t
  PROVE  Allows(t)
<1>1. now \in Nat /\ \A g \in Gens : generations[g].created_at \in Nat
  BY DEF TxnIInv, TablesOK, IndexInv, TypeOK, GenerationRow
<1> QED BY <1>1 DEF Allows, SameFor, vars, Owned, Exists, Live

LEMMA OwnStepKeepsAll ==
  ASSUME TxnIInv, NEW c \in Sessions, NEW u, OwnStep(c, u)
  PROVE  TxnIInv'
<1>1. SessionOK(u)'
  <2>1. TablesOK /\ TablesOK'
    BY TablesKept DEF TxnIInv, OwnStep
  <2> QED BY <2>1, QuietAllows, SessionKept DEF OwnStep, Relies
<1>2. [Next]_vars /\ \A d \in Sessions \ {c} : Allows(txn[d])
  BY QuietAllows DEF OwnStep
<1> QED BY <1>1, <1>2, MoveKeepsAll DEF OwnStep, Relies

LEMMA EndKeepsAll ==
  ASSUME TxnIInv, [Next]_vars, NEW c \in Sessions, End(c),
         \A d \in Sessions \ {c} : Allows(txn[d])
  PROVE  TxnIInv'
<1>1. TablesOK'
  BY TablesKept DEF TxnIInv
<1>2. Idle.at <= now'
  BY <1>1, IdleRow DEF TablesOK, IndexInv, TypeOK
<1>3. SessionOK(Idle)'
  BY <1>2, IdleRow
  DEF SessionOK, LocksOf, BatchOK, PublishOK, FailOK, RollbackOK, ReclaimOK, DeleteOK, LeaseOK
<1> QED BY <1>3, IdleRow, MoveKeepsAll DEF End

-----------------------------------------------------------------------------
(* The commits: each is one call of IndexGenerations, and leaves alone     *)
(* what the locks of the other sessions protect.                           *)

(* A step touches the generations of G and the sources of R only, and t    *)
(* has locked none of them.                                                *)
TouchesUnlocked(t, G, R) ==
  /\ now <= now'
  /\ \A g \in Gens : /\ generations'[g].source_id = generations[g].source_id
                     /\ generations'[g].created_at <= generations[g].created_at
                     /\ generations'[g].state = "building" => generations[g].state = "building"
  /\ \A g \in Gens : g \notin G => generations'[g] = generations[g] /\ chunks'[g] = chunks[g]
  /\ \A g \in G : \A m \in LockModes : m # "key share" => <<g, m>> \notin t.held
  /\ \A r \in Sources : r \notin R =>
        /\ sources'[r].active = sources[r].active /\ sources'[r].row = sources[r].row
        /\ \A g \in Gens : SameFor(g, r)
  /\ \A r \in R : <<r, "share">> \notin t.held /\ <<r, "update">> \notin t.held

LEMMA AllowsWhere ==
  ASSUME NEW t, NEW G, NEW R, TouchesUnlocked(t, G, R)
  PROVE  Allows(t)
<1> USE DEF TouchesUnlocked
<1>1. \A g \in Gens, m \in LockModes :
        m # "key share" /\ <<g, m>> \in t.held => generations'[g] = generations[g] /\ chunks'[g] = chunks[g]
  OBVIOUS
<1>2. "update" \in LockModes /\ "update" # "key share"
  BY DEF LockModes
<1>3. \A r \in Sources, m \in {"share", "update"} : <<r, m>> \in t.held =>
         /\ sources'[r].active = sources[r].active /\ (Live(r) => Live(r)')
         /\ \A g \in Gens : SameFor(g, r)
  BY DEF Live
<1>4. /\ \A g \in Gens, m \in LockModes :
           Exists(g) /\ m # "key share" /\ <<g, m>> \in t.held
             => generations'[g].state = generations[g].state
      /\ \A g \in Gens : Exists(g) /\ <<g, "update">> \in t.held
             => generations'[g] = generations[g] /\ chunks'[g] = chunks[g]
  BY <1>1, <1>2
<1> QED BY <1>3, <1>4 DEF Allows

LEMMA BatchCommits ==
  ASSUME TxnIInv, NEW c \in Sessions, BatchCommit(c)
  PROVE  Next /\ \A d \in Sessions \ {c} : Allows(txn[d])
<1>1. PICK t \in TxnRow : t = txn[c] /\ SessionOK(t)
  BY SessionNow
<1>2. /\ t.op = "batch" /\ t.pc = "commit" /\ t.held = LocksOf(t) /\ BatchOK(t)
      /\ t.s \in Sources /\ t.g \in Gens /\ t.B \in SUBSET Positions /\ t.B # {} /\ t.g \in Building(t.s)
  BY <1>1 DEF SessionOK, BatchOK, BatchCommit, At, TxnRow
<1>3. /\ chunks' = [chunks EXCEPT ![t.g] = @ \cup t.B]
      /\ UNCHANGED <<now, sources, generations>>
  BY <1>1 DEF BatchCommit
<1>4. StoreChunkBatch(t.g, t.s, t.B)
  BY <1>2, <1>3 DEF StoreChunkBatch, Building
<1>5. Next
  BY <1>2, <1>4 DEF Next
<1>6. ASSUME NEW d \in Sessions \ {c} PROVE Allows(txn[d])
  <2>0. t.held = {<<t.g, "share">>} \cup {<<t.s, "key share">>}
    BY <1>2, LocksAre
  <2>1. <<t.g, "share">> \in txn[c].held
    BY <1>1, <2>0
  <2>2. <<t.g, "update">> \notin txn[d].held
    BY <2>1, Excluded DEF TxnIInv, Conflicts
  <2>3. now \in Nat /\ \A g \in Gens : generations[g].created_at \in Nat
    BY DEF TxnIInv, TablesOK, IndexInv, TypeOK, GenerationRow
  <2>4. \A g \in Gens \ {t.g} : chunks'[g] = chunks[g]
    BY <1>3 DEF TxnIInv, TablesOK, IndexInv, TypeOK
  <2> QED BY <1>3, <2>2, <2>3, <2>4 DEF Allows, SameFor, Owned, Exists, Live
<1> QED BY <1>5, <1>6

LEMMA PublishCommits ==
  ASSUME TxnIInv, NEW c \in Sessions, PublishCommit(c)
  PROVE  Next /\ \A d \in Sessions \ {c} : Allows(txn[d])
<1>1. PICK t \in TxnRow : t = txn[c] /\ SessionOK(t)
  BY SessionNow
<1>2. /\ t.op = "publish" /\ t.pc = "commit" /\ t.held = LocksOf(t) /\ t.at \in Nat
      /\ t.s \in Sources /\ t.g \in Gens /\ t.at <= now
      /\ generations[t.g].created_at <= t.at
      /\ Publishable(t.g, t.s) /\ t.n = Cardinality(chunks[t.g])
  BY <1>1 DEF SessionOK, PublishOK, PublishCommit, At, TxnRow
<1>3. /\ generations' = [generations EXCEPT ![t.g].state = "published",
                                            ![t.g].published_at = t.at,
                                            ![t.g].stored = Cardinality(chunks[t.g])]
      /\ sources' = [sources EXCEPT ![t.s].active = t.g,
                                    ![t.s].chunk_count = Cardinality(chunks[t.g]),
                                    ![t.s].status = "ready"]
      /\ UNCHANGED <<now, chunks>>
  BY <1>1, <1>2 DEF PublishCommit
<1>4. /\ now \in Nat /\ now <= MaxTime
      /\ \A g \in Gens : generations[g] \in GenerationRow /\ generations[g].created_at \in Nat
      /\ \A r \in Sources : sources[r] \in SourceRow
      /\ generations \in [Gens -> GenerationRow] /\ sources \in [Sources -> SourceRow]
  BY DEF TxnIInv, TablesOK, IndexInv, TypeOK, GenerationRow
<1>5. Next
  <2>1. t.at \in generations[t.g].created_at .. now /\ t.at \in 0 .. MaxTime
    BY <1>2, <1>4, TimeAssumption
  <2>2. Publish(t.g, t.s, t.at)
    BY <1>2, <1>3, <2>1 DEF Publish
  <2> QED BY <1>2, <2>1, <2>2 DEF Next
<1>6. /\ \A g \in Gens : g # t.g => generations'[g] = generations[g]
      /\ generations'[t.g].state = "published" /\ generations[t.g].state = "building"
      /\ generations'[t.g].source_id = generations[t.g].source_id /\ generations[t.g].source_id = t.s
      /\ generations'[t.g].created_at = generations[t.g].created_at
      /\ \A r \in Sources : r # t.s => sources'[r] = sources[r]
  BY <1>2, <1>3, <1>4 DEF GenerationRow, Publishable, Owned
<1>7. ASSUME NEW d \in Sessions \ {c} PROVE Allows(txn[d])
  <2>0. t.held = {<<t.g, "update">>} \cup {<<t.s, "no key update">>}
    BY <1>2, LocksAre
  <2>1. <<t.g, "update">> \in txn[c].held /\ <<t.s, "no key update">> \in txn[c].held
    BY <1>1, <2>0
  <2>2. \A m \in LockModes : <<t.g, m>> \notin txn[d].held
    BY <2>1, Excluded DEF TxnIInv, Conflicts
  <2>3. \A m \in {"share", "update"} : <<t.s, m>> \notin txn[d].held
    BY <2>1, Excluded DEF TxnIInv, Conflicts
  <2>5. \A r \in Sources : r # t.s => \A g \in Gens : SameFor(g, r)
    BY <1>6 DEF SameFor, Owned, Exists
  <2>6. \A g \in Gens :
           /\ generations'[g].source_id = generations[g].source_id
           /\ generations'[g].created_at <= generations[g].created_at
           /\ generations'[g].state = "building" => generations[g].state = "building"
    BY <1>4, <1>6
  <2>7. \A r \in Sources : r \notin {t.s} =>
           /\ sources'[r].active = sources[r].active /\ sources'[r].row = sources[r].row
           /\ \A g \in Gens : SameFor(g, r)
    BY <1>6, <2>5
  <2>8. now <= now'
    BY <1>3, <1>4
  <2>9. \A g \in Gens : g \notin {t.g} => generations'[g] = generations[g] /\ chunks'[g] = chunks[g]
    BY <1>3, <1>6
  <2>11. \A g \in {t.g} : \A m \in LockModes : m # "key share" => <<g, m>> \notin txn[d].held
    BY <2>2
  <2>12. \A r \in {t.s} : <<r, "share">> \notin txn[d].held /\ <<r, "update">> \notin txn[d].held
    BY <2>3
  <2>10. TouchesUnlocked(txn[d], {t.g}, {t.s})
    BY <2>6, <2>7, <2>8, <2>9, <2>11, <2>12 DEF TouchesUnlocked
  <2> QED BY <2>10, AllowsWhere
<1> QED BY <1>5, <1>7

LEMMA FailCommits ==
  ASSUME TxnIInv, NEW c \in Sessions, FailCommit(c)
  PROVE  [Next]_vars /\ \A d \in Sessions \ {c} : Allows(txn[d])
<1>1. PICK t \in TxnRow : t = txn[c] /\ SessionOK(t)
  BY SessionNow
<1>2. /\ t.op \in {"fail", "stale"} /\ t.pc \in {"commit", "skipped"} /\ t.held = LocksOf(t)
      /\ t.s \in Sources /\ t.g \in Gens /\ generations[t.g].source_id = t.s
      /\ generations[t.g].state = "building" <=> t.hit
      /\ t.hit => t.pc = "commit"
      /\ t.op = "stale" => OlderThan(t.g, StaleAfter) /\ t.hit
  BY <1>1 DEF SessionOK, FailOK, FailCommit
<1>3. /\ t.hit => generations' = [generations EXCEPT ![t.g].state = "failed"]
      /\ ~t.hit => generations' = generations
      /\ t.pc = "commit" /\ Live(t.s)
           => sources' = [sources EXCEPT ![t.s].status = DerivedStatus(t.s)]
      /\ ~(t.pc = "commit" /\ Live(t.s)) => sources' = sources
      /\ UNCHANGED <<now, chunks>>
  BY <1>1 DEF FailCommit
<1>4. /\ now \in Nat
      /\ \A g \in Gens : generations[g] \in GenerationRow /\ generations[g].created_at \in Nat
      /\ generations \in [Gens -> GenerationRow] /\ sources \in [Sources -> SourceRow]
  BY DEF TxnIInv, TablesOK, IndexInv, TypeOK, GenerationRow
<1>5. t.hit => Live(t.s)
  BY <1>2, OwnersLive DEF Owned, Exists, TxnIInv
<1>6. /\ \A g \in Gens : g # t.g => generations'[g] = generations[g]
      /\ generations'[t.g].state \in {"failed", generations[t.g].state}
      /\ t.hit => generations'[t.g].state = "failed"
      /\ generations'[t.g].source_id = generations[t.g].source_id
      /\ generations'[t.g].created_at = generations[t.g].created_at
      /\ \A r \in Sources : sources'[r].active = sources[r].active /\ sources'[r].row = sources[r].row
  <2>1. CASE t.hit
    BY <1>2, <1>3, <1>4, <2>1 DEF GenerationRow, SourceRow
  <2>2. CASE ~t.hit
    BY <1>2, <1>3, <1>4, <2>2 DEF GenerationRow, SourceRow
  <2> QED BY <2>1, <2>2
<1>7. CASE ~(t.pc = "commit" /\ Live(t.s))
  <2>1. UNCHANGED vars
    BY <1>2, <1>3, <1>5, <1>7 DEF vars
  <2> QED BY <2>1, QuietAllows
<1>8. CASE t.pc = "commit" /\ Live(t.s)
  <2>1. RestoreStatus(t.s)
    BY <1>3, <1>8 DEF RestoreStatus
  <2>2. Next
    <3>1. CASE t.op = "fail"
      <4>1. MarkFailed(t.g, t.s)
        BY <1>2, <1>3, <1>8, <2>1 DEF MarkFailed
      <4> QED BY <1>2, <4>1 DEF Next
    <3>2. CASE t.op = "stale"
      <4>1. FailStaleBuild(t.g)
        BY <1>2, <1>3, <3>2, <2>1 DEF FailStaleBuild
      <4> QED BY <1>2, <4>1 DEF Next
    <3> QED BY <1>2, <3>1, <3>2
  <2>3. ASSUME NEW d \in Sessions \ {c} PROVE Allows(txn[d])
    <3> DEFINE G == {g \in {t.g} : t.hit}
    <3>1. /\ t.hit => t.held = {<<t.g, "no key update">>} \cup {<<t.s, "no key update">>}
          /\ ~t.hit => t.held = {<<t.s, "no key update">>}
      BY <1>2, <1>8, FailLocksAre
    <3>2. <<t.s, "no key update">> \in txn[c].held
      BY <1>1, <3>1
    <3>3. t.hit => <<t.g, "no key update">> \in txn[c].held
      BY <1>1, <3>1
    <3>4. \A m \in {"share", "no key update", "update"} :
            /\ <<t.s, m>> \notin txn[d].held
            /\ t.hit => <<t.g, m>> \notin txn[d].held
      BY <3>2, <3>3, Excluded DEF TxnIInv, Conflicts
    <3>5. \A g \in G : \A m \in LockModes : m # "key share" => <<g, m>> \notin txn[d].held
      BY <3>4 DEF LockModes
    <3>6. \A r \in {t.s} : <<r, "share">> \notin txn[d].held /\ <<r, "update">> \notin txn[d].held
      BY <3>4
    <3>7. \A g \in Gens :
             /\ generations'[g].source_id = generations[g].source_id
             /\ generations'[g].created_at <= generations[g].created_at
             /\ generations'[g].state = "building" => generations[g].state = "building"
      BY <1>2, <1>4, <1>6
    <3>8. \A r \in Sources : r \notin {t.s} =>
             /\ sources'[r].active = sources[r].active /\ sources'[r].row = sources[r].row
             /\ \A g \in Gens : SameFor(g, r)
      BY <1>2, <1>6 DEF SameFor, Owned, Exists
    <3>9. \A g \in Gens : g \notin G => generations'[g] = generations[g] /\ chunks'[g] = chunks[g]
      BY <1>3, <1>6
    <3>10. now <= now'
      BY <1>3, <1>4
    <3>11. TouchesUnlocked(txn[d], G, {t.s})
      BY <3>5, <3>6, <3>7, <3>8, <3>9, <3>10 DEF TouchesUnlocked
    <3> QED BY <3>11, AllowsWhere
  <2> QED BY <2>2, <2>3
<1> QED BY <1>7, <1>8

LEMMA RollbackCommits ==
  ASSUME TxnIInv, NEW c \in Sessions, RollbackCommit(c)
  PROVE  Next /\ \A d \in Sessions \ {c} : Allows(txn[d])
<1>1. PICK t \in TxnRow : t = txn[c] /\ SessionOK(t)
  BY SessionNow
<1>2. /\ t.op = "rollback" /\ t.pc = "commit" /\ t.held = LocksOf(t) /\ t.s \in Sources
      /\ Live(t.s) /\ t.g \in PreviousPublished(t.s) /\ t.n = generations[t.g].stored
  BY <1>1 DEF SessionOK, RollbackOK, RollbackCommit, At
<1>3. /\ sources' = [sources EXCEPT ![t.s].active = t.g,
                                    ![t.s].chunk_count = generations[t.g].stored,
                                    ![t.s].status = "ready"]
      /\ UNCHANGED <<now, generations, chunks>>
  BY <1>1, <1>2 DEF RollbackCommit
<1>4. /\ now \in Nat /\ \A g \in Gens : generations[g].created_at \in Nat
      /\ sources \in [Sources -> SourceRow]
  BY DEF TxnIInv, TablesOK, IndexInv, TypeOK, GenerationRow
<1>5. RollbackToPrevious(t.s)
  BY <1>2, <1>3 DEF RollbackToPrevious
<1>6. Next
  BY <1>2, <1>5 DEF Next
<1>7. ASSUME NEW d \in Sessions \ {c} PROVE Allows(txn[d])
  <2>1. t.held = {<<t.s, "update">>} \cup {<<t.g, "key share">>}
    BY <1>2, LocksAre
  <2>2. <<t.s, "update">> \in txn[c].held
    BY <1>1, <2>1
  <2>3. \A r \in {t.s} : <<r, "share">> \notin txn[d].held /\ <<r, "update">> \notin txn[d].held
    BY <2>2, Excluded DEF TxnIInv, Conflicts, LockModes
  <2>4. \A g \in Gens :
           /\ generations'[g].source_id = generations[g].source_id
           /\ generations'[g].created_at <= generations[g].created_at
           /\ generations'[g].state = "building" => generations[g].state = "building"
    BY <1>3, <1>4
  <2>5. \A r \in Sources : r \notin {t.s} =>
           /\ sources'[r].active = sources[r].active /\ sources'[r].row = sources[r].row
           /\ \A g \in Gens : SameFor(g, r)
    BY <1>3, <1>4 DEF SameFor, Owned, Exists
  <2>6. /\ \A g \in Gens : g \notin {} => generations'[g] = generations[g] /\ chunks'[g] = chunks[g]
        /\ now <= now'
    BY <1>3, <1>4
  <2>7. TouchesUnlocked(txn[d], {}, {t.s})
    BY <2>3, <2>4, <2>5, <2>6 DEF TouchesUnlocked
  <2> QED BY <2>7, AllowsWhere
<1> QED BY <1>6, <1>7

(* Deleting generations, as reclaim and the deletion of a source do.       *)
LEMMA DropAllows ==
  ASSUME TxnIInv, NEW c \in Sessions, NEW d \in Sessions \ {c}, NEW s \in Sources, NEW D \in SUBSET Gens,
         Drop(D), now' = now, \A g \in D : Owned(g, s),
         \A r \in Sources \ {s} : sources'[r] = sources[r],
         txn[c].held = {<<s, "update">>} \cup {<<g, "update">> : g \in D}
  PROVE  Allows(txn[d])
<1>1. now \in Nat /\ \A g \in Gens : generations[g].created_at \in Nat
  BY DEF TxnIInv, TablesOK, IndexInv, TypeOK, GenerationRow
<1>2. \A x \in {s} \cup D : <<x, "update">> \in txn[c].held
  OBVIOUS
<1>3. \A x \in {s} \cup D : \A m \in LockModes : <<x, m>> \notin txn[d].held
  BY <1>2, Excluded DEF TxnIInv, Conflicts
<1>4. /\ \A g \in Gens : g \notin D => generations'[g] = generations[g] /\ chunks'[g] = chunks[g]
      /\ \A g \in D : /\ generations'[g].state = "deleted" /\ generations'[g].created_at = 0
                      /\ generations'[g].source_id = generations[g].source_id
  BY DEF Drop, NewGeneration
<1>5. \A r \in {s} : <<r, "share">> \notin txn[d].held /\ <<r, "update">> \notin txn[d].held
  BY <1>3 DEF LockModes
<1>6. \A g \in D : \A m \in LockModes : m # "key share" => <<g, m>> \notin txn[d].held
  BY <1>3
<1>7. \A g \in Gens :
         /\ generations'[g].source_id = generations[g].source_id
         /\ generations'[g].created_at <= generations[g].created_at
         /\ generations'[g].state = "building" => generations[g].state = "building"
  BY <1>1, <1>4
<1>8. \A r \in Sources : r \notin {s} =>
         /\ sources'[r].active = sources[r].active /\ sources'[r].row = sources[r].row
         /\ \A g \in Gens : SameFor(g, r)
  BY <1>4 DEF SameFor, Owned, Exists
<1>9. now <= now'
  BY <1>1
<1>10. TouchesUnlocked(txn[d], D, {s})
  BY <1>4, <1>5, <1>6, <1>7, <1>8, <1>9 DEF TouchesUnlocked
<1> QED BY <1>10, AllowsWhere

LEMMA ReclaimCommits ==
  ASSUME TxnIInv, NEW c \in Sessions, ReclaimCommit(c)
  PROVE  Next /\ \A d \in Sessions \ {c} : Allows(txn[d])
<1>1. PICK t \in TxnRow : t = txn[c] /\ SessionOK(t)
  BY SessionNow
<1>2. /\ t.op = "reclaim" /\ t.pc = "commit" /\ t.held = LocksOf(t) /\ t.s \in Sources
      /\ t.todo = Reclaimable(t.s, t.at) /\ t.todo # {} /\ t.at \in Nat /\ t.at <= now
  BY <1>1 DEF SessionOK, ReclaimOK, ReclaimCommit, At, TxnRow
<1>3. Drop(t.todo) /\ UNCHANGED <<now, sources>>
  BY <1>1 DEF ReclaimCommit
<1>4. t.todo \in SUBSET Gens /\ \A g \in t.todo : Owned(g, t.s)
  BY <1>2 DEF Reclaimable
<1>5. Live(t.s)
  BY <1>2, <1>4, OwnersLive DEF TxnIInv
<1>6. t.at \in 0 .. now
  BY <1>2 DEF TxnIInv, TablesOK, IndexInv, TypeOK
<1>7. Reclaim(t.s)
  BY <1>2, <1>3, <1>5, <1>6 DEF Reclaim
<1>8. Next
  BY <1>2, <1>7 DEF Next
<1>9. txn[c].held = {<<t.s, "update">>} \cup {<<g, "update">> : g \in t.todo}
  <2>1. t.held = {<<t.s, "update">>} \cup {<<g, "update">> : g \in t.todo}
    BY <1>2, LocksAre
  <2> QED BY <1>1, <2>1
<1>10. ASSUME NEW d \in Sessions \ {c} PROVE Allows(txn[d])
  BY <1>2, <1>3, <1>4, <1>9, DropAllows
<1> QED BY <1>8, <1>10

LEMMA DeleteCommits ==
  ASSUME TxnIInv, NEW c \in Sessions, DeleteCommit(c)
  PROVE  Next /\ \A d \in Sessions \ {c} : Allows(txn[d])
<1>1. PICK t \in TxnRow : t = txn[c] /\ SessionOK(t)
  BY SessionNow
<1>2. /\ t.op = "delete" /\ t.pc = "commit" /\ t.held = LocksOf(t) /\ t.s \in Sources
      /\ Live(t.s) /\ t.todo = {g \in Gens : Owned(g, t.s)}
  BY <1>1 DEF SessionOK, DeleteOK, DeleteCommit, At
<1>3. /\ Drop(t.todo) /\ sources' = [sources EXCEPT ![t.s] = NewSource("deleted")]
      /\ now' = now
  BY <1>1 DEF DeleteCommit
<1>4. t.todo \in SUBSET Gens /\ \A g \in t.todo : Owned(g, t.s)
  BY <1>2
<1>5. DeleteSource(t.s)
  BY <1>2, <1>3 DEF DeleteSource
<1>6. Next
  BY <1>2, <1>5 DEF Next
<1>7. txn[c].held = {<<t.s, "update">>} \cup {<<g, "update">> : g \in t.todo}
  <2>1. t.held = {<<t.s, "update">>} \cup {<<g, "update">> : g \in t.todo}
    BY <1>2, LocksAre
  <2> QED BY <1>1, <2>1
<1>8. \A r \in Sources \ {t.s} : sources'[r] = sources[r]
  BY <1>3 DEF TxnIInv, TablesOK, IndexInv, TypeOK
<1>9. ASSUME NEW d \in Sessions \ {c} PROVE Allows(txn[d])
  BY <1>2, <1>3, <1>4, <1>7, <1>8, DropAllows
<1> QED BY <1>6, <1>9

(* Calls of one statement: they wait for the same locks, and hold none.    *)
LEMMA PlainSteps ==
  ASSUME TxnIInv, NEW t \in TxnRow,
         \/ Tick
         \/ \E s \in Sources : CreateSource(s)
         \/ \E s \in Sources, st \in WrittenStatuses : UpdateStatus(s, st)
  PROVE  Allows(t)
<1>1. /\ now \in Nat /\ \A g \in Gens : generations[g].created_at \in Nat
      /\ sources \in [Sources -> SourceRow]
  BY DEF TxnIInv, TablesOK, IndexInv, TypeOK, GenerationRow
<1>2. generations' = generations /\ chunks' = chunks /\ now <= now'
  BY <1>1 DEF Tick, CreateSource, UpdateStatus
<1>3. \A s \in Sources : sources'[s].active = sources[s].active /\ (Live(s) => Live(s)')
  <2>1. CASE Tick
    BY <2>1 DEF Tick, Live
  <2>2. ASSUME NEW r \in Sources, CreateSource(r) PROVE <1>3
    <3>1. sources[r].active = Null
      BY <2>2, Pointed DEF CreateSource, Live, TxnIInv
    <3> QED BY <1>1, <2>2, <3>1 DEF CreateSource, NewSource, Live
  <2>3. ASSUME NEW r \in Sources, NEW st \in WrittenStatuses, UpdateStatus(r, st) PROVE <1>3
    BY <1>1, <2>3 DEF UpdateStatus, Live, SourceRow
  <2> QED BY <2>1, <2>2, <2>3
<1>4. \A s \in Sources, g \in Gens : SameFor(g, s)
  BY <1>2 DEF SameFor, Owned, Exists
<1>5. /\ \A g \in Gens : /\ generations'[g].source_id = generations[g].source_id
                         /\ generations'[g].created_at <= generations[g].created_at
                         /\ generations'[g].state = "building" => generations[g].state = "building"
      /\ \A g \in Gens : generations'[g] = generations[g] /\ chunks'[g] = chunks[g]
  BY <1>1, <1>2
<1> QED BY <1>2, <1>3, <1>4, <1>5 DEF Allows

LEMMA ClockSteady ==
  ASSUME TxnIInv
  PROVE  /\ now' = now => now <= now'
         /\ \A g \in Gens : generations'[g].created_at = generations[g].created_at
                            => generations'[g].created_at <= generations[g].created_at
<1>1. now \in Nat /\ \A g \in Gens : generations[g].created_at \in Nat
  BY DEF TxnIInv, TablesOK, IndexInv, TypeOK, GenerationRow
<1> QED BY <1>1

LEMMA ClaimAllows ==
  ASSUME TxnIInv, NEW d \in Sessions, NEW s \in Sources, NEW g \in Gens, NEW fp \in Fingerprints,
         CanWrite(s, "key share"), Claim(s, g, fp)
  PROVE  Allows(txn[d])
<1>1. /\ now \in Nat /\ \A h \in Gens : generations[h].created_at \in Nat
      /\ generations \in [Gens -> GenerationRow]
  BY DEF TxnIInv, TablesOK, IndexInv, TypeOK, GenerationRow
<1>2. <<s, "update">> \notin txn[d].held
  BY DEF CanWrite, Conflicts
<1>3. /\ generations[g].state = "absent" /\ generations[g].source_id \notin Sources
      /\ ~Exists(g) /\ generations'[g].source_id = s
      /\ \A h \in Gens : h # g => generations'[h] = generations[h]
      /\ now' = now /\ sources' = sources /\ chunks' = chunks
  BY NullAssumption DEF Claim, Exists, TxnIInv, TablesOK, AbsentIsBlank, NewGeneration, TypeOK, IndexInv
<1>4. \A r \in Sources : r # s => \A h \in Gens : SameFor(h, r)
  BY <1>3 DEF SameFor, Owned, Exists
<1>8. \A h \in Gens : generations[h].source_id \in Sources => generations'[h] = generations[h]
  BY <1>3
<1>5. \A h \in Gens : generations[h].source_id \in Sources =>
         /\ generations'[h].source_id = generations[h].source_id
         /\ generations'[h].created_at <= generations[h].created_at
         /\ generations'[h].state = "building" => generations[h].state = "building"
  BY <1>8, ClockSteady
<1>9. now <= now'
  BY <1>3, ClockSteady
<1>6. \A h \in Gens : Exists(h) => generations'[h] = generations[h] /\ chunks'[h] = chunks[h]
  BY <1>3
<1>7. \A r \in Sources : sources'[r].active = sources[r].active /\ (Live(r) => Live(r)')
  BY <1>3 DEF Live
<1>10. \A r \in Sources : <<r, "update">> \in txn[d].held => \A h \in Gens : SameFor(h, r)
  BY <1>2, <1>4
<1> QED BY <1>5, <1>6, <1>7, <1>9, <1>10 DEF Allows

LEMMA PlanAllows ==
  ASSUME TxnIInv, NEW d \in Sessions, NEW g \in Gens, NEW n \in 0 .. Cardinality(Positions),
         CanWrite(g, "no key update"), RecordBuildPlan(g, n)
  PROVE  Allows(txn[d])
<1>1. /\ now \in Nat /\ \A h \in Gens : generations[h].created_at \in Nat
      /\ generations \in [Gens -> GenerationRow]
  BY DEF TxnIInv, TablesOK, IndexInv, TypeOK, GenerationRow
<1>2. <<g, "update">> \notin txn[d].held
  BY DEF CanWrite, Conflicts
<1>3. /\ \A h \in Gens : /\ generations'[h].source_id = generations[h].source_id
                         /\ generations'[h].created_at = generations[h].created_at
                         /\ generations'[h].state = generations[h].state
                         /\ generations'[h].fingerprint = generations[h].fingerprint
                         /\ generations'[h].published_at = generations[h].published_at
                         /\ generations'[h].stored = generations[h].stored
      /\ \A h \in Gens : h # g => generations'[h] = generations[h]
      /\ now' = now /\ sources' = sources /\ chunks' = chunks
  BY <1>1 DEF RecordBuildPlan, GenerationRow
<1>4. \A r \in Sources, h \in Gens : SameFor(h, r)
  BY <1>3 DEF SameFor, Owned, Exists
<1>13. \A h \in Gens : generations'[h].created_at = generations[h].created_at
  BY <1>3
<1>8. \A h \in Gens : generations'[h].created_at <= generations[h].created_at
  BY <1>13, ClockSteady
<1>9. now <= now'
  BY <1>3, ClockSteady
<1>5. \A h \in Gens : /\ generations'[h].source_id = generations[h].source_id
                      /\ generations'[h].state = generations[h].state
  BY <1>3
<1>6. \A r \in Sources : sources'[r].active = sources[r].active /\ (Live(r) => Live(r)')
  BY <1>3 DEF Live
<1>7. \A h \in Gens : <<h, "update">> \in txn[d].held
         => generations'[h] = generations[h] /\ chunks'[h] = chunks[h]
  BY <1>2, <1>3
<1> QED BY <1>4, <1>5, <1>6, <1>7, <1>8, <1>9 DEF Allows

LEMMA AutocommitKeepsAll ==
  ASSUME TxnIInv, Autocommit, UNCHANGED txn
  PROVE  Next /\ TxnIInv'
<1>1. Next
  BY DEF Autocommit, Next
<1>2. TablesOK'
  BY <1>1, TablesKept DEF TxnIInv
<1>3. ASSUME NEW d \in Sessions PROVE Allows(txn[d])
  BY SessionNow, PlainSteps, ClaimAllows, PlanAllows DEF Autocommit
<1>4. ASSUME NEW d \in Sessions PROVE SessionOK(txn[d])'
  BY <1>2, <1>3, OthersKept
<1>5. TxnTypeOK' /\ LocksExclude'
  BY <1>2 DEF TxnIInv, TablesOK, IndexInv, TxnTypeOK, LocksExclude
<1> QED BY <1>1, <1>2, <1>4, <1>5 DEF TxnIInv

-----------------------------------------------------------------------------
(* The theorems.                                                           *)

LEMMA TxnStart == TxnInit => TxnIInv
<1> SUFFICES ASSUME TxnInit PROVE TxnIInv
  OBVIOUS
<1>1. TablesOK
  BY TablesStart DEF TxnInit
<1>2. \A c \in Sessions : txn[c] = Idle
  BY DEF TxnInit
<1>3. txn \in [Sessions -> TxnRow]
  BY IdleRow DEF TxnInit
<1>4. TxnTypeOK
  BY <1>1, <1>3 DEF TxnTypeOK, TxnRow, TablesOK, IndexInv
<1>5. LocksExclude
  BY <1>2, IdleRow DEF LocksExclude
<1>6. \A c \in Sessions : SessionOK(txn[c])
  BY <1>1, <1>2, IdleRelies DEF Relies
<1> QED BY <1>1, <1>4, <1>5, <1>6 DEF TxnIInv

LEMMA TxnStep ==
  ASSUME TxnIInv, [TxnNext]_txnVars
  PROVE  [Next]_vars /\ TxnIInv'
<1>1. CASE Autocommit /\ UNCHANGED txn
  BY <1>1, AutocommitKeepsAll
<1>2. ASSUME NEW c \in Sessions, \E w : OwnStep(c, w) PROVE [Next]_vars /\ TxnIInv'
  BY <1>2, OwnStepKeepsAll DEF OwnStep
<1>3. ASSUME NEW c \in Sessions, Start(c) \/ Abort(c) PROVE [Next]_vars /\ TxnIInv'
  BY <1>2, <1>3, StartRelies
<1>4. ASSUME NEW c \in Sessions, Statement(c) PROVE [Next]_vars /\ TxnIInv'
  <2>1. CASE BatchLock(c) \/ BatchInsert(c)
    BY <1>2, <2>1, BatchStatements
  <2>2. CASE PublishLock(c) \/ PublishValidate(c) \/ PublishPoint(c)
    BY <1>2, <2>2, PublishStatements
  <2>3. CASE FailMark(c) \/ FailRestore(c) \/ FailRestoring(c)
    BY <1>2, <2>3, FailStatements
  <2>4. CASE RollbackLock(c) \/ RollbackSelect(c) \/ RollbackPoint(c)
    BY <1>2, <2>4, RollbackStatements
  <2>5. CASE ReclaimLock(c) \/ ReclaimSelect(c) \/ ReclaimDelete(c)
    BY <1>2, <2>5, ReclaimStatements
  <2>6. CASE DeleteChunks(c) \/ DeleteSourceRow(c) \/ DeleteCascade(c)
    BY <1>2, <2>6, DeleteStatements
  <2>7. CASE LeaseLock(c) \/ LeaseRelease(c)
    BY <1>2, <2>7, LeaseStatements
  <2>8. CASE BatchCommit(c)
    BY <2>8, BatchCommits, EndKeepsAll DEF BatchCommit
  <2>9. CASE PublishCommit(c)
    BY <2>9, PublishCommits, EndKeepsAll DEF PublishCommit
  <2>10. CASE FailCommit(c)
    BY <2>10, FailCommits, EndKeepsAll DEF FailCommit
  <2>11. CASE RollbackCommit(c)
    BY <2>11, RollbackCommits, EndKeepsAll DEF RollbackCommit
  <2>12. CASE ReclaimCommit(c)
    BY <2>12, ReclaimCommits, EndKeepsAll DEF ReclaimCommit
  <2>13. CASE DeleteCommit(c)
    BY <2>13, DeleteCommits, EndKeepsAll DEF DeleteCommit
  <2> QED BY <1>4, <2>1, <2>2, <2>3, <2>4, <2>5, <2>6, <2>7, <2>8, <2>9, <2>10, <2>11, <2>12, <2>13
          DEF Statement
<1>5. CASE UNCHANGED txnVars
  <2>1. UNCHANGED vars /\ UNCHANGED txn
    BY <1>5 DEF txnVars
  <2>2. TablesOK'
    BY <2>1, TablesKept DEF TxnIInv
  <2>3. ASSUME NEW d \in Sessions PROVE SessionOK(txn[d])'
    BY <2>1, <2>2, QuietAllows, OthersKept
  <2>4. TxnTypeOK' /\ LocksExclude'
    BY <2>1, <2>2 DEF TxnIInv, TablesOK, IndexInv, TxnTypeOK, LocksExclude
  <2> QED BY <2>1, <2>2, <2>3, <2>4 DEF TxnIInv
<1> QED BY <1>1, <1>3, <1>4, <1>5 DEF TxnNext

(* Every transaction, however its statements interleave with those of the  *)
(* other sessions, takes effect as one atomic call, or not at all.         *)
THEOREM TransactionsAreAtomic == TxnSpec => ImplementsAtomicCalls
<1>1. TxnInit => Init
  BY DEF TxnInit
<1> QED BY <1>1, TxnStart, TxnStep, PTL DEF TxnSpec, ImplementsAtomicCalls, Spec

LEMMA RowOf ==
  ASSUME NEW D, NEW m, NEW k \in {<<x, m>> : x \in D}
  PROVE  k[1] \in D
OBVIOUS

LEMMA RowIs ==
  ASSUME NEW x, NEW m, NEW k \in {<<x, m>>}
  PROVE  k[1] = x
OBVIOUS

LEMMA RowAmong ==
  ASSUME NEW x, NEW m, NEW y, NEW n, NEW z, NEW o
  PROVE  /\ <<x, m>> \in {<<y, n>>} => x = y
         /\ <<x, m>> \in {<<y, n>>} \cup {<<z, o>>} => x \in {y, z}
OBVIOUS

LEMMA RowAmongMany ==
  ASSUME NEW x, NEW m, NEW y, NEW n, NEW D
  PROVE  <<x, m>> \in {<<y, n>>} \cup {<<g, n>> : g \in D} => x \in {y} \cup D
OBVIOUS

(* The rows a session holds, by what it is doing.                          *)
LEMMA RowsHeld ==
  ASSUME NEW u, NEW x, NEW m, <<x, m>> \in LocksOf(u)
  PROVE  /\ u.op = "batch" /\ u.pc \in {"lock", "insert", "commit"} => u.pc # "lock" /\ x \in {u.g, u.s}
         /\ u.op = "publish" /\ u.pc \in {"lock", "validate", "point", "commit"}
              => u.pc # "lock" /\ x \in {u.g, u.s}
         /\ u.op \in {"fail", "stale"} /\ u.pc \in {"mark", "restore", "restoring", "skipped", "commit"}
              => u.pc # "mark" /\ x \in {u.g, u.s} /\ (u.hit \/ x = u.s)
         /\ u.op = "rollback" /\ u.pc \in {"lock", "select", "point", "commit"}
              => u.pc # "lock" /\ x \in {u.g, u.s} /\ (u.pc = "commit" \/ x = u.s)
         /\ u.op = "reclaim" /\ u.pc \in {"lock", "select", "delete", "commit"}
              => u.pc # "lock" /\ x \in {u.s} \cup u.todo /\ (u.pc = "commit" \/ x = u.s)
         /\ u.op = "lease" /\ u.pc \in {"lock", "held"} => x = u.s
<1> DEFINE L == LocksOf(u)
<1>0. <<x, m>> \in L
  OBVIOUS
<1>1. CASE u.op = "batch" /\ u.pc \in {"lock", "insert", "commit"}
  <2>1. L \in {{}, {<<u.g, "share">>}, {<<u.g, "share">>} \cup {<<u.s, "key share">>}} /\ (u.pc = "lock" => L = {})
    BY <1>1, LocksAre
  <2> HIDE DEF L
  <2>2. \/ <<x, m>> \in {<<u.g, "share">>}
        \/ <<x, m>> \in {<<u.g, "share">>} \cup {<<u.s, "key share">>}
    BY <1>0, <2>1
  <2> QED BY <1>0, <1>1, <2>1, <2>2, RowAmong
<1>2. CASE u.op = "publish" /\ u.pc \in {"lock", "validate", "point", "commit"}
  <2>1. /\ L \in {{}, {<<u.g, "update">>}, {<<u.g, "update">>} \cup {<<u.s, "no key update">>}}
        /\ u.pc = "lock" => L = {}
    BY <1>2, LocksAre
  <2> HIDE DEF L
  <2>2. \/ <<x, m>> \in {<<u.g, "update">>}
        \/ <<x, m>> \in {<<u.g, "update">>} \cup {<<u.s, "no key update">>}
    BY <1>0, <2>1
  <2> QED BY <1>0, <1>2, <2>1, <2>2, RowAmong
<1>3. CASE u.op \in {"fail", "stale"} /\ u.pc \in {"mark", "restore", "restoring", "skipped", "commit"}
  <2>1. u.pc = "mark" => L = {}
    BY <1>3, FailLocksAre
  <2>2. /\ L \subseteq {<<u.g, "no key update">>} \cup {<<u.s, "no key update">>}
        /\ ~u.hit => L \subseteq {<<u.s, "no key update">>}
    BY <1>3, FailLocksAre
  <2> HIDE DEF L
  <2>3. /\ <<x, m>> \in {<<u.g, "no key update">>} \cup {<<u.s, "no key update">>}
        /\ ~u.hit => <<x, m>> \in {<<u.s, "no key update">>}
    BY <1>0, <2>2
  <2> QED BY <1>0, <1>3, <2>1, <2>3, RowAmong
<1>4. CASE u.op = "rollback" /\ u.pc \in {"lock", "select", "point", "commit"}
  <2>1. /\ u.pc = "lock" => L = {}
        /\ u.pc \in {"select", "point"} => L = {<<u.s, "update">>}
        /\ u.pc = "commit" => L = {<<u.s, "update">>} \cup {<<u.g, "key share">>}
    BY <1>4, LocksAre
  <2> HIDE DEF L
  <2>2. /\ u.pc \in {"select", "point"} => <<x, m>> \in {<<u.s, "update">>}
        /\ u.pc = "commit" => <<x, m>> \in {<<u.s, "update">>} \cup {<<u.g, "key share">>}
    BY <1>0, <2>1
  <2> QED BY <1>0, <1>4, <2>1, <2>2, RowAmong
<1>5. CASE u.op = "reclaim" /\ u.pc \in {"lock", "select", "delete", "commit"}
  <2>1. /\ u.pc = "lock" => L = {}
        /\ u.pc \in {"select", "delete"} => L = {<<u.s, "update">>}
        /\ u.pc = "commit" => L = {<<u.s, "update">>} \cup {<<g, "update">> : g \in u.todo}
    BY <1>5, LocksAre
  <2> HIDE DEF L
  <2>2. /\ u.pc \in {"select", "delete"} => <<x, m>> \in {<<u.s, "update">>}
        /\ u.pc = "commit" => <<x, m>> \in {<<u.s, "update">>} \cup {<<g, "update">> : g \in u.todo}
    BY <1>0, <2>1
  <2> QED BY <1>0, <1>5, <2>1, <2>2, RowAmong, RowAmongMany
<1>6. CASE u.op = "lease" /\ u.pc \in {"lock", "held"}
  <2>1. u.pc = "lock" => L = {}
    BY <1>6, LocksAre
  <2>2. u.pc = "held" => L = {<<u.s, "share">>}
    BY <1>6, LocksAre
  <2> HIDE DEF L
  <2>3. <<x, m>> \in {<<u.s, "share">>}
    BY <1>0, <1>6, <2>1, <2>2
  <2> QED BY <1>6, <2>3, RowAmong
<1> QED BY <1>1, <1>2, <1>3, <1>4, <1>5, <1>6

(* A transaction that waits while it holds a source's row waits for rows   *)
(* of generations that no transaction but a deletion can be holding: it    *)
(* took the source's row first, and they are not being built.              *)
LEMMA SourceHoldersGoOn ==
  ASSUME TxnIInv, NEW c \in Sessions, NEW d \in Sessions, txn[d].op # "delete",
         \/ txn[c].op = "rollback" /\ txn[c].pc = "point"
         \/ txn[c].op = "reclaim" /\ txn[c].pc = "delete"
  PROVE  ~WaitsFor(c, d)
<1>1. PICK t \in TxnRow : t = txn[c] /\ SessionOK(t)
  BY SessionNow
<1>2. PICK u \in TxnRow : u = txn[d] /\ SessionOK(u)
  BY SessionNow
<1>3. t.s \in Sources /\ t.held = {<<t.s, "update">>}
  <2>1. t.held = LocksOf(t) /\ t.s \in Sources
    BY <1>1 DEF SessionOK, RollbackOK, ReclaimOK
  <2> QED BY <1>1, <2>1, LocksAre
<1>4. \A l \in Wanted(c) : l[1] \in Gens /\ Owned(l[1], t.s) /\ generations[l[1]].state # "building"
  <2>1. CASE t.op = "rollback"
    <3>1. Wanted(c) = {<<t.g, "key share">>} /\ t.g \in PreviousPublished(t.s)
      BY <1>1, <2>1, WantedIs DEF SessionOK, RollbackOK
    <3>2. \A l \in Wanted(c) : l[1] = t.g
      BY <3>1, RowIs
    <3> QED BY <3>1, <3>2 DEF PreviousPublished, Newest, Predecessors
  <2>2. CASE t.op = "reclaim"
    <3>1. Wanted(c) = {<<g, "update">> : g \in t.todo} /\ t.todo = Reclaimable(t.s, t.at)
      BY <1>1, <2>2, WantedIs DEF SessionOK, ReclaimOK
    <3>2. \A l \in Wanted(c) : l[1] \in t.todo
      BY <3>1, RowOf
    <3> QED BY <3>1, <3>2 DEF Reclaimable
  <2> QED BY <1>1, <2>1, <2>2
<1>5. SUFFICES ASSUME NEW x, NEW m, d # c, <<x, m>> \in txn[d].held, \E l \in Wanted(c) : l[1] = x
               PROVE  FALSE
  <2>1. \A k \in txn[d].held : k = <<k[1], k[2]>>
    BY <1>2 DEF TxnRow
  <2> QED BY <2>1 DEF WaitsFor, Blockers
<1>6. <<t.s, "update">> \notin u.held
  <2>1. <<t.s, "update">> \in txn[c].held
    BY <1>1, <1>3
  <2> QED BY <1>2, <1>5, <2>1, Excluded DEF TxnIInv, Conflicts, LockModes
<1>7. x \in Gens /\ x \notin Sources /\ Owned(x, t.s) /\ generations[x].state # "building"
  BY <1>4, <1>5, RowsAssumption
<1>8. u.held = LocksOf(u) /\ <<x, m>> \in u.held
  BY <1>2, <1>5 DEF SessionOK
<1>9. CASE u.op = "batch"
  <2>1. u.s \in Sources /\ u.pc \in {"lock", "insert", "commit"} /\ (u.pc # "lock" => u.g \in Building(u.s))
    BY <1>2, <1>9 DEF SessionOK, BatchOK
  <2>2. u.pc # "lock" /\ x \in {u.g, u.s}
    BY <1>8, <1>9, <2>1, RowsHeld
  <2> QED BY <1>7, <2>1, <2>2 DEF Building
<1>10. CASE u.op = "publish"
  <2>1. /\ u.s \in Sources /\ u.pc \in {"lock", "validate", "point", "commit"}
        /\ u.pc # "lock" => u.g \in Building(u.s)
    BY <1>2, <1>10 DEF SessionOK, PublishOK
  <2>2. u.pc # "lock" /\ x \in {u.g, u.s}
    BY <1>8, <1>10, <2>1, RowsHeld
  <2> QED BY <1>7, <2>1, <2>2 DEF Building
<1>11. CASE u.op \in {"fail", "stale"}
  <2>1. /\ u.s \in Sources /\ u.pc \in {"mark", "restore", "restoring", "skipped", "commit"}
        /\ u.hit /\ u.pc # "mark" => generations[u.g].state = "building"
    BY <1>2, <1>11 DEF SessionOK, FailOK
  <2>2. u.pc # "mark" /\ x \in {u.g, u.s} /\ (u.hit \/ x = u.s)
    BY <1>8, <1>11, <2>1, RowsHeld
  <2> QED BY <1>7, <2>1, <2>2
<1>12. CASE u.op \in {"rollback", "reclaim"}
  <2>1. /\ u.s \in Sources
        /\ u.op = "rollback" => u.pc \in {"lock", "select", "point", "commit"}
        /\ u.op = "reclaim" => u.pc \in {"lock", "select", "delete", "commit"}
        /\ u.op = "rollback" /\ u.pc = "commit" => u.g \in PreviousPublished(u.s)
        /\ u.op = "reclaim" /\ u.pc = "commit" => u.todo = Reclaimable(u.s, u.at)
    BY <1>2, <1>12 DEF SessionOK, RollbackOK, ReclaimOK
  <2>2. x # u.s
    BY <1>7, <2>1
  <2>3. /\ u.op = "rollback" => u.pc = "commit" /\ x = u.g
        /\ u.op = "reclaim" => u.pc = "commit" /\ x \in u.todo
    BY <1>8, <1>12, <2>1, <2>2, RowsHeld
  <2>4. Owned(x, u.s)
    BY <1>12, <2>1, <2>3 DEF PreviousPublished, Newest, Predecessors, Reclaimable
  <2>5. u.s = t.s
    BY <1>7, <2>4 DEF Owned
  <2>6. /\ u.op = "rollback" => u.held = {<<u.s, "update">>} \cup {<<u.g, "key share">>}
        /\ u.op = "reclaim" => u.held = {<<u.s, "update">>} \cup {<<g, "update">> : g \in u.todo}
    BY <1>8, <2>3, LocksAre
  <2> QED BY <1>6, <1>12, <2>5, <2>6
<1>13. CASE u.op = "lease"
  <2>1. u.s \in Sources /\ u.pc \in {"lock", "held"}
    BY <1>2, <1>13 DEF SessionOK, LeaseOK
  <2>2. x = u.s
    BY <1>8, <1>13, <2>1, RowsHeld
  <2> QED BY <1>7, <2>1, <2>2
<1>14. CASE u.op = "idle"
  BY <1>8, <1>14 DEF LocksOf
<1>15. CASE u.op = "status"
  BY <1>8, <1>15 DEF LocksOf
<1>16. u.op \in AllOps \cup {"idle"} /\ u.op # "delete"
  BY <1>2 DEF TxnRow
<1> QED BY <1>9, <1>10, <1>11, <1>12, <1>13, <1>14, <1>15, <1>16 DEF AllOps

(* Of the waiting transactions that do not delete the source, those that   *)
(* hold its row are the two above, and those that hold a generation's row  *)
(* wait for the source's.                                                  *)
LEMMA WaitersHold ==
  ASSUME TxnIInv, NEW d \in Sessions, txn[d].op # "delete", Wanted(d) # {}, NEW l \in txn[d].held
  PROVE  \/ txn[d].op = "rollback" /\ txn[d].pc = "point"
         \/ txn[d].op = "reclaim" /\ txn[d].pc = "delete"
         \/ l[1] \notin Sources /\ \A k \in Wanted(d) : k[1] \in Sources
<1>1. PICK u \in TxnRow : u = txn[d] /\ SessionOK(u)
  BY SessionNow
<1>2. u.held = LocksOf(u) /\ l \in u.held
  BY <1>1 DEF SessionOK
<1>3. CASE u.op = "batch"
  <2>1. /\ u.s \in Sources /\ u.g \in Gens /\ u.pc \in {"lock", "insert", "commit"}
    BY <1>1, <1>3 DEF SessionOK, BatchOK
  <2>2. u.pc = "insert"
    <3>1. u.pc = "lock" => LocksOf(u) = {}
      BY <1>3, LocksAre
    <3>2. u.pc = "commit" => Wanted(d) = {}
      BY <1>1, WantedIs
    <3> QED BY <1>2, <2>1, <3>1, <3>2
  <2>3. LocksOf(u) = {<<u.g, "share">>} /\ Wanted(d) = {<<u.s, "key share">>}
    BY <1>1, <1>3, <2>2, LocksAre, WantedIs
  <2>5. l \in {<<u.g, "share">>} /\ \A k \in Wanted(d) : k \in {<<u.s, "key share">>}
    BY <1>2, <2>3
  <2>4. l[1] = u.g /\ \A k \in Wanted(d) : k[1] = u.s
    BY <2>5, RowIs
  <2> QED BY <2>1, <2>4, RowsAssumption
<1>4. CASE u.op = "publish"
  <2>1. /\ u.s \in Sources /\ u.g \in Gens /\ u.pc \in {"lock", "validate", "point", "commit"}
    BY <1>1, <1>4 DEF SessionOK, PublishOK
  <2>2. u.pc = "point"
    <3>1. u.pc = "lock" => LocksOf(u) = {}
      BY <1>4, LocksAre
    <3>2. u.pc \in {"commit", "validate"} => Wanted(d) = {}
      BY <1>1, <1>4, WantedIs
    <3> QED BY <1>2, <2>1, <3>1, <3>2
  <2>3. LocksOf(u) = {<<u.g, "update">>}
    BY <1>4, <2>2, LocksAre
  <2>4. Wanted(d) = {<<u.s, "no key update">>}
    BY <1>1, <1>4, <2>2, WantedIs
  <2>6. l \in {<<u.g, "update">>} /\ \A k \in Wanted(d) : k \in {<<u.s, "no key update">>}
    BY <1>2, <2>3, <2>4
  <2>5. l[1] = u.g /\ \A k \in Wanted(d) : k[1] = u.s
    BY <2>6, RowIs
  <2> QED BY <2>1, <2>5, RowsAssumption
<1>5. CASE u.op \in {"fail", "stale"}
  <2>1. /\ u.s \in Sources /\ u.g \in Gens /\ u.pc \in {"mark", "restore", "restoring", "skipped", "commit"}
    BY <1>1, <1>5 DEF SessionOK, FailOK
  <2>2. u.pc = "restoring"
    <3>1. u.pc = "mark" => LocksOf(u) = {}
      BY <1>5, FailLocksAre
    <3>2. u.pc \in {"commit", "skipped", "restore"} => Wanted(d) = {}
      BY <1>1, <1>5, WantedIs
    <3> QED BY <1>2, <2>1, <3>1, <3>2
  <2>3. LocksOf(u) \subseteq {<<u.g, "no key update">>}
    BY <1>5, <2>2, FailLocksAre
  <2>4. Wanted(d) = {<<u.s, "no key update">>}
    BY <1>1, <1>5, <2>2, WantedIs
  <2>6. l \in {<<u.g, "no key update">>} /\ \A k \in Wanted(d) : k \in {<<u.s, "no key update">>}
    BY <1>2, <2>3, <2>4
  <2>5. l[1] = u.g /\ \A k \in Wanted(d) : k[1] = u.s
    BY <2>6, RowIs
  <2> QED BY <2>1, <2>5, RowsAssumption
<1>6. CASE u.op = "rollback"
  <2>1. u.pc \in {"lock", "select", "point", "commit"}
    BY <1>1, <1>6 DEF SessionOK, RollbackOK
  <2>2. u.pc = "lock" => LocksOf(u) = {}
    BY <1>6, LocksAre
  <2>3. u.pc \in {"select", "commit"} => Wanted(d) = {}
    BY <1>1, <1>6, WantedIs
  <2> QED BY <1>1, <1>2, <1>6, <2>1, <2>2, <2>3
<1>7. CASE u.op = "reclaim"
  <2>1. u.pc \in {"lock", "select", "delete", "commit"}
    BY <1>1, <1>7 DEF SessionOK, ReclaimOK
  <2>2. u.pc = "lock" => LocksOf(u) = {}
    BY <1>7, LocksAre
  <2>3. u.pc \in {"select", "commit"} => Wanted(d) = {}
    BY <1>1, <1>7, WantedIs
  <2> QED BY <1>1, <1>2, <1>7, <2>1, <2>2, <2>3
<1>8. CASE u.op = "lease"
  <2>1. u.pc \in {"lock", "held"}
    BY <1>1, <1>8 DEF SessionOK, LeaseOK
  <2>2. u.pc = "lock" => LocksOf(u) = {}
    BY <1>8, LocksAre
  <2>3. u.pc = "held" => Wanted(d) = {}
    BY <1>1, WantedIs
  <2> QED BY <1>2, <2>1, <2>2, <2>3
<1>9. CASE u.op \in {"idle", "status"}
  BY <1>2, <1>9 DEF LocksOf
<1> QED BY <1>1, <1>3, <1>4, <1>5, <1>6, <1>7, <1>8, <1>9 DEF TxnRow, AllOps

LEMMA WaitsHow ==
  ASSUME NEW c, NEW d, WaitsFor(c, d)
  PROVE  Wanted(c) # {} /\ \E k \in Wanted(c), l \in txn[d].held : l[1] = k[1]
BY DEF WaitsFor, Blockers

LEMMA DeadlockNeedsDelete == TxnIInv => OnlyDeletesDeadlock
<1> SUFFICES ASSUME TxnIInv, NEW D \in (SUBSET Sessions) \ {{}},
                    \A c \in D : \E d \in D : WaitsFor(c, d),
                    \A c \in D : txn[c].op # "delete"
             PROVE  FALSE
  BY DEF OnlyDeletesDeadlock
<1> DEFINE GoesOn(c) == \/ txn[c].op = "rollback" /\ txn[c].pc = "point"
                        \/ txn[c].op = "reclaim" /\ txn[c].pc = "delete"
<1>1. \A c \in D : ~GoesOn(c)
  BY SourceHoldersGoOn
<1>2. ASSUME NEW c \in D, NEW l \in txn[c].held
      PROVE  l[1] \notin Sources /\ \A k \in Wanted(c) : k[1] \in Sources
  <2>1. Wanted(c) # {}
    BY WaitsHow
  <2> QED BY <1>1, <2>1, WaitersHold
<1>3. PICK c \in D : TRUE
  OBVIOUS
<1>4. PICK d \in D : WaitsFor(c, d)
  BY <1>3
<1>5. PICK l \in txn[d].held : TRUE
  BY <1>4, WaitsHow
<1>6. PICK e \in D : WaitsFor(d, e)
  BY <1>4
<1>7. PICK k \in Wanted(d), m \in txn[e].held : m[1] = k[1]
  BY <1>6, WaitsHow
<1>8. k[1] \in Sources
  BY <1>2, <1>5, <1>7
<1>9. m[1] \notin Sources
  BY <1>2, <1>6, <1>7
<1> QED BY <1>7, <1>8, <1>9

LEMMA LeasesPin == TxnIInv => LeasePinsIndex
<1> SUFFICES ASSUME TxnIInv, NEW c \in Sessions, txn[c].op = "lease", txn[c].pc = "held"
             PROVE  sources[txn[c].s].active = txn[c].g /\ chunks[txn[c].g] # {}
  BY DEF LeasePinsIndex
<1>1. PICK t \in TxnRow : t = txn[c] /\ SessionOK(t)
  BY SessionNow
<1>2. t.s \in Sources /\ t.g \in Gens /\ sources[t.s].active = t.g
  BY <1>1 DEF SessionOK, LeaseOK
<1>3. t.g # Null
  BY <1>2, NullAssumption
<1> QED BY <1>1, <1>2, <1>3 DEF TxnIInv, TablesOK, IndexInv, ActiveIndexComplete, CompleteIndex

(* Between any two statements the sessions and their locks are well        *)
(* formed, only the deletion of a source can close a ring of waiting       *)
(* transactions, and a citation lease pins the index it cites.             *)
THEOREM SessionsStaySound == TxnSpec => []TxnInv
<1>1. TxnIInv => TxnInv
  BY DeadlockNeedsDelete, LeasesPin DEF TxnInv, TxnIInv
<1> QED BY <1>1, TxnStart, TxnStep, PTL DEF TxnSpec

-----------------------------------------------------------------------------
(* The inductive invariant.                                                *)

Spaces == Fingerprints \cup {Null}

TextMaps == UNION {[D -> Texts] : D \in SUBSET Positions}
VectorMaps == UNION {[D -> Texts \X Spaces] : D \in SUBSET Positions}
RowMaps == UNION {[D -> [text : Texts, vec : Texts \X Spaces]] : D \in SUBSET Positions}

BuildRow ==
  [step : {"none", "claimed", "planned", "storing"}, texts : TextMaps, reused : VectorMaps,
   todo : SUBSET Positions]

IndexRow == [source : Sources, gen : Gens, fp : Spaces, rows : RowMaps]

SearchRow ==
  [step : {"idle", "checked", "mismatch", "dense", "done"}, fp : Spaces,
   snapshot : SUBSET IndexRow, dense : SUBSET IndexRow, lexical : SUBSET IndexRow]

VecTyped ==
  rows \in [Gens -> RowMaps] /\ build \in [Gens -> BuildRow] /\ search \in SearchRow

(* A reused vector is what the provider would answer for the chunk it is   *)
(* reused for.                                                             *)
FitsBuild(b, fp) ==
  /\ b.todo \subseteq DOMAIN b.texts
  /\ b.step # "storing" => DOMAIN b.reused = {} /\ b.todo = {}
  /\ \A i \in DOMAIN b.reused :
       i \in DOMAIN b.texts /\ b.reused[i] = Vector(b.texts[i], fp)

BuildsFit == \A g \in Gens : FitsBuild(build[g], generations[g].fingerprint)

(* A generation without a row has no chunks and nobody who builds it.      *)
GoneIsEmpty == \A g \in Gens : ~Exists(g) => rows[g] = <<>> /\ build[g] = NoBuild

(* What a search compares is of its space from its first statement on.     *)
SearchFits ==
  /\ search.step \in {"checked", "dense", "done"} => \A x \in search.snapshot : x.fp = search.fp
  /\ search.step \in {"checked", "dense"} => search.lexical = {}

(* What the tables keep, with the clock within its bound.                  *)
Tables == IndexInv /\ TablesAgree /\ now \in 0 .. MaxTime

VecIInv ==
  /\ Tables /\ VecTyped /\ BuildsFit /\ GoneIsEmpty /\ SearchFits
  /\ VectorsAreTheirRows /\ SearchIsWhole

LEMMA EmptyMap ==
  /\ \A S : <<>> \in [{} -> S]
  /\ DOMAIN <<>> = {}
OBVIOUS

LEMMA EmptyIsTyped == <<>> \in TextMaps /\ <<>> \in VectorMaps /\ <<>> \in RowMaps
BY EmptyMap DEF TextMaps, VectorMaps, RowMaps

LEMMA NoBuildFits ==
  /\ NoBuild \in BuildRow
  /\ \A fp : FitsBuild(NoBuild, fp)
BY EmptyIsTyped, EmptyMap DEF NoBuild, BuildRow, FitsBuild

(* The chunks of a document are numbered as the positions are.             *)
LEMMA ContentsAreTexts ==
  ASSUME NEW c \in Contents
  PROVE  /\ c \in TextMaps
         /\ Cardinality(DOMAIN c) \in 0 .. Cardinality(Positions)
<1>1. PICK n \in 1 .. Cardinality(Positions) : c \in [0 .. n - 1 -> Texts]
  BY DEF Contents
<1>2. Cardinality(Positions) \in Nat
  BY PositionsAssumption, FS_CardinalityType
<1>3. 0 .. n - 1 \subseteq Positions
  BY <1>2, ChunkIndexAssumption
<1>4. Cardinality(0 .. n - 1) = n
  BY <1>2, FS_Interval
<1> QED BY <1>1, <1>2, <1>3, <1>4 DEF TextMaps

LEMMA VecInitially == VecInit => VecIInv
<1> SUFFICES ASSUME VecInit PROVE VecIInv
  OBVIOUS
<1>1. Tables
  <2>1. now \in 0 .. MaxTime
    BY TimeAssumption DEF VecInit, Init
  <2> QED BY <2>1, IndexInvInit, TablesInit DEF Tables, VecInit
<1>2. VecTyped
  <2>1. search \in SearchRow
    BY DEF VecInit, NoSearch, SearchRow, Spaces
  <2> QED BY <2>1, EmptyIsTyped, NoBuildFits DEF VecInit, VecTyped
<1>3. BuildsFit /\ GoneIsEmpty
  BY NoBuildFits DEF VecInit, BuildsFit, GoneIsEmpty
<1>4. VectorsAreTheirRows
  BY EmptyMap DEF VecInit, VectorsAreTheirRows
<1>5. SearchFits /\ SearchIsWhole
  BY DEF VecInit, NoSearch, SearchFits, SearchIsWhole
<1> QED BY <1>1, <1>2, <1>3, <1>4, <1>5 DEF VecIInv

-----------------------------------------------------------------------------
(* Builds and searches touch the tables by calls.                          *)

LEMMA OwnerIsSource ==
  ASSUME TypeOK, TablesAgree, NEW g \in Gens, Exists(g)
  PROVE  generations[g].source_id \in Sources
BY DEF TablesAgree, NoOrphans, Owned

LEMMA BatchIsStored ==
  ASSUME VecIInv, NEW g \in Gens, NEW base \in build[g].todo, NEW arrived
  PROVE  DOMAIN BatchRows(g, base, arrived) \in (SUBSET Positions) \ {{}}
<1>1. DOMAIN BatchRows(g, base, arrived)
        = (base .. base + BatchSize - 1) \cap DOMAIN build[g].texts
  BY DEF BatchRows
<1>2. build[g] \in BuildRow /\ base \in DOMAIN build[g].texts
  BY DEF VecIInv, VecTyped, BuildsFit, FitsBuild
<1>3. DOMAIN build[g].texts \in SUBSET Positions
  BY <1>2 DEF BuildRow, TextMaps
<1>4. base \in Nat
  BY <1>2, <1>3, ChunkIndexAssumption, PositionsAssumption, FS_CardinalityType
<1>5. base \in base .. base + BatchSize - 1
  BY <1>4, BatchAssumption
<1> QED BY <1>1, <1>2, <1>3, <1>5

LEMMA CallsOnly ==
  ASSUME VecIInv, [VecNext]_<<vars, vecVars>>
  PROVE  [Next]_vars
<1>0. TypeOK /\ TablesAgree /\ now \in 0 .. MaxTime
  BY DEF VecIInv, Tables, IndexInv
<1>1. CASE UNCHANGED vars
  BY <1>1
<1>2. ASSUME NEW s \in Sources, NEW g \in Gens, NEW fp \in Fingerprints, StartBuild(s, g, fp)
      PROVE  Next
  BY <1>2 DEF StartBuild, Next
<1>3. ASSUME NEW g \in Gens, PlanBuild(g) PROVE Next
  <2>1. PICK c \in Contents : RecordBuildPlan(g, Cardinality(DOMAIN c))
    BY <1>3 DEF PlanBuild
  <2> QED BY <2>1, ContentsAreTexts DEF Next
<1>4. ASSUME NEW g \in Gens, NEW base \in build[g].todo, EmbedBatch(g, base) PROVE Next
  <2>1. PICK arrived : StoreChunkBatch(g, generations[g].source_id,
                                       DOMAIN BatchRows(g, base, arrived))
    BY <1>4 DEF EmbedBatch
  <2>2. generations[g].source_id \in Sources
    BY <1>0, <2>1, OwnerIsSource DEF StoreChunkBatch, Owned
  <2> QED BY <2>1, <2>2, BatchIsStored DEF Next
<1>5. ASSUME NEW g \in Gens, PublishBuild(g) PROVE Next
  <2>1. Publish(g, generations[g].source_id, now)
    BY <1>5 DEF PublishBuild
  <2>2. generations[g].source_id \in Sources
    BY <1>0, <2>1, OwnerIsSource DEF Publish, Publishable, Owned
  <2> QED BY <1>0, <2>1, <2>2 DEF Next
<1>6. ASSUME NEW g \in Gens, FailBuild(g) PROVE Next
  <2>1. MarkFailed(g, generations[g].source_id) /\ build[g] # NoBuild
    BY <1>6 DEF FailBuild, NoBuild
  <2>2. Exists(g)
    BY <2>1 DEF VecIInv, GoneIsEmpty
  <2>3. generations[g].source_id \in Sources
    BY <1>0, <2>2, OwnerIsSource
  <2> QED BY <2>1, <2>3 DEF Next
<1>7. CASE OtherCalls
  BY <1>7 DEF OtherCalls, Next
<1> QED
  BY <1>1, <1>2, <1>3, <1>4, <1>5, <1>6, <1>7
     DEF VecNext, FindReusable, CheckSpaces, SearchDense, SearchLexical, EndSearch, vecVars, vars

LEMMA TablesStay ==
  ASSUME VecIInv, [VecNext]_<<vars, vecVars>>
  PROVE  Tables'
<1>1. IndexInv /\ TablesAgree /\ [Next]_vars
  BY CallsOnly DEF VecIInv, Tables
<1>2. TypeOK'
  BY <1>1, TypingStep DEF IndexInv
<1>3. IndexInv'
  BY <1>1, <1>2, IndexInvStep DEF IndexInv
<1>4. TablesAgree'
  BY <1>1, TablesStep DEF IndexInv
<1>5. now' = now
  <2>1. CASE OtherCalls
    BY <2>1 DEF OtherCalls, CreateSource, RollbackToPrevious, DeleteSource
  <2>2. CASE UNCHANGED vars
    BY <2>2 DEF vars
  <2> QED
    BY <2>1, <2>2
       DEF VecNext, StartBuild, Claim, PlanBuild, RecordBuildPlan, FindReusable, EmbedBatch,
           StoreChunkBatch, PublishBuild, Publish, FailBuild, MarkFailed, CheckSpaces,
           SearchDense, SearchLexical, EndSearch, vars, vecVars
<1> QED BY <1>3, <1>4, <1>5 DEF Tables, VecIInv

-----------------------------------------------------------------------------
(* The rows of a batch.                                                    *)

(* The chunks of the batch that no reused vector covers.                   *)
Free(g, base) ==
  {i \in DOMAIN build[g].texts \ DOMAIN build[g].reused : i \in base .. base + BatchSize - 1}

LEMMA FreeIsFinite ==
  ASSUME VecIInv, NEW g \in Gens, NEW base
  PROVE  Free(g, base) \in SUBSET Int /\ IsFiniteSet(Free(g, base))
<1>1. DOMAIN build[g].texts \in SUBSET Positions
  BY DEF VecIInv, VecTyped, BuildRow, TextMaps
<1>2. Free(g, base) \in SUBSET Positions
  BY <1>1 DEF Free
<1>3. Positions \subseteq Int
  BY ChunkIndexAssumption, PositionsAssumption, FS_CardinalityType
<1> QED BY <1>2, <1>3, PositionsAssumption, FS_Subset

(* Distinct answers, as many as were asked for, are all of them.           *)
LEMMA WholeAnswer ==
  ASSUME NEW n \in Nat, NEW arrived \in Answers(n)
  PROVE  LET A == {arrived[j] : j \in 1 .. Len(arrived)} IN
         /\ A \in SUBSET (1 .. n) /\ IsFiniteSet(A)
         /\ Cardinality(A) \in 0 .. n
         /\ Cardinality(A) = n => A = 1 .. n
<1> DEFINE A == {arrived[j] : j \in 1 .. Len(arrived)}
<1>1. PICK m \in 0 .. n : arrived \in [1 .. m -> 1 .. n]
  BY DEF Answers
<1>2. Len(arrived) = m
  BY <1>1
<1>3. A \in SUBSET (1 .. n)
  BY <1>1, <1>2
<1> HIDE DEF A
<1>4. IsFiniteSet(1 .. n) /\ Cardinality(1 .. n) = n
  BY FS_Interval
<1>5. IsFiniteSet(A) /\ Cardinality(A) <= n /\ (Cardinality(A) = n => A = 1 .. n)
  BY <1>3, <1>4, FS_Subset
<1>6. Cardinality(A) \in 0 .. n
  BY <1>5, FS_CardinalityType
<1> QED BY <1>3, <1>5, <1>6 DEF A

(* A batch without a placeholder carries its own embeddings.               *)
LEMMA BatchFits ==
  ASSUME VecIInv, NEW g \in Gens, NEW base, build[g].step = "storing",
         NEW arrived \in Answers(Len(ToEmbed(g, base))),
         NEW i \in DOMAIN BatchRows(g, base, arrived),
         \A j \in DOMAIN BatchRows(g, base, arrived) : BatchRows(g, base, arrived)[j].vec # Missing
  PROVE  BatchRows(g, base, arrived)[i]
           = [text |-> build[g].texts[i],
              vec |-> Vector(build[g].texts[i], generations[g].fingerprint)]
<1> DEFINE F == Free(g, base)
           fresh == ToEmbed(g, base)
           n == Cardinality(F)
           A == {arrived[j] : j \in 1 .. Len(arrived)}
           answer == SortedByIndex(arrived)
           place(j) == CHOOSE k \in 1 .. Len(fresh) : fresh[k] = j
           fp == generations[g].fingerprint
           stored == BatchRows(g, base, arrived)
           D == (base .. base + BatchSize - 1) \cap DOMAIN build[g].texts
<1> SUFFICES stored[i] = [text |-> build[g].texts[i], vec |-> Vector(build[g].texts[i], fp)]
  OBVIOUS
<1>1. F \in SUBSET Int /\ IsFiniteSet(F) /\ n \in Nat
  BY FreeIsFinite, FS_CardinalityType
<1>2. fresh = Ascending(F)
  BY DEF ToEmbed, Free
<1>3. /\ DOMAIN fresh = 1 .. n /\ Len(fresh) = n
      /\ \A k \in 1 .. n : fresh[k] \in F /\ Rank(F, fresh[k]) = k - 1
      /\ \A j \in F : Rank(F, j) + 1 \in 1 .. n /\ fresh[Rank(F, j) + 1] = j
  BY <1>1, <1>2, AscendingIsInOrder
<1>4. arrived \in Answers(n)
  BY <1>3
<1>5. A \in SUBSET (1 .. n) /\ IsFiniteSet(A) /\ Cardinality(A) \in 0 .. n
      /\ (Cardinality(A) = n => A = 1 .. n)
  BY <1>1, <1>4, WholeAnswer
<1>6. Len(answer) = Cardinality(A) /\ answer = Ascending(A)
  BY <1>5, AscendingIsInOrder DEF SortedByIndex
<1>7. DOMAIN stored = D /\ F \subseteq D /\ i \in D
  BY DEF BatchRows, Free
<1>8. \A j \in D :
        stored[j] = [text |-> build[g].texts[j],
                     vec |-> IF j \in DOMAIN build[g].reused THEN build[g].reused[j]
                             ELSE IF place(j) <= Len(answer)
                             THEN Vector(build[g].texts[fresh[answer[place(j)]]], fp)
                             ELSE Missing]
  BY DEF BatchRows
<1>0. \A j \in D : stored[j].vec # Missing
  BY <1>7
<1>9. \A j \in F : place(j) \in 1 .. n /\ fresh[place(j)] = j /\ j \notin DOMAIN build[g].reused
  BY <1>3 DEF Free
<1> HIDE DEF F, fresh, n, A, answer, place, fp, stored, D
<1>10. \A j \in F : place(j) <= Cardinality(A)
  <2> SUFFICES ASSUME NEW j \in F, ~(place(j) <= Len(answer))
               PROVE  FALSE
    BY <1>6
  <2>1. stored[j].vec = Missing
    BY <1>7, <1>8, <1>9
  <2> QED BY <1>0, <1>7, <2>1
<1>11. CASE i \in DOMAIN build[g].reused
  <2>1. build[g].reused[i] = Vector(build[g].texts[i], fp)
    BY <1>11 DEF VecIInv, BuildsFit, FitsBuild, fp
  <2> QED BY <1>7, <1>8, <1>11, <2>1
<1>12. CASE i \in F
  <2>1. n \in 1 .. n
    BY <1>1, <1>9, <1>12
  <2>2. place(fresh[n]) = n
    <3>1. place(fresh[n]) \in 1 .. n /\ fresh[place(fresh[n])] = fresh[n] /\ fresh[n] \in F
      BY <1>3, <1>9, <2>1
    <3>2. Rank(F, fresh[place(fresh[n])]) = place(fresh[n]) - 1 /\ Rank(F, fresh[n]) = n - 1
      BY <1>3, <2>1, <3>1
    <3> QED BY <3>1, <3>2, <1>1
  <2>3. Cardinality(A) = n
    <3>1. fresh[n] \in F
      BY <1>3, <2>1
    <3>2. n <= Cardinality(A)
      BY <1>10, <2>2, <3>1
    <3> QED BY <1>1, <1>5, <3>2
  <2>4. answer[place(i)] = place(i)
    <3>1. place(i) \in 1 .. n /\ answer = Ascending(1 .. n)
      BY <1>5, <1>6, <1>9, <1>12, <2>3
    <3> QED BY <1>1, <3>1, AscendingFirst
  <2>5. fresh[answer[place(i)]] = i
    BY <2>4, <1>9, <1>12
  <2> QED BY <1>6, <1>7, <1>8, <1>9, <1>10, <1>12, <2>5
<1>13. i \in DOMAIN build[g].reused \/ i \in F
  BY <1>7 DEF Free, F, D
<1> QED BY <1>11, <1>12, <1>13

-----------------------------------------------------------------------------
(* The steps.                                                              *)

(* What the builds and rows keep, the part of the invariant that searches  *)
(* do not touch.                                                           *)
BuildsHold ==
  /\ rows \in [Gens -> RowMaps] /\ build \in [Gens -> BuildRow]
  /\ BuildsFit /\ GoneIsEmpty /\ VectorsAreTheirRows

(* A call of a build takes no generation away, brings none back and leaves *)
(* every space as it is.                                                   *)
LEMMA CallKeeps ==
  ASSUME TypeOK, NEW g \in Gens, NEW s, NEW h \in Gens,
         \/ \E n : RecordBuildPlan(g, n)
         \/ \E B : StoreChunkBatch(g, s, B)
         \/ \E at : Publish(g, s, at)
         \/ MarkFailed(g, s)
  PROVE  /\ Exists(h)' <=> Exists(h)
         /\ generations'[h].fingerprint = generations[h].fingerprint
<1>1. generations[g] \in GenerationRow /\ generations \in [Gens -> GenerationRow]
  BY DEF TypeOK
<1>2. CASE generations'[h] = generations[h]
  BY <1>2 DEF Exists
<1>3. CASE h = g /\ generations[g].state = "building"
  <2>1. ASSUME NEW n, RecordBuildPlan(g, n)
        PROVE  generations'[g].state = "building"
               /\ generations'[g].fingerprint = generations[g].fingerprint
    BY <1>1, <2>1 DEF RecordBuildPlan, GenerationRow
  <2>2. ASSUME NEW at, Publish(g, s, at)
        PROVE  generations'[g].state = "published"
               /\ generations'[g].fingerprint = generations[g].fingerprint
    BY <1>1, <2>2 DEF Publish, GenerationRow
  <2>3. ASSUME MarkFailed(g, s)
        PROVE  generations'[g].state = "failed"
               /\ generations'[g].fingerprint = generations[g].fingerprint
    BY <1>1, <1>3, <2>3 DEF MarkFailed, GenerationRow
  <2>4. ASSUME NEW B, StoreChunkBatch(g, s, B)
        PROVE  generations'[g] = generations[g]
    BY <2>4 DEF StoreChunkBatch
  <2> QED BY <1>3, <2>1, <2>2, <2>3, <2>4 DEF Exists
<1>4. generations'[h] = generations[h] \/ (h = g /\ generations[g].state = "building")
  BY <1>1 DEF RecordBuildPlan, StoreChunkBatch, Publish, Publishable, MarkFailed
<1> QED BY <1>2, <1>3, <1>4

(* A step that works on one generation that is there.                      *)
LEMMA BuildFrame ==
  ASSUME BuildsHold, NEW g \in Gens, NEW X \in RowMaps, NEW Y \in BuildRow,
         rows' = [rows EXCEPT ![g] = X], build' = [build EXCEPT ![g] = Y],
         \A h \in Gens \ {g} : /\ Exists(h)' <=> Exists(h)
                               /\ generations'[h].fingerprint = generations[h].fingerprint,
         Exists(g)', FitsBuild(Y, generations'[g].fingerprint),
         \A i \in DOMAIN X : X[i].vec = Vector(X[i].text, generations'[g].fingerprint)
  PROVE  BuildsHold'
<1>1. rows' \in [Gens -> RowMaps] /\ build' \in [Gens -> BuildRow]
  BY DEF BuildsHold
<1>2. /\ rows'[g] = X /\ build'[g] = Y
      /\ \A h \in Gens \ {g} : rows'[h] = rows[h] /\ build'[h] = build[h]
  BY DEF BuildsHold
<1>3. BuildsFit'
  <2> SUFFICES ASSUME NEW h \in Gens PROVE FitsBuild(build'[h], generations'[h].fingerprint)
    BY DEF BuildsFit, FitsBuild, Vector
  <2>1. FitsBuild(build[h], generations[h].fingerprint)
    BY DEF BuildsHold, BuildsFit
  <2> QED BY <1>2, <2>1
<1>4. GoneIsEmpty'
  BY <1>2 DEF BuildsHold, GoneIsEmpty, NoBuild
<1>5. VectorsAreTheirRows'
  BY <1>2 DEF BuildsHold, VectorsAreTheirRows, Vector
<1> QED BY <1>1, <1>3, <1>4, <1>5 DEF BuildsHold, RowMaps, BuildRow, TextMaps, VectorMaps, Spaces

LEMMA StartKeeps ==
  ASSUME VecIInv, NEW s \in Sources, NEW g \in Gens, NEW fp \in Fingerprints, StartBuild(s, g, fp)
  PROVE  BuildsHold'
<1> DEFINE Y == [build[g] EXCEPT !.step = "claimed"]
<1>1. BuildsHold /\ TypeOK
  BY DEF VecIInv, Tables, IndexInv, VecTyped, BuildsHold
<1>2. ~Exists(g) /\ generations'[g] = NewGeneration("building", s, fp, now)
  BY <1>1 DEF StartBuild, Claim, Exists, TypeOK
<1>3. build[g] = NoBuild /\ rows[g] = <<>>
  BY <1>1, <1>2 DEF BuildsHold, GoneIsEmpty
<1>4. Y \in BuildRow /\ FitsBuild(Y, generations'[g].fingerprint)
  BY <1>3, EmptyIsTyped, EmptyMap DEF NoBuild, BuildRow, FitsBuild
<1>5. \A h \in Gens \ {g} : generations'[h] = generations[h]
  BY <1>1 DEF StartBuild, Claim, TypeOK
<1>6. Exists(g)'
  BY <1>2 DEF NewGeneration, Exists
<1>7. rows[g] \in RowMaps /\ rows' = [rows EXCEPT ![g] = rows[g]]
  BY <1>1 DEF StartBuild, BuildsHold
<1>8. build' = [build EXCEPT ![g] = Y]
  BY DEF StartBuild
<1>9. \A h \in Gens \ {g} : Exists(h)' <=> Exists(h)
  BY <1>5 DEF Exists
<1>11. \A h \in Gens \ {g} : generations'[h].fingerprint = generations[h].fingerprint
  BY <1>5
<1>10. \A i \in DOMAIN rows[g] :
         rows[g][i].vec = Vector(rows[g][i].text, generations'[g].fingerprint)
  BY <1>3, EmptyMap
<1> HIDE DEF Y
<1> QED BY <1>1, <1>4, <1>6, <1>7, <1>8, <1>9, <1>10, <1>11, BuildFrame

LEMMA PlanKeeps ==
  ASSUME VecIInv, NEW g \in Gens, PlanBuild(g)
  PROVE  BuildsHold'
<1>1. BuildsHold /\ TypeOK
  BY DEF VecIInv, Tables, IndexInv, VecTyped, BuildsHold
<1>2. PICK c \in Contents : /\ RecordBuildPlan(g, Cardinality(DOMAIN c))
                            /\ build' = [build EXCEPT ![g].step = "planned", ![g].texts = c]
  BY DEF PlanBuild
<1> DEFINE Y == [build[g] EXCEPT !.step = "planned", !.texts = c]
<1>3. build[g] \in BuildRow /\ DOMAIN build[g].reused = {} /\ build[g].todo = {}
  BY <1>1 DEF BuildsHold, BuildsFit, FitsBuild, PlanBuild
<1>4. Y \in BuildRow
  BY <1>3, ContentsAreTexts DEF BuildRow
<1>5. FitsBuild(Y, generations'[g].fingerprint)
  BY <1>3 DEF FitsBuild, BuildRow
<1>6. \A h \in Gens : /\ Exists(h)' <=> Exists(h)
                      /\ generations'[h].fingerprint = generations[h].fingerprint
  BY <1>1, <1>2, CallKeeps
<1>7. rows[g] \in RowMaps /\ rows' = [rows EXCEPT ![g] = rows[g]]
  BY <1>1 DEF PlanBuild, BuildsHold
<1>8. build' = [build EXCEPT ![g] = Y]
  BY <1>2
<1>9. Exists(g)
  BY <1>2 DEF RecordBuildPlan, Exists
<1>10. \A i \in DOMAIN rows[g] :
         rows[g][i].vec = Vector(rows[g][i].text, generations'[g].fingerprint)
  BY <1>1, <1>6 DEF BuildsHold, VectorsAreTheirRows
<1> HIDE DEF Y
<1> QED BY <1>1, <1>4, <1>5, <1>6, <1>7, <1>8, <1>9, <1>10, BuildFrame

(* A vector may be reused only in the space it was made in, and the active *)
(* generation's rows are right.                                            *)
LEMMA MatchesFit ==
  ASSUME VecIInv, NEW g \in Gens, Exists(g),
         NEW f \in Matches(build[g].texts,
                           Reusable(generations[g].source_id, generations[g].fingerprint))
  PROVE  /\ f \in VectorMaps
         /\ \A i \in DOMAIN f :
              i \in DOMAIN build[g].texts
              /\ f[i] = Vector(build[g].texts[i], generations[g].fingerprint)
<1> DEFINE s == generations[g].source_id
           fp == generations[g].fingerprint
           offered == Reusable(s, fp)
           texts == build[g].texts
           known == {i \in DOMAIN texts : \E r \in offered : r.text = texts[i]}
<1>1. TypeOK /\ ActiveIndexComplete /\ s \in Sources
  BY OwnerIsSource DEF VecIInv, Tables, IndexInv
<1>2. \A r \in offered : r.text \in Texts /\ r.vec = Vector(r.text, fp)
  <2> SUFFICES ASSUME NEW r \in offered
               PROVE  r.text \in Texts /\ r.vec = Vector(r.text, fp)
    OBVIOUS
  <2>1. sources[s].active # Null
    BY DEF Reusable
  <2> DEFINE a == sources[s].active
  <2>2. a \in Gens
    BY <1>1, <2>1, ActiveIsPublished
  <2>3. PICK i \in DOMAIN rows[a] : r = rows[a][i] /\ generations[a].fingerprint = fp
    BY <2>1 DEF Reusable
  <2>4. rows[a] \in RowMaps /\ rows[a][i].vec = Vector(rows[a][i].text, generations[a].fingerprint)
    BY <2>2, <2>3 DEF VecIInv, VecTyped, VectorsAreTheirRows
  <2>5. rows[a][i] \in [text : Texts, vec : Texts \X Spaces]
    <3> DEFINE Row == [text : Texts, vec : Texts \X Spaces]
    <3> HIDE DEF Row
    <3>1. PICK D \in SUBSET Positions : rows[a] \in [D -> Row]
      BY <2>4 DEF RowMaps, Row
    <3>2. rows[a][i] \in Row
      BY <2>3, <3>1
    <3> QED BY <3>2 DEF Row
  <2> QED BY <2>3, <2>4, <2>5
<1>3. texts \in TextMaps
  BY DEF VecIInv, VecTyped, BuildRow
<1>4. fp \in Spaces
  BY <1>1 DEF TypeOK, GenerationRow, Spaces
<1>5. f \in [known -> {r.vec : r \in offered}]
      /\ \A i \in known : \E r \in offered : r.text = texts[i] /\ r.vec = f[i]
  BY DEF Matches
<1>6. known \in SUBSET Positions /\ DOMAIN f = known
  BY <1>3, <1>5 DEF TextMaps
<1> HIDE DEF s, fp, offered, texts
<1>7. \A i \in known : f[i] = Vector(texts[i], fp) /\ f[i] \in Texts \X Spaces
  <2> SUFFICES ASSUME NEW i \in known
               PROVE  f[i] = Vector(texts[i], fp) /\ f[i] \in Texts \X Spaces
    OBVIOUS
  <2>1. PICK r \in offered : r.text = texts[i] /\ r.vec = f[i]
    BY <1>5
  <2>2. r.text \in Texts /\ r.vec = Vector(r.text, fp)
    BY <1>2
  <2> QED BY <2>1, <2>2, <1>4 DEF Vector
<1>8. f \in [known -> Texts \X Spaces]
  BY <1>5, <1>7
<1>9. f \in VectorMaps
  BY <1>6, <1>8 DEF VectorMaps
<1> QED BY <1>6, <1>7, <1>9 DEF fp, texts

LEMMA ReuseKeeps ==
  ASSUME VecIInv, NEW g \in Gens, FindReusable(g)
  PROVE  BuildsHold'
<1>1. BuildsHold /\ TypeOK
  BY DEF VecIInv, Tables, IndexInv, VecTyped, BuildsHold
<1>2. Exists(g)
  BY <1>1 DEF BuildsHold, GoneIsEmpty, NoBuild, FindReusable
<1> DEFINE T == {i \in DOMAIN build[g].texts : i % BatchSize = 0}
<1>3. PICK f \in Matches(build[g].texts,
                        Reusable(generations[g].source_id, generations[g].fingerprint)) :
        build' = [build EXCEPT ![g].step = "storing", ![g].reused = f, ![g].todo = T]
  BY DEF FindReusable
<1> DEFINE Y == [build[g] EXCEPT !.step = "storing", !.reused = f, !.todo = T]
<1>4. /\ f \in VectorMaps
      /\ \A i \in DOMAIN f :
           i \in DOMAIN build[g].texts
           /\ f[i] = Vector(build[g].texts[i], generations[g].fingerprint)
  BY <1>2, MatchesFit
<1>5. build[g] \in BuildRow /\ T \in SUBSET Positions /\ T \subseteq DOMAIN build[g].texts
  BY <1>1 DEF BuildsHold, BuildRow, TextMaps
<1>6. generations' = generations /\ rows' = rows
  BY DEF FindReusable, vars
<1> HIDE DEF T
<1>7. Y \in BuildRow
  BY <1>4, <1>5 DEF BuildRow
<1>8. FitsBuild(Y, generations'[g].fingerprint)
  BY <1>4, <1>5, <1>6 DEF FitsBuild, BuildRow
<1>9. build' = [build EXCEPT ![g] = Y]
  BY <1>3
<1>10. rows[g] \in RowMaps /\ rows' = [rows EXCEPT ![g] = rows[g]]
  BY <1>1, <1>6 DEF BuildsHold
<1>11. \A i \in DOMAIN rows[g] :
         rows[g][i].vec = Vector(rows[g][i].text, generations'[g].fingerprint)
  BY <1>1, <1>6 DEF BuildsHold, VectorsAreTheirRows
<1>12. \A h \in Gens : /\ Exists(h)' <=> Exists(h)
                       /\ generations'[h].fingerprint = generations[h].fingerprint
  BY <1>6 DEF Exists
<1> HIDE DEF Y
<1> QED BY <1>1, <1>2, <1>7, <1>8, <1>9, <1>10, <1>11, <1>12, BuildFrame

LEMMA EmbedKeeps ==
  ASSUME VecIInv, NEW g \in Gens, NEW base \in build[g].todo, EmbedBatch(g, base)
  PROVE  BuildsHold'
<1>1. BuildsHold /\ TypeOK
  BY DEF VecIInv, Tables, IndexInv, VecTyped, BuildsHold
<1>2. PICK arrived \in Answers(Len(ToEmbed(g, base))) :
        LET stored == BatchRows(g, base, arrived) IN
          /\ \A i \in DOMAIN stored : stored[i].vec # Missing
          /\ StoreChunkBatch(g, generations[g].source_id, DOMAIN stored)
          /\ rows' = [rows EXCEPT ![g] = Upserted(@, stored)]
  BY DEF EmbedBatch
<1> DEFINE stored == BatchRows(g, base, arrived)
           X == Upserted(rows[g], stored)
           Y == [build[g] EXCEPT !.todo = @ \ {base}]
           fp == generations[g].fingerprint
<1>3. \A i \in DOMAIN stored :
        stored[i] = [text |-> build[g].texts[i], vec |-> Vector(build[g].texts[i], fp)]
  <2> SUFFICES ASSUME NEW i \in DOMAIN stored
               PROVE  stored[i] = [text |-> build[g].texts[i],
                                   vec |-> Vector(build[g].texts[i], fp)]
    OBVIOUS
  <2>1. build[g].step = "storing"
    BY DEF EmbedBatch
  <2> QED BY <1>2, <2>1, BatchFits
<1>4. generations' = generations /\ build' = [build EXCEPT ![g] = Y]
  BY <1>2 DEF StoreChunkBatch, EmbedBatch
<1>5. rows' = [rows EXCEPT ![g] = X]
  BY <1>2
<1>6. Exists(g)
  BY <1>2 DEF StoreChunkBatch, Owned
<1>7. build[g] \in BuildRow /\ FitsBuild(build[g], fp)
  BY <1>1 DEF BuildsHold, BuildsFit
<1>8. Y \in BuildRow
  BY <1>7 DEF BuildRow
<1>9. FitsBuild(Y, generations'[g].fingerprint)
  BY <1>4, <1>7 DEF FitsBuild, BuildRow
<1>10. DOMAIN stored \in SUBSET Positions /\ DOMAIN stored \subseteq DOMAIN build[g].texts
  BY BatchIsStored DEF BatchRows
<1>11. build[g].texts \in TextMaps /\ fp \in Spaces
  BY <1>1, <1>7 DEF BuildRow, TypeOK, GenerationRow, Spaces
<1>12. \A i \in DOMAIN stored : stored[i] \in [text : Texts, vec : Texts \X Spaces]
  <2>1. \A i \in DOMAIN build[g].texts : build[g].texts[i] \in Texts
    BY <1>11 DEF TextMaps
  <2> HIDE DEF stored, fp
  <2> QED BY <2>1, <1>3, <1>10, <1>11 DEF Vector
<1>13. PICK D \in SUBSET Positions : rows[g] \in [D -> [text : Texts, vec : Texts \X Spaces]]
  BY <1>1 DEF BuildsHold, RowMaps
<1>14. X \in [D \cup DOMAIN stored -> [text : Texts, vec : Texts \X Spaces]]
  <2> HIDE DEF stored
  <2> QED BY <1>12, <1>13 DEF Upserted
<1>15. X \in RowMaps
  <2>1. D \cup DOMAIN stored \in SUBSET Positions
    BY <1>10
  <2> HIDE DEF X, stored
  <2> QED BY <1>14, <2>1 DEF RowMaps
<1>16. \A i \in DOMAIN X : X[i].vec = Vector(X[i].text, generations'[g].fingerprint)
  <2>1. \A i \in DOMAIN rows[g] : rows[g][i].vec = Vector(rows[g][i].text, fp)
    BY <1>1 DEF BuildsHold, VectorsAreTheirRows
  <2>2. \A i \in DOMAIN stored : stored[i].vec = Vector(stored[i].text, fp)
    BY <1>3
  <2> HIDE DEF stored
  <2> QED BY <2>1, <2>2, <1>4 DEF Upserted
<1>17. \A h \in Gens : Exists(h)' <=> Exists(h)
  BY <1>4 DEF Exists
<1>18. \A h \in Gens : generations'[h].fingerprint = generations[h].fingerprint
  BY <1>4
<1> HIDE DEF X, Y
<1> QED BY <1>1, <1>4, <1>5, <1>6, <1>8, <1>9, <1>15, <1>16, <1>17, <1>18, BuildFrame

(* A build that is published or given up.                                  *)
LEMMA EndKeeps ==
  ASSUME VecIInv, NEW g \in Gens, PublishBuild(g) \/ FailBuild(g)
  PROVE  BuildsHold'
<1>1. BuildsHold /\ TypeOK
  BY DEF VecIInv, Tables, IndexInv, VecTyped, BuildsHold
<1>2. Publish(g, generations[g].source_id, now) \/ MarkFailed(g, generations[g].source_id)
  BY DEF PublishBuild, FailBuild
<1>3. \A h \in Gens : Exists(h)' <=> Exists(h)
  BY <1>1, <1>2, CallKeeps
<1>4. \A h \in Gens : generations'[h].fingerprint = generations[h].fingerprint
  BY <1>1, <1>2, CallKeeps
<1>5. Exists(g)
  BY <1>1 DEF BuildsHold, GoneIsEmpty, NoBuild, PublishBuild, FailBuild
<1>6. rows' = rows /\ build' = [build EXCEPT ![g] = NoBuild]
  BY DEF PublishBuild, FailBuild
<1>7. rows[g] \in RowMaps /\ rows' = [rows EXCEPT ![g] = rows[g]]
  BY <1>1, <1>6 DEF BuildsHold
<1>8. \A i \in DOMAIN rows[g] :
        rows[g][i].vec = Vector(rows[g][i].text, generations'[g].fingerprint)
  BY <1>1, <1>4 DEF BuildsHold, VectorsAreTheirRows
<1> QED BY <1>1, <1>3, <1>4, <1>5, <1>6, <1>7, <1>8, NoBuildFits, BuildFrame

(* The calls that no build makes: what they take, they take with its rows. *)
LEMMA OthersKeep ==
  ASSUME VecIInv, OtherCalls
  PROVE  BuildsHold'
<1>1. BuildsHold /\ TypeOK
  BY DEF VecIInv, Tables, IndexInv, VecTyped, BuildsHold
<1>2. ASSUME NEW g \in Gens
      PROVE  generations'[g] = generations[g] \/ generations'[g].state = "deleted"
  <2>1. ASSUME NEW s \in Sources, DeleteSource(s)
        PROVE  generations'[g] = generations[g] \/ generations'[g].state = "deleted"
    <3>1. {h \in Gens : Owned(h, s)} \in SUBSET Gens /\ Drop({h \in Gens : Owned(h, s)})
      BY <2>1 DEF DeleteSource
    <3> QED BY <1>1, <3>1, DropEffect
  <2> QED BY <2>1 DEF OtherCalls, CreateSource, RollbackToPrevious
<1>3. ASSUME NEW g \in Gens
      PROVE  /\ Exists(g)' => /\ rows'[g] = rows[g] /\ build'[g] = build[g]
                              /\ generations'[g].fingerprint = generations[g].fingerprint
             /\ ~Exists(g)' => rows'[g] = <<>> /\ build'[g] = NoBuild
  BY <1>2 DEF OtherCalls, Cascade, Exists
<1>4. rows' \in [Gens -> RowMaps] /\ build' \in [Gens -> BuildRow]
  <2>1. rows' = [g \in Gens |-> IF Exists(g)' THEN rows[g] ELSE <<>>]
        /\ build' = [g \in Gens |-> IF Exists(g)' THEN build[g] ELSE NoBuild]
    BY DEF OtherCalls, Cascade
  <2> QED BY <1>1, <2>1, EmptyIsTyped, NoBuildFits DEF BuildsHold
<1>5. BuildsFit'
  <2> SUFFICES ASSUME NEW g \in Gens PROVE FitsBuild(build'[g], generations'[g].fingerprint)
    BY DEF BuildsFit, FitsBuild, Vector
  <2>1. FitsBuild(build[g], generations[g].fingerprint)
    BY <1>1 DEF BuildsHold, BuildsFit
  <2> QED BY <1>3, <2>1, NoBuildFits
<1>6. GoneIsEmpty'
  BY <1>3 DEF GoneIsEmpty, NoBuild
<1>7. VectorsAreTheirRows'
  BY <1>1, <1>3, EmptyMap DEF BuildsHold, VectorsAreTheirRows, Vector
<1> QED BY <1>4, <1>5, <1>6, <1>7 DEF BuildsHold, RowMaps, BuildRow, TextMaps, VectorMaps, Spaces

LEMMA BuildsStay ==
  ASSUME VecIInv, [VecNext]_<<vars, vecVars>>
  PROVE  BuildsHold'
<1>1. CASE UNCHANGED <<generations, rows, build>>
  BY <1>1
     DEF VecIInv, VecTyped, BuildsHold, BuildsFit, FitsBuild, GoneIsEmpty, NoBuild, Exists,
         VectorsAreTheirRows, Vector, RowMaps, BuildRow, TextMaps, VectorMaps, Spaces
<1> QED
  BY <1>1, StartKeeps, PlanKeeps, ReuseKeeps, EmbedKeeps, EndKeeps, OthersKeep
     DEF VecNext, CheckSpaces, SearchDense, SearchLexical, EndSearch, vars, vecVars

(* What a search sees is one row per active index.                         *)
LEMMA IndexesAreRows ==
  ASSUME VecIInv
  PROVE  ActiveIndexes \in SUBSET IndexRow
<1> SUFFICES ASSUME NEW s \in Sources, sources[s].active # Null
             PROVE  [source |-> s, gen |-> sources[s].active,
                     fp |-> generations[sources[s].active].fingerprint,
                     rows |-> rows[sources[s].active]] \in IndexRow
  BY DEF ActiveIndexes
<1>1. sources[s].active \in Gens
  BY ActiveIsPublished DEF VecIInv, Tables, IndexInv
<1>2. generations[sources[s].active].fingerprint \in Spaces
  BY <1>1 DEF VecIInv, Tables, IndexInv, TypeOK, GenerationRow, Spaces
<1>3. rows[sources[s].active] \in RowMaps
  BY <1>1 DEF VecIInv, VecTyped
<1> QED BY <1>1, <1>2, <1>3 DEF IndexRow

SearchHolds == search \in SearchRow /\ SearchFits /\ SearchIsWhole

LEMMA SearchStays ==
  ASSUME VecIInv, [VecNext]_<<vars, vecVars>>
  PROVE  SearchHolds'
<1>1. SearchHolds
  BY DEF VecIInv, VecTyped, SearchHolds
<1>2. CASE search' = search
  BY <1>1, <1>2 DEF SearchHolds, SearchRow, SearchFits, SearchIsWhole, IndexRow, RowMaps, Spaces
<1>3. ASSUME search' \in SearchRow, SearchFits', SearchIsWhole' PROVE SearchHolds'
  BY <1>3 DEF SearchHolds, SearchRow, IndexRow, RowMaps, Spaces
<1>4. NoSearch \in SearchRow
  BY DEF NoSearch, SearchRow, Spaces
<1>5. ASSUME NEW fp \in Fingerprints, CheckSpaces(fp) PROVE SearchHolds'
  <2>1. search' = [NoSearch EXCEPT !.fp = fp, !.snapshot = ActiveIndexes,
                     !.step = IF \A x \in ActiveIndexes : x.fp = fp
                              THEN "checked" ELSE "mismatch"]
    BY <1>5 DEF CheckSpaces
  <2> DEFINE S == ActiveIndexes
             whole == \A x \in S : x.fp = fp
  <2>2. S \in SUBSET IndexRow
    BY IndexesAreRows
  <2>3. search' = [step |-> IF whole THEN "checked" ELSE "mismatch", fp |-> fp, snapshot |-> S,
                   dense |-> {}, lexical |-> {}]
    BY <2>1 DEF NoSearch
  <2> HIDE DEF S
  <2>4. search' \in SearchRow
    BY <2>2, <2>3 DEF SearchRow, Spaces
  <2>5. SearchFits' /\ SearchIsWhole'
    BY <2>3 DEF SearchFits, SearchIsWhole
  <2> QED BY <1>3, <2>4, <2>5
<1>6. CASE SearchDense
  <2>1. /\ search.step = "checked" /\ search \in SearchRow
        /\ search' = [search EXCEPT !.step = "dense", !.dense = InSpace(search.fp)]
    BY <1>1, <1>6 DEF SearchDense, SearchHolds
  <2>2. InSpace(search.fp) = search.snapshot
    BY <1>1, <2>1 DEF InSpace, Visible, SearchHolds, SearchFits
  <2>3. search' \in SearchRow
    BY <2>1, <2>2 DEF SearchRow
  <2>4. SearchFits' /\ SearchIsWhole'
    BY <1>1, <2>1, <2>2 DEF SearchHolds, SearchRow, SearchFits, SearchIsWhole
  <2> QED BY <1>3, <2>3, <2>4
<1>7. CASE SearchLexical
  <2>1. PICK found \in {{}, InSpace(search.fp)} :
          search' = [search EXCEPT !.step = "done", !.lexical = found]
    BY <1>7 DEF SearchLexical
  <2>2. search.step = "dense" /\ search \in SearchRow
    BY <1>1, <1>7 DEF SearchLexical, SearchHolds
  <2>3. InSpace(search.fp) = search.snapshot
    BY <1>1, <2>2 DEF InSpace, Visible, SearchHolds, SearchFits
  <2>4. search' \in SearchRow
    BY <2>1, <2>2, <2>3 DEF SearchRow
  <2>5. SearchFits' /\ SearchIsWhole'
    BY <1>1, <2>1, <2>2, <2>3 DEF SearchHolds, SearchRow, SearchFits, SearchIsWhole
  <2> QED BY <1>3, <2>4, <2>5
<1>8. CASE EndSearch
  <2>1. search' = NoSearch
    BY <1>8 DEF EndSearch
  <2>2. SearchFits' /\ SearchIsWhole'
    BY <2>1 DEF NoSearch, SearchFits, SearchIsWhole
  <2> QED BY <1>3, <1>4, <2>1, <2>2
<1> QED
  BY <1>2, <1>5, <1>6, <1>7, <1>8
     DEF VecNext, StartBuild, PlanBuild, FindReusable, EmbedBatch, PublishBuild, FailBuild,
         OtherCalls, vecVars

LEMMA VecStep == VecIInv /\ [VecNext]_<<vars, vecVars>> => VecIInv'
<1> SUFFICES ASSUME VecIInv, [VecNext]_<<vars, vecVars>> PROVE VecIInv'
  OBVIOUS
<1>1. Tables' /\ BuildsHold' /\ SearchHolds'
  BY TablesStay, BuildsStay, SearchStays
<1>2. VecTyped'
  BY <1>1 DEF BuildsHold, SearchHolds, VecTyped
<1> QED BY <1>1, <1>2 DEF BuildsHold, SearchHolds, VecIInv

(* Every stored vector is the embedding of its own row in the space of its *)
(* generation, whatever the provider answered and wherever the vector was  *)
(* taken from, and a search that answers has read whole indexes of its     *)
(* query's space.                                                          *)
THEOREM VectorsStayTheirs == VecSpec => []VectorsInv
<1>1. VecIInv => VectorsInv
  BY DEF VecIInv, VectorsInv
<1> QED BY <1>1, VecInitially, VecStep, PTL DEF VecSpec

(* Builds and searches work on the tables by the calls of IndexGenerations *)
(* alone, so that what is proved of these holds of them.                   *)
THEOREM VectorsMakeCalls == VecSpec => Spec
<1>1. VecInit => Init
  BY DEF VecInit
<1>2. VecIInv /\ [VecNext]_<<vars, vecVars>> => [Next]_vars
  BY CallsOnly
<1> QED BY <1>1, <1>2, VecInitially, VecStep, PTL DEF VecSpec, Spec

=============================================================================
