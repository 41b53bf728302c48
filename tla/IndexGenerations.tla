-------------------------- MODULE IndexGenerations --------------------------
(***************************************************************************)
(* The lifecycle of a source index as the repositories expose it: every    *)
(* public call of GenerationRepository, and the calls of SourceRepository  *)
(* and ChunkRepository that touch the same rows, is one atomic action.     *)
(* IndexTransactions opens the transactions up into their statements and   *)
(* row locks and is shown to implement this module.                        *)
(*                                                                         *)
(* The three variables `sources', `generations' and `chunks' are the three *)
(* tables.  Callers are unconstrained: any call may come at any time with  *)
(* any arguments, which is how a superseded worker, a retried batch or an  *)
(* operator looks to the database.                                         *)
(***************************************************************************)
EXTENDS Integers, FiniteSets

CONSTANTS
  Sources,        \* ids of rows of `sources'
  Gens,           \* ids of rows of `source_index_generations', ordered
  Positions,      \* chunk_index values a build may store
  Fingerprints,   \* embedding fingerprints a provider may report
  Null,           \* NULL, and the empty columns of a row not inserted yet
  Retention,      \* retention_hours, in ticks
  StaleAfter,     \* older_than_secs, in ticks
  MaxTime         \* bound on the clock

ASSUME GensAssumption == Gens \subseteq Nat
ASSUME NullAssumption == Null \notin Gens \cup Sources \cup Fingerprints
ASSUME PositionsAssumption == IsFiniteSet(Positions)
ASSUME TimeAssumption == Retention \in Nat /\ StaleAfter \in Nat /\ MaxTime \in Nat

VARIABLES
  now,            \* the database clock
  sources,        \* Sources -> row
  generations,    \* Gens -> row
  chunks          \* Gens -> positions stored under the generation

vars == <<now, sources, generations, chunks>>

-----------------------------------------------------------------------------
(* Rows. *)

NoPlan == -1      \* expected_chunk_count IS NULL

(* "busy" stands for pending, processing and embedding: the repositories   *)
(* never tell the three apart.                                             *)
Statuses == {"busy", "ready", "error"}

(* What the callers of update_status pass: never "ready".                  *)
WrittenStatuses == {"busy", "error"}

SourceRow ==
  [row: {"absent", "live", "deleted"},
   active: Gens \cup {Null},
   status: Statuses,
   chunk_count: Nat]

GenerationRow ==
  [state: {"absent", "building", "published", "failed", "deleted"},
   source_id: Sources \cup {Null},
   fingerprint: Fingerprints \cup {Null},
   created_at: Nat,
   published_at: Nat,
   expected: Nat \cup {NoPlan},
   stored: Nat]

TypeOK ==
  /\ now \in Nat
  /\ sources \in [Sources -> SourceRow]
  /\ generations \in [Gens -> GenerationRow]
  /\ chunks \in [Gens -> SUBSET Positions]

Live(s) == sources[s].row = "live"

Exists(g) == generations[g].state \in {"building", "published", "failed"}

Owned(g, s) == Exists(g) /\ generations[g].source_id = s

Building(s) == {g \in Gens : Owned(g, s) /\ generations[g].state = "building"}

OlderThan(g, age) == generations[g].created_at + age < now

NewSource(row) ==
  [row |-> row, active |-> Null, status |-> "busy", chunk_count |-> 0]

NewGeneration(state, s, fp, t) ==
  [state |-> state, source_id |-> s, fingerprint |-> fp,
   created_at |-> t, published_at |-> 0, expected |-> NoPlan, stored |-> 0]

-----------------------------------------------------------------------------
(* Queries. *)

(* ORDER BY published_at DESC, id DESC LIMIT 1, as the set of its rows.    *)
Later(g, h) ==
  \/ generations[g].published_at > generations[h].published_at
  \/ /\ generations[g].published_at = generations[h].published_at
     /\ g > h

Newest(S) == {g \in S : \A h \in S \ {g} : Later(g, h)}

(* A slip: any published generation, whatever vector space it is in.       *)
PredecessorsAnySpace(s) ==
  IF sources[s].active = Null THEN {}
  ELSE {g \in Gens : /\ Owned(g, s)
                     /\ generations[g].state = "published"
                     /\ g # sources[s].active}

(* Published generations of s that share the active one's vector space.    *)
Predecessors(s) ==
  IF sources[s].active = Null THEN {}
  ELSE {g \in Gens :
          /\ Owned(g, s)
          /\ generations[g].state = "published"
          /\ g # sources[s].active
          /\ generations[g].fingerprint
               = generations[sources[s].active].fingerprint}

PreviousPublished(s) == Newest(Predecessors(s))

(* A slip: the rollback target is not excluded.                            *)
ReclaimableTargetToo(s, at) ==
  {g \in Gens : /\ Owned(g, s)
                /\ g # sources[s].active
                /\ generations[g].created_at + Retention < at
                /\ generations[g].state # "building"}

(* The age is taken at the transaction's start, its now().                 *)
Reclaimable(s, at) ==
  {g \in Gens :
     /\ Owned(g, s)
     /\ g # sources[s].active
     /\ g \notin PreviousPublished(s)
     /\ generations[g].created_at + Retention < at
     /\ generations[g].state # "building"}

(* A slip: a failed build always gives the source its index back.          *)
DerivedStatusReady(s) == "ready"

(* status = CASE WHEN active_generation_id IS NULL THEN 'error' ELSE 'ready' *)
DerivedStatus(s) == IF sources[s].active = Null THEN "error" ELSE "ready"

(* A slip: the stored rows are not compared with the declared count.       *)
PublishableUncounted(g, s) ==
  /\ Owned(g, s)
  /\ generations[g].state = "building"
  /\ chunks[g] # {}
  /\ generations[g].expected # NoPlan

(* What VALIDATE_VECTORS, SYNC_STORED_COUNT and PUBLISH_GENERATION demand. *)
(* Widths are the column's, so only the number of rows can be wrong.       *)
Publishable(g, s) ==
  /\ Owned(g, s)
  /\ generations[g].state = "building"
  /\ chunks[g] # {}
  /\ generations[g].expected # NoPlan
  /\ generations[g].expected = Cardinality(chunks[g])

-----------------------------------------------------------------------------
(* Operations. *)

Init ==
  /\ now = 0
  /\ sources = [s \in Sources |-> NewSource("absent")]
  /\ generations = [g \in Gens |-> NewGeneration("absent", Null, Null, 0)]
  /\ chunks = [g \in Gens |-> {}]

Tick ==
  /\ now < MaxTime
  /\ now' = now + 1
  /\ UNCHANGED <<sources, generations, chunks>>

CreateSource(s) ==
  /\ sources[s].row = "absent"
  /\ sources' = [sources EXCEPT ![s] = NewSource("live")]
  /\ UNCHANGED <<now, generations, chunks>>

(* INSERT .. ON CONFLICT (source_id) WHERE (state = 'building') DO NOTHING *)
Claim(s, g, fp) ==
  /\ Live(s)
  /\ Building(s) = {}
  /\ generations[g].state = "absent"
  /\ generations' = [generations EXCEPT ![g] = NewGeneration("building", s, fp, now)]
  /\ UNCHANGED <<now, sources, chunks>>

RecordBuildPlan(g, n) ==
  /\ generations[g].state = "building"
  /\ generations' = [generations EXCEPT ![g].expected = n]
  /\ UNCHANGED <<now, sources, chunks>>

(* The batch's shared lock admits it only while the generation is building; *)
(* a position stored twice is overwritten, not duplicated.                 *)
StoreChunkBatch(g, s, B) ==
  /\ Owned(g, s)
  /\ generations[g].state = "building"
  /\ chunks' = [chunks EXCEPT ![g] = @ \cup B]
  /\ UNCHANGED <<now, sources, generations>>

(* published_at is the start of the publishing transaction, so it may lie  *)
(* anywhere between the claim and the commit.                              *)
Publish(g, s, at) ==
  /\ Publishable(g, s)
  /\ at \in generations[g].created_at .. now
  /\ generations' = [generations EXCEPT ![g].state = "published",
                                        ![g].published_at = at,
                                        ![g].stored = Cardinality(chunks[g])]
  /\ sources' = [sources EXCEPT ![s].active = g,
                                ![s].chunk_count = Cardinality(chunks[g]),
                                ![s].status = "ready"]
  /\ UNCHANGED <<now, chunks>>

(* RESTORE_SOURCE_STATUS in the state `gens' the transaction's first       *)
(* statement left.  Its NOT EXISTS reads the statement's snapshot, so a    *)
(* claim that commits meanwhile may be missed: then the status is written. *)
RestoreStatus(s) ==
  \/ sources' = [sources EXCEPT ![s].status = DerivedStatus(s)]
  \/ /\ \E g \in Gens : /\ generations'[g].source_id = s
                        /\ generations'[g].state = "building"
     /\ UNCHANGED sources

(* A slip: MARK_FAILED without its WHERE state = 'building'.               *)
MarkFailedAnyState(g, s) ==
  /\ Live(s)
  /\ Owned(g, s)
  /\ generations' = [generations EXCEPT ![g].state = "failed"]
  /\ RestoreStatus(s)
  /\ UNCHANGED <<now, chunks>>

MarkFailed(g, s) ==
  /\ Live(s)
  /\ generations[g].source_id = s
  /\ generations' =
       IF generations[g].state = "building"
       THEN [generations EXCEPT ![g].state = "failed"] ELSE generations
  /\ RestoreStatus(s)
  /\ UNCHANGED <<now, chunks>>

(* One iteration of the loop of fail_stale_builds.                         *)
FailStaleBuild(g) ==
  /\ generations[g].state = "building"
  /\ OlderThan(g, StaleAfter)
  /\ generations' = [generations EXCEPT ![g].state = "failed"]
  /\ RestoreStatus(generations[g].source_id)
  /\ UNCHANGED <<now, chunks>>

RollbackToPrevious(s) ==
  /\ Live(s)
  /\ \E g \in PreviousPublished(s) :
       sources' = [sources EXCEPT ![s].active = g,
                                  ![s].chunk_count = generations[g].stored,
                                  ![s].status = "ready"]
  /\ UNCHANGED <<now, generations, chunks>>

(* Deleting a generation row cascades to its chunks.                       *)
Drop(D) ==
  /\ generations' =
       [g \in Gens |->
          IF g \in D
          THEN NewGeneration("deleted", generations[g].source_id, Null, 0)
          ELSE generations[g]]
  /\ chunks' = [g \in Gens |-> IF g \in D THEN {} ELSE chunks[g]]

(* The transaction may have waited for the source's row since it started.  *)
Reclaim(s) ==
  /\ Live(s)
  /\ \E at \in 0 .. now : Reclaimable(s, at) # {} /\ Drop(Reclaimable(s, at))
  /\ UNCHANGED <<now, sources>>

DeleteSource(s) ==
  /\ Live(s)
  /\ sources' = [sources EXCEPT ![s] = NewSource("deleted")]
  /\ Drop({g \in Gens : Owned(g, s)})
  /\ UNCHANGED now

(* update_status names no generation and checks nothing.                   *)
UpdateStatus(s, st) ==
  /\ Live(s)
  /\ sources' = [sources EXCEPT ![s].status = st]
  /\ UNCHANGED <<now, generations, chunks>>

Next ==
  \/ Tick
  \/ \E s \in Sources : CreateSource(s)
  \/ \E s \in Sources, g \in Gens, fp \in Fingerprints : Claim(s, g, fp)
  \/ \E g \in Gens, n \in 0 .. Cardinality(Positions) : RecordBuildPlan(g, n)
  \/ \E g \in Gens, s \in Sources, B \in (SUBSET Positions) \ {{}} : StoreChunkBatch(g, s, B)
  \/ \E g \in Gens, s \in Sources, at \in 0 .. MaxTime : Publish(g, s, at)
  \/ \E g \in Gens, s \in Sources : MarkFailed(g, s)
  \/ \E g \in Gens : FailStaleBuild(g)
  \/ \E s \in Sources : RollbackToPrevious(s)
  \/ \E s \in Sources : Reclaim(s)
  \/ \E s \in Sources : DeleteSource(s)
  \/ \E s \in Sources, st \in WrittenStatuses : UpdateStatus(s, st)

Spec == Init /\ [][Next]_vars

-----------------------------------------------------------------------------
(* Properties. *)

(* What search reads through the active pointer is a whole index: a        *)
(* published generation of that very source, holding exactly the chunks    *)
(* its build declared and the source row reports, and at least one.        *)
CompleteIndex(s, g) ==
  /\ Owned(g, s)
  /\ generations[g].state = "published"
  /\ chunks[g] # {}
  /\ generations[g].expected = Cardinality(chunks[g])
  /\ sources[s].chunk_count = Cardinality(chunks[g])

ActiveIndexComplete ==
  \A s \in Sources :
    sources[s].active # Null => CompleteIndex(s, sources[s].active)

(* Every published generation, active or kept for rollback, is complete,   *)
(* so that whatever the pointer can return to is a whole index.            *)
PublishedComplete ==
  \A g \in Gens : generations[g].state = "published" =>
    /\ chunks[g] # {}
    /\ generations[g].expected = Cardinality(chunks[g])
    /\ generations[g].stored = Cardinality(chunks[g])

(* The inductive invariant behind ActiveIndexComplete: a rollback copies   *)
(* stored_chunk_count, so it must be right for every published generation. *)
IndexInv == TypeOK /\ PublishedComplete /\ ActiveIndexComplete

(* A source reported ready has an index to search, whatever interleaving   *)
(* of unguarded status writes, failures and recoveries led there.          *)
ReadyMeansSearchable ==
  \A s \in Sources : sources[s].status = "ready" => sources[s].active # Null

(* At most one worker owns the right to build a source's next index.       *)
OneOwner ==
  \A s \in Sources : \A g, h \in Building(s) : g = h

(* Deleting a source leaves no generation and no chunk of it behind, even  *)
(* when its worker is still storing batches.                               *)
NoOrphans ==
  \A g \in Gens :
    /\ Exists(g) => \E s \in Sources : Owned(g, s) /\ Live(s)
    /\ chunks[g] # {} => Exists(g)

(* Once published or failed, a generation never changes again until it is  *)
(* deleted: no late batch, plan, publication or failure reaches it.        *)
KeepsOutcomes ==
  \A g \in Gens :
    /\ generations[g].state \in {"published", "failed"}
    /\ Exists(g)'
    => generations'[g] = generations[g] /\ chunks'[g] = chunks[g]

OutcomeIsFinal == [][KeepsOutcomes]_vars

(* The pointer only ever moves to the generation this very step published, *)
(* or back into the vector space it is leaving; only deleting the source   *)
(* clears it.                                                              *)
MovesWhole ==
  \A s \in Sources :
    sources[s].active # sources'[s].active =>
      \/ ~Live(s)'
      \/ \E g \in Gens :
           /\ sources'[s].active = g
           /\ \/ /\ generations[g].state = "building"
                 /\ generations'[g].state = "published"
              \/ /\ generations[g].state = "published"
                 /\ sources[s].active # Null
                 /\ generations[g].fingerprint
                      = generations[sources[s].active].fingerprint

PointerMovesWhole == [][MovesWhole]_vars

(* Nothing but deleting the source ever deletes the index search reads or  *)
(* the one a rollback would return to.                                     *)
KeepsTargets ==
  \A s \in Sources : Live(s)' =>
    \A g \in Gens :
      g \in PreviousPublished(s) \cup {sources[s].active}
        => generations'[g].state = "published"

RollbackTargetKept == [][KeepsTargets]_vars

(* What became of a build stays as it is, search moves to whole indexes     *)
(* only, and the way back is not lost.                                      *)
HistoryIsKept == OutcomeIsFinal /\ PointerMovesWhole /\ RollbackTargetKept

(* GENERATION_RETENTION_HOURS: while every build published after g is      *)
(* younger than the retention window, so that g was replaced within it,    *)
(* g stays there for a rollback.                                           *)
ReplacedStaysForRetention ==
  [][\A s \in Sources : Live(s)' =>
       \A g \in Predecessors(s) :
         (\A h \in Predecessors(s) \cup {sources[s].active} :
            Later(h, g) => now - generations[h].published_at <= Retention)
         => Exists(g)']_vars

\* The tables agree with each other between two calls: a source called ready has an index
\* search can read, at most one build owns a source, and nothing outlives the row it belongs to.
TablesAgree == ReadyMeansSearchable /\ OneOwner /\ NoOrphans

=============================================================================
