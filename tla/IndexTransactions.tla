------------------------- MODULE IndexTransactions --------------------------
(***************************************************************************)
(* IndexGenerations with its transactions opened up: each session runs one *)
(* repository call as the statements the code issues, holding PostgreSQL   *)
(* row locks from the statement that takes them until commit, and every    *)
(* write stays private until then.  READ COMMITTED: a statement sees what  *)
(* had committed when it started, and a statement that waited for a lock   *)
(* rechecks the locked row.                                                *)
(*                                                                         *)
(* `now', `sources', `generations' and `chunks' are the committed tables,  *)
(* so this module implements IndexGenerations under the identity mapping:  *)
(* TxnSpec => Spec.  Locks on chunk rows are left out; every writer of     *)
(* chunks already holds a lock on their generation or their source.        *)
(***************************************************************************)
EXTENDS IndexGenerations

CONSTANTS
  Sessions,       \* database connections
  Ops             \* the calls this instance issues

VARIABLE txn      \* Sessions -> the transaction the session has open

txnVars == <<vars, txn>>

AllOps ==
  {"batch", "publish", "fail", "stale", "rollback", "reclaim", "delete", "lease",
   "status"}

ASSUME OpsAssumption == Ops \subseteq AllOps

(* A row lock names its row by the id alone.                               *)
ASSUME RowsAssumption == Gens \cap Sources = {}

-----------------------------------------------------------------------------
(* Row locks.  A lock is a row and a mode; rows are told apart by id.      *)

LockModes == {"key share", "share", "no key update", "update"}

Conflicts(m) ==
  CASE m = "key share"     -> {"update"}
    [] m = "share"         -> {"no key update", "update"}
    [] m = "no key update" -> {"share", "no key update", "update"}
    [] m = "update"        -> LockModes

Rows == Gens \cup Sources

Idle ==
  [op |-> "idle", pc |-> "idle", s |-> Null, g |-> Null, n |-> 0, at |-> 0,
   B |-> {}, todo |-> {}, hit |-> FALSE, held |-> {}]

Blockers(c, row, mode) ==
  {d \in Sessions \ {c} :
     \E l \in txn[d].held : l[1] = row /\ l[2] \in Conflicts(mode)}

CanLock(c, row, mode) == Blockers(c, row, mode) = {}

(* No open transaction stands in the way of a single autocommit statement. *)
CanWrite(row, mode) ==
  \A d \in Sessions :
    ~ \E l \in txn[d].held : l[1] = row /\ l[2] \in Conflicts(mode)

-----------------------------------------------------------------------------
(* The lock the next statement of an open transaction asks for.            *)

LockBuildingMode == "share"            \* SELECT .. FOR SHARE  (batch writer)
LockForPublicationMode == "update"     \* SELECT .. FOR UPDATE (publication)
(* A slip: SELECT .. FOR KEY SHARE, which a pointer move does not wait for. *)
LeaseModeWeak == "key share"

LockSourceMode == "update"             \* SELECT .. FOR UPDATE (rollback, reclaim)
LeaseMode == "share"                   \* SELECT .. FOR SHARE  (citation lease)

(* A slip: publication moves the pointer before it locks the generation.   *)
WantedSourceFirst(c) ==
  LET t == txn[c] IN
  CASE t.op = "publish" /\ t.pc = "lock"    -> {<<t.s, "no key update">>}
    [] t.op = "publish" /\ t.pc = "point"   -> {<<t.g, LockForPublicationMode>>}
    [] t.op \in {"fail", "stale"} /\ t.pc = "mark"
         -> IF generations[t.g].state = "building"
            THEN {<<t.g, "no key update">>} ELSE {}
    [] t.op \in {"fail", "stale"} /\ t.pc = "restoring"
         -> {<<t.s, "no key update">>}
    [] OTHER                                -> {}

Wanted(c) ==
  LET t == txn[c] IN
  CASE t.op = "batch" /\ t.pc = "lock"      -> {<<t.g, LockBuildingMode>>}
    [] t.op = "batch" /\ t.pc = "insert"    -> {<<t.s, "key share">>}
    [] t.op = "publish" /\ t.pc = "lock"    -> {<<t.g, LockForPublicationMode>>}
    [] t.op = "publish" /\ t.pc = "point"   -> {<<t.s, "no key update">>}
    [] t.op \in {"fail", "stale"} /\ t.pc = "mark"
         -> IF generations[t.g].state = "building"
            THEN {<<t.g, "no key update">>} ELSE {}
    [] t.op \in {"fail", "stale"} /\ t.pc = "restoring"
         -> {<<t.s, "no key update">>}
    [] t.op \in {"rollback", "reclaim"} /\ t.pc = "lock" -> {<<t.s, LockSourceMode>>}
    [] t.op = "rollback" /\ t.pc = "point"  -> {<<t.g, "key share">>}
    [] t.op = "reclaim" /\ t.pc = "delete"  -> {<<g, "update">> : g \in t.todo}
    [] t.op = "delete" /\ t.pc = "source"   -> {<<t.s, "update">>}
    [] t.op = "delete" /\ t.pc = "cascade"  -> {<<g, "update">> : g \in t.todo}
    [] t.op = "lease" /\ t.pc = "lock"      -> {<<t.s, LeaseMode>>}
    [] OTHER                                -> {}

Granted(c) == \A l \in Wanted(c) : CanLock(c, l[1], l[2])

WaitsFor(c, d) == \E l \in Wanted(c) : d \in Blockers(c, l[1], l[2])

(* One statement of session c (the locks of a multi-row delete are taken   *)
(* together): it takes the lock it wants and moves on.    *)
At(c, op, pc) == txn[c].op = op /\ txn[c].pc = pc /\ Granted(c)

Goto(c, t) == txn' = [txn EXCEPT ![c] = [t EXCEPT !.held = @ \cup Wanted(c)]]

Step(c, pc) == Goto(c, [txn[c] EXCEPT !.pc = pc])

(* Commit and rollback both end the transaction and free its locks.        *)
End(c) == txn' = [txn EXCEPT ![c] = Idle]

Begin(c, op, pc, s, g) ==
  /\ txn[c] = Idle
  /\ op \in Ops
  /\ txn' = [txn EXCEPT ![c] = [Idle EXCEPT !.op = op, !.pc = pc,
                                            !.s = s, !.g = g, !.at = now]]
  /\ UNCHANGED vars
-----------------------------------------------------------------------------
(* store_batches and store_chunk_batch: lock the generation, insert, commit. *)

BatchBegin(c, g, s, B) ==
  /\ txn[c] = Idle
  /\ "batch" \in Ops
  /\ txn' = [txn EXCEPT ![c] = [Idle EXCEPT !.op = "batch", !.pc = "lock",
                                            !.s = s, !.g = g, !.B = B]]
  /\ UNCHANGED vars

(* A slip: the batch looks at the generation without locking it.           *)
BatchLockless(c) ==
  /\ At(c, "batch", "lock")
  /\ IF txn[c].g \in Building(txn[c].s)
     THEN txn' = [txn EXCEPT ![c].pc = "insert"] ELSE End(c)
  /\ UNCHANGED vars

BatchLock(c) ==
  /\ At(c, "batch", "lock")
  /\ IF txn[c].g \in Building(txn[c].s) THEN Step(c, "insert") ELSE End(c)
  /\ UNCHANGED vars

BatchInsert(c) ==
  /\ At(c, "batch", "insert")
  /\ Step(c, "commit")
  /\ UNCHANGED vars

BatchCommit(c) ==
  /\ At(c, "batch", "commit")
  /\ chunks' = [chunks EXCEPT ![txn[c].g] = @ \cup txn[c].B]
  /\ End(c)
  /\ UNCHANGED <<now, sources, generations>>

-----------------------------------------------------------------------------
(* publish_in_txn: lock, validate and count, move the pointer, commit.     *)

PublishLock(c) ==
  /\ At(c, "publish", "lock")
  /\ IF txn[c].g \in Building(txn[c].s) THEN Step(c, "validate") ELSE End(c)
  /\ UNCHANGED vars

PublishValidate(c) ==
  /\ At(c, "publish", "validate")
  /\ IF Publishable(txn[c].g, txn[c].s)
     THEN Goto(c, [txn[c] EXCEPT !.pc = "point",
                                 !.n = Cardinality(chunks[txn[c].g])])
     ELSE End(c)
  /\ UNCHANGED vars

PublishPoint(c) ==
  /\ At(c, "publish", "point")
  /\ Step(c, "commit")
  /\ UNCHANGED vars

PublishCommit(c) ==
  /\ At(c, "publish", "commit")
  /\ generations' = [generations EXCEPT ![txn[c].g].state = "published",
                                        ![txn[c].g].published_at = txn[c].at,
                                        ![txn[c].g].stored = txn[c].n]
  /\ sources' = [sources EXCEPT ![txn[c].s].active = txn[c].g,
                                ![txn[c].s].chunk_count = txn[c].n,
                                ![txn[c].s].status = "ready"]
  /\ End(c)
  /\ UNCHANGED <<now, chunks>>

-----------------------------------------------------------------------------
(* mark_failed, and one iteration of fail_stale_builds: fail the building  *)
(* row, then derive the source's status.  `hit' is rows_affected() = 1.    *)

StaleSelect(c, g) ==
  /\ generations[g].state = "building"
  /\ OlderThan(g, StaleAfter)
  /\ Begin(c, "stale", "mark", generations[g].source_id, g)

FailMark(c) ==
  /\ \/ At(c, "fail", "mark")
     \/ At(c, "stale", "mark")
  /\ LET hit == generations[txn[c].g].state = "building"
     IN  IF txn[c].op = "stale" /\ ~hit
         THEN End(c)
         ELSE Goto(c, [txn[c] EXCEPT !.pc = "restore", !.hit = hit])
  /\ UNCHANGED vars

(* The UPDATE takes its snapshot: NOT EXISTS (a building generation), not  *)
(* counting the row this transaction itself just failed.                   *)
FailRestore(c) ==
  /\ \/ At(c, "fail", "restore")
     \/ At(c, "stale", "restore")
  /\ LET own == IF txn[c].hit THEN {txn[c].g} ELSE {}
     IN  Step(c, IF Building(txn[c].s) \ own = {} THEN "restoring" ELSE "skipped")
  /\ UNCHANGED vars

(* .. and then waits for the source row.                                   *)
FailRestoring(c) ==
  /\ \/ At(c, "fail", "restoring")
     \/ At(c, "stale", "restoring")
  /\ Step(c, "commit")
  /\ UNCHANGED vars

FailCommit(c) ==
  /\ txn[c].op \in {"fail", "stale"}
  /\ txn[c].pc \in {"commit", "skipped"}
  /\ generations' = IF txn[c].hit
                    THEN [generations EXCEPT ![txn[c].g].state = "failed"]
                    ELSE generations
  /\ sources' = IF txn[c].pc = "commit" /\ Live(txn[c].s)
                THEN [sources EXCEPT ![txn[c].s].status = DerivedStatus(txn[c].s)]
                ELSE sources
  /\ End(c)
  /\ UNCHANGED <<now, chunks>>

-----------------------------------------------------------------------------
(* rollback_to_previous: lock the source, pick the predecessor, point, commit. *)

RollbackLock(c) ==
  /\ At(c, "rollback", "lock")
  /\ IF Live(txn[c].s) THEN Step(c, "select") ELSE End(c)
  /\ UNCHANGED vars

RollbackSelect(c) ==
  /\ At(c, "rollback", "select")
  /\ \/ \E g \in PreviousPublished(txn[c].s) :
          Goto(c, [txn[c] EXCEPT !.pc = "point", !.g = g, !.n = generations[g].stored])
     \/ PreviousPublished(txn[c].s) = {} /\ End(c)
  /\ UNCHANGED vars

RollbackPoint(c) ==
  /\ At(c, "rollback", "point")
  /\ Step(c, "commit")
  /\ UNCHANGED vars

RollbackCommit(c) ==
  /\ At(c, "rollback", "commit")
  /\ sources' = [sources EXCEPT ![txn[c].s].active = txn[c].g,
                                ![txn[c].s].chunk_count = txn[c].n,
                                ![txn[c].s].status = "ready"]
  /\ End(c)
  /\ UNCHANGED <<now, generations, chunks>>

-----------------------------------------------------------------------------
(* reclaim: lock the source, select, delete row by row, commit.            *)

ReclaimLock(c) ==
  /\ At(c, "reclaim", "lock")
  /\ Step(c, "select")
  /\ UNCHANGED vars

ReclaimSelect(c) ==
  /\ At(c, "reclaim", "select")
  /\ IF Reclaimable(txn[c].s, txn[c].at) # {}
     THEN Goto(c, [txn[c] EXCEPT !.pc = "delete", !.todo = Reclaimable(txn[c].s, txn[c].at)])
     ELSE End(c)
  /\ UNCHANGED vars

ReclaimDelete(c) ==
  /\ At(c, "reclaim", "delete")
  /\ Step(c, "commit")
  /\ UNCHANGED vars

ReclaimCommit(c) ==
  /\ At(c, "reclaim", "commit")
  /\ Drop(txn[c].todo)
  /\ End(c)
  /\ UNCHANGED <<now, sources>>

-----------------------------------------------------------------------------
(* SourceRepository::delete: chunks first (their rows stay private until   *)
(* commit), then the source row, then the cascade to its generations.      *)

DeleteChunks(c) ==
  /\ At(c, "delete", "chunks")
  /\ IF Live(txn[c].s) THEN Step(c, "source") ELSE End(c)
  /\ UNCHANGED vars

DeleteSourceRow(c) ==
  /\ At(c, "delete", "source")
  /\ IF Live(txn[c].s)
     THEN Goto(c, [txn[c] EXCEPT !.pc = "cascade",
                                 !.todo = {g \in Gens : Owned(g, txn[c].s)}])
     ELSE End(c)
  /\ UNCHANGED vars

DeleteCascade(c) ==
  /\ At(c, "delete", "cascade")
  /\ Step(c, "commit")
  /\ UNCHANGED vars

DeleteCommit(c) ==
  /\ At(c, "delete", "commit")
  /\ sources' = [sources EXCEPT ![txn[c].s] = NewSource("deleted")]
  /\ Drop(txn[c].todo)
  /\ End(c)
  /\ UNCHANGED now

-----------------------------------------------------------------------------
(* lock_active_generations for one pair, and ActiveGenerationLease::release. *)

LeaseLock(c) ==
  /\ At(c, "lease", "lock")
  /\ IF Live(txn[c].s) /\ sources[txn[c].s].active = txn[c].g
     THEN Step(c, "held")
     ELSE End(c)
  /\ UNCHANGED vars

LeaseRelease(c) ==
  /\ At(c, "lease", "held")
  /\ End(c)
  /\ UNCHANGED vars

-----------------------------------------------------------------------------
(* Calls that are one autocommit statement wait for the same row locks.    *)

Autocommit ==
  \/ Tick
  \/ \E s \in Sources : CreateSource(s)
  \/ \E s \in Sources, g \in Gens, fp \in Fingerprints :
       /\ CanWrite(s, "key share")
       /\ Claim(s, g, fp)
  \/ \E g \in Gens, n \in 0 .. Cardinality(Positions) :
       /\ CanWrite(g, "no key update")
       /\ RecordBuildPlan(g, n)
  \/ \E s \in Sources, st \in WrittenStatuses :
       /\ "status" \in Ops
       /\ CanWrite(s, "no key update")
       /\ UpdateStatus(s, st)

Start(c) ==
  \/ \E g \in Gens, s \in Sources, B \in (SUBSET Positions) \ {{}} :
       Owned(g, s) /\ BatchBegin(c, g, s, B)
  \/ \E g \in Gens, s \in Sources :
       /\ generations[g].source_id = s
       /\ \/ Begin(c, "publish", "lock", s, g)
          \/ Begin(c, "fail", "mark", s, g)
          \/ Begin(c, "lease", "lock", s, g)
  \/ \E g \in Gens : StaleSelect(c, g)
  \/ \E s \in Sources :
       \/ Begin(c, "rollback", "lock", s, Null)
       \/ Begin(c, "reclaim", "lock", s, Null)
       \/ Begin(c, "delete", "chunks", s, Null)

Statement(c) ==
  \/ BatchLock(c) \/ BatchInsert(c) \/ BatchCommit(c)
  \/ PublishLock(c) \/ PublishValidate(c) \/ PublishPoint(c) \/ PublishCommit(c)
  \/ FailMark(c) \/ FailRestore(c) \/ FailRestoring(c) \/ FailCommit(c)
  \/ RollbackLock(c) \/ RollbackSelect(c) \/ RollbackPoint(c) \/ RollbackCommit(c)
  \/ ReclaimLock(c) \/ ReclaimSelect(c) \/ ReclaimDelete(c) \/ ReclaimCommit(c)
  \/ DeleteChunks(c) \/ DeleteSourceRow(c) \/ DeleteCascade(c) \/ DeleteCommit(c)
  \/ LeaseLock(c) \/ LeaseRelease(c)

(* A lost connection, a dropped future, a crash or a deadlock victim.      *)
Abort(c) ==
  /\ txn[c] # Idle
  /\ End(c)
  /\ UNCHANGED vars

TxnInit == Init /\ txn = [c \in Sessions |-> Idle]

TxnNext ==
  \/ Autocommit /\ UNCHANGED txn
  \/ \E c \in Sessions : Start(c) \/ Statement(c) \/ Abort(c)

TxnSpec == TxnInit /\ [][TxnNext]_txnVars

-----------------------------------------------------------------------------
(* Properties. *)

TxnTypeOK ==
  /\ TypeOK
  /\ txn \in [Sessions ->
       [op: AllOps \cup {"idle"},
        pc: {"idle", "lock", "insert", "validate", "point", "mark", "restore",
             "restoring", "skipped", "select", "delete", "chunks", "source",
             "cascade", "held", "commit"},
        s: Sources \cup {Null}, g: Gens \cup {Null}, n: Nat, at: Nat,
        B: SUBSET Positions, todo: SUBSET Gens, hit: BOOLEAN,
        held: SUBSET (Rows \X LockModes)]]

(* Every transaction, however its statements interleave with the others',  *)
(* takes effect as one atomic call of IndexGenerations, or not at all.     *)
ImplementsAtomicCalls == Spec

(* While a chat turn holds the lease on a source, the generation it cites  *)
(* stays active and whole: no publication, rollback, reclaim or deletion   *)
(* crosses the citation boundary.                                          *)
LeasePinsIndex ==
  \A c \in Sessions :
    txn[c].op = "lease" /\ txn[c].pc = "held" =>
      /\ sources[txn[c].s].active = txn[c].g
      /\ chunks[txn[c].g] # {}

(* A worker that lost its generation never rewrites the status of a source *)
(* somebody else is building, which the comment on                         *)
(* RESTORE_SOURCE_STATUS_SQL promises of its NOT EXISTS guard.             *)
SupersededFailureKeepsStatus ==
  [][\A c \in Sessions :
       /\ txn[c].op = "fail" /\ txn[c].pc = "commit" /\ ~txn[c].hit
       /\ Building(txn[c].s) # {}
       => sources'[txn[c].s].status = sources[txn[c].s].status
          \/ txn'[c] = txn[c]]_txnVars

(* Publication, batches, failures, rollback, reclaim and leases never wait *)
(* for one another in a cycle: any deadlock involves a source deletion,    *)
(* which takes the source's lock before its generations'.                  *)
OnlyDeletesDeadlock ==
  \A D \in (SUBSET Sessions) \ {{}} :
    (\A c \in D : \E d \in D : WaitsFor(c, d))
      => \E c \in D : txn[c].op = "delete"

\* Between two statements: the sessions and their locks are well formed, and sessions wait
\* for each other in a ring only where one of them deletes the source; a lease pins what it cites.
TxnInv == TxnTypeOK /\ OnlyDeletesDeadlock /\ LeasePinsIndex

=============================================================================
