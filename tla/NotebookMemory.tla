--------------------------- MODULE NotebookMemory ---------------------------
(***************************************************************************)
(* The memories of one notebook (services/memory, repositories/memory.rs): *)
(* rows that chat turns add after their answer, that fade, that the owner  *)
(* edits, and of which a few summarise conversations.                      *)
(*                                                                         *)
(* The tasks a turn spawns (api/chat/streaming.rs, spawn_memory_tasks) run *)
(* side by side with those of other turns, one statement at a time and     *)
(* without a transaction: an action is a statement.  Any await may be the  *)
(* last: a failing call, the 30 s of a summary, the end of the process.    *)
(*                                                                         *)
(* What a memory says is not modelled: a search may find any row near, or  *)
(* none.  A level of salience is what one decay takes away; below 1 is     *)
(* below DECAY_DELETE_THRESHOLD.                                           *)
(***************************************************************************)
EXTENDS Integers, Sequences, FiniteSets, FiniteSetsExt, SequencesExt

CONSTANTS
  Stores,             \* store_conversation_summary of different turns
  Extractions,        \* extraction tasks of different turns
  MaxSummaries,       \* MAX_CONVERSATION_SUMMARIES
  MemoryLimit,        \* memories the plan allows a notebook
  BatchSize,          \* bound: memories extracted from one exchange
  Full,               \* highest level of salience
  StaleAge,           \* DECAY_STALE_DAYS, in ticks; a tick outlasts DECAY_COOLDOWN
  MaxRows             \* bound: rows ever created

ASSUME MemoryAssumption ==
  /\ IsFiniteSet(Stores) /\ IsFiniteSet(Extractions)
  /\ MaxSummaries \in Nat \ {0} /\ MemoryLimit \in Nat /\ BatchSize \in Nat
  /\ Full \in Nat /\ StaleAge \in Nat /\ MaxRows \in Nat

VARIABLES
  memories,           \* notebook_memories: the rows, ids in order of creation
  nextId,
  store,              \* Stores -> where each store is and what it has read
  extraction,         \* Extractions -> the actions left and the room counted
  decay,              \* the decay task and the rows it listed
  cooling,            \* MemoryDecayTracker: the notebook had its decay
  quotaLost,          \* history: a quota lookup failed
  cutShort,           \* history: a store ended between its eviction and its insert
  outdated,           \* history: a store selected with fewer summaries left than it counted
  erased,             \* history: the owner deleted memories
  stored              \* history: summaries stored, counted up to MaxSummaries

tasks == <<store, extraction, decay, cooling>>
history == <<quotaLost, cutShort, outdated, erased, stored>>
memoryVars == <<memories, nextId, tasks, history>>

Kinds == {"fact", "summary", "told"}   \* told: extracted as a conversation_summary

IsSummary(m) == m.kind # "fact"
Summaries == {m \in memories : IsSummary(m)}
Facts == {m \in memories : ~IsSummary(m)}
Ids(rows) == {m.id : m \in rows}

Idle == [at |-> "idle", overflow |-> 0, ids |-> {}]
NoActions == [at |-> "idle", actions |-> <<>>, room |-> 0]
Resting == [at |-> "idle", listed |-> {}]

MemoryInit ==
  /\ memories = {} /\ nextId = 1
  /\ store = [s \in Stores |-> Idle]
  /\ extraction = [x \in Extractions |-> NoActions]
  /\ decay = Resting /\ cooling = FALSE
  /\ quotaLost = FALSE /\ cutShort = FALSE /\ outdated = FALSE /\ erased = FALSE /\ stored = 0

\* create_with_embedding; decayed is the time since the row's last decay (history).
Create(kind, salience) ==
  /\ nextId <= MaxRows
  /\ memories' = memories \cup
       {[id |-> nextId, kind |-> kind, salience |-> salience, age |-> 0, decayed |-> StaleAge]}
  /\ nextId' = nextId + 1

\* An UPDATE by id sets updated_at.
Rewrite(id, salience) ==
  /\ memories' = {IF m.id = id THEN [m EXCEPT !.salience = salience, !.age = 0] ELSE m : m \in memories}
  /\ UNCHANGED nextId

Delete(rows) == memories' = memories \ rows /\ UNCHANGED nextId

-----------------------------------------------------------------------------
(* store_conversation_summary *)
Goto(s, next) == store' = [store EXCEPT ![s] = next] /\ UNCHANGED <<extraction, decay, cooling>>

Summarize(s) ==
  /\ store[s].at = "idle"
  /\ Goto(s, [Idle EXCEPT !.at = "embed"])
  /\ UNCHANGED <<memories, nextId, history>>

EmbedSummary(s) ==
  /\ store[s].at = "embed"
  /\ Goto(s, [Idle EXCEPT !.at = "count"])
  /\ UNCHANGED <<memories, nextId, history>>

\* delete_oldest_by_type: a count, a select and a delete.
CountSummaries(s) ==
  /\ store[s].at = "count"
  /\ LET overflow == Cardinality(Summaries) - (MaxSummaries - 1)
     IN  Goto(s, IF overflow <= 0 THEN [Idle EXCEPT !.at = "insert"]
                 ELSE [Idle EXCEPT !.at = "select", !.overflow = overflow])
  /\ UNCHANGED <<memories, nextId, history>>

\* Mutant: one row too many.
OldestAndNext(n) == {m.id : m \in {m \in Summaries : Cardinality({o \in Summaries : o.id < m.id}) <= n}}

Oldest(n) == {m.id : m \in {m \in Summaries : Cardinality({o \in Summaries : o.id < m.id}) < n}}

SelectOldest(s) ==
  /\ store[s].at = "select"
  /\ LET ids == Oldest(store[s].overflow)
     IN  Goto(s, IF ids = {} THEN [Idle EXCEPT !.at = "insert"]
                 ELSE [Idle EXCEPT !.at = "evict", !.ids = ids])
  /\ outdated' = (outdated \/ Cardinality(Summaries) < store[s].overflow + MaxSummaries - 1)
  /\ UNCHANGED <<memories, nextId, quotaLost, cutShort, erased, stored>>

EvictSummaries(s) ==
  /\ store[s].at = "evict"
  /\ Delete({m \in memories : m.id \in store[s].ids})
  /\ Goto(s, [Idle EXCEPT !.at = "insert"])
  /\ UNCHANGED history

InsertSummary(s) ==
  /\ store[s].at = "insert"
  /\ Create("summary", Full)
  /\ Goto(s, Idle)
  /\ stored' = IF stored < MaxSummaries THEN stored + 1 ELSE stored
  /\ UNCHANGED <<quotaLost, cutShort, outdated, erased>>

EndStore(s) ==
  /\ store[s].at # "idle"
  /\ Goto(s, Idle)
  /\ cutShort' = (cutShort \/ store[s].at = "insert")
  /\ UNCHANGED <<memories, nextId, quotaLost, outdated, erased, stored>>

-----------------------------------------------------------------------------
(* extract_memories, then apply_memory_actions *)
Continue(x, next) ==
  extraction' = [extraction EXCEPT ![x] = next] /\ UNCHANGED <<store, decay, cooling>>

Insert(kind) == [do |-> "insert", kind |-> kind]
Update(id) == [do |-> "update", id |-> id]

\* resolve_upsert_action for each extracted memory: insert it, update a row that is
\* near, of whatever type, or skip it.
Actions == {Insert("fact"), Insert("told")} \cup {Update(i) : i \in Ids(memories)}

ExtractMemories(x) ==
  /\ extraction[x].at = "idle"
  /\ \E n \in 1 .. BatchSize : \E actions \in [1 .. n -> Actions] :
       Continue(x, [at |-> "count", actions |-> actions, room |-> 0])
  /\ UNCHANGED <<memories, nextId, history>>

\* The quota and the count, once for the batch.  Without a limit there is room for
\* the whole batch; so there is when the lookup of the quota fails.
CountFacts(x) ==
  /\ extraction[x].at = "count"
  /\ \/ /\ Continue(x, [extraction[x] EXCEPT !.at = "apply",
                                            !.room = MemoryLimit - Cardinality(Facts)])
        /\ UNCHANGED quotaLost
     \/ /\ Continue(x, [extraction[x] EXCEPT !.at = "apply", !.room = BatchSize])
        /\ quotaLost' = TRUE
  /\ UNCHANGED <<memories, nextId, cutShort, outdated, erased, stored>>

Applied(x, room) ==
  LET rest == Tail(extraction[x].actions)
  IN  Continue(x, IF rest = <<>> THEN NoActions
                  ELSE [at |-> "apply", actions |-> rest, room |-> room])

ApplyInsert(x) ==
  /\ extraction[x].at = "apply" /\ Head(extraction[x].actions).do = "insert"
  /\ IF extraction[x].room <= 0
     THEN Applied(x, extraction[x].room) /\ UNCHANGED <<memories, nextId>>
     ELSE /\ \E salience \in 0 .. Full : Create(Head(extraction[x].actions).kind, salience)
          /\ Applied(x, extraction[x].room - 1)
  /\ UNCHANGED history

\* A row that has gone ends the batch.
ApplyUpdate(x) ==
  /\ extraction[x].at = "apply" /\ Head(extraction[x].actions).do = "update"
  /\ LET id == Head(extraction[x].actions).id
     IN  IF id \in Ids(memories)
         THEN (\E salience \in 0 .. Full : Rewrite(id, salience)) /\ Applied(x, extraction[x].room)
         ELSE Continue(x, NoActions) /\ UNCHANGED <<memories, nextId>>
  /\ UNCHANGED history

EndExtraction(x) ==
  /\ extraction[x].at # "idle"
  /\ Continue(x, NoActions)
  /\ UNCHANGED <<memories, nextId, history>>

-----------------------------------------------------------------------------
(* decay_memories, behind MemoryDecayTracker *)
Decaying(next) == decay' = next /\ UNCHANGED <<store, extraction>>

StartDecay ==
  /\ decay.at = "idle" /\ ~cooling
  /\ Decaying([Resting EXCEPT !.at = "list"]) /\ cooling' = TRUE
  /\ UNCHANGED <<memories, nextId, history>>

ListStale ==
  /\ decay.at = "list"
  /\ Decaying([at |-> "fade", listed |-> {m \in Facts : m.age = StaleAge}])
  /\ UNCHANGED <<memories, nextId, cooling, history>>

Faded(m) == Max({m.salience - 1, 0})

\* update_salience, with a value computed from the row as it was listed; a row that
\* has gone ends the decay.
Fade ==
  /\ decay.at = "fade"
  /\ \E m \in decay.listed :
       IF m.id \in Ids(memories)
       THEN /\ memories' = {IF o.id = m.id
                            THEN [o EXCEPT !.salience = Faded(m), !.age = 0, !.decayed = 0]
                            ELSE o : o \in memories}
            /\ Decaying([decay EXCEPT !.listed = @ \ {m}])
       ELSE Decaying(Resting) /\ UNCHANGED memories
  /\ UNCHANGED <<nextId, cooling, history>>

\* Mutant: no exemption in the DELETE.
DeleteAllFaded ==
  /\ decay.at = "fade" /\ decay.listed = {}
  /\ Delete({m \in memories : m.salience < 1})
  /\ Decaying(Resting)
  /\ UNCHANGED <<cooling, history>>

DeleteFaded ==
  /\ decay.at = "fade" /\ decay.listed = {}
  /\ Delete({m \in Facts : m.salience < 1})
  /\ Decaying(Resting)
  /\ UNCHANGED <<cooling, history>>

EndDecay ==
  /\ decay.at # "idle"
  /\ Decaying(Resting)
  /\ UNCHANGED <<memories, nextId, cooling, history>>

-----------------------------------------------------------------------------
\* A turn reads a fact back into its prompt: touch_memory.
Touch ==
  /\ \E m \in Facts : Rewrite(m.id, m.salience)
  /\ UNCHANGED <<tasks, history>>

Patch ==
  /\ \E m \in memories, salience \in 0 .. Full : Rewrite(m.id, salience)
  /\ UNCHANGED <<tasks, history>>

Erase ==
  /\ memories # {}
  /\ \/ \E m \in memories : Delete({m})
     \/ Delete(memories)
  /\ erased' = TRUE
  /\ UNCHANGED <<tasks, quotaLost, cutShort, outdated, stored>>

\* The process ends, and with it every task and the tracker.
Restart ==
  /\ store' = [s \in Stores |-> Idle]
  /\ extraction' = [x \in Extractions |-> NoActions]
  /\ decay' = Resting /\ cooling' = FALSE
  /\ cutShort' = (cutShort \/ \E s \in Stores : store[s].at = "insert")
  /\ UNCHANGED <<memories, nextId, quotaLost, outdated, erased, stored>>

TimePasses ==
  /\ LET Older(t) == IF t < StaleAge THEN t + 1 ELSE t
     IN  memories' = {[m EXCEPT !.age = Older(@), !.decayed = Older(@)] : m \in memories}
  /\ cooling' = FALSE
  /\ UNCHANGED <<nextId, store, extraction, decay, history>>

StoreStep(s) ==
  \/ Summarize(s) \/ EmbedSummary(s) \/ CountSummaries(s) \/ SelectOldest(s)
  \/ EvictSummaries(s) \/ InsertSummary(s) \/ EndStore(s)
ExtractionStep(x) ==
  \/ ExtractMemories(x) \/ CountFacts(x) \/ ApplyInsert(x) \/ ApplyUpdate(x) \/ EndExtraction(x)
DecayStep == StartDecay \/ ListStale \/ Fade \/ DeleteFaded \/ EndDecay

MemoryNext ==
  \/ \E s \in Stores : StoreStep(s)
  \/ \E x \in Extractions : ExtractionStep(x)
  \/ DecayStep \/ Touch \/ Patch \/ Erase \/ Restart \/ TimePasses

MemorySpec == MemoryInit /\ [][MemoryNext]_memoryVars

-----------------------------------------------------------------------------
MemoryTypeOK ==
  /\ \A m \in memories :
       m \in [id : 1 .. MaxRows, kind : Kinds, salience : 0 .. Full, age : 0 .. StaleAge,
              decayed : 0 .. StaleAge]
  /\ Cardinality(Ids(memories)) = Cardinality(memories) /\ nextId \in 1 .. MaxRows + 1
  /\ store \in [Stores -> [at : {"idle", "embed", "count", "select", "evict", "insert"},
                           overflow : 0 .. MaxRows, ids : SUBSET (1 .. MaxRows)]]
  /\ \A x \in Extractions :
       /\ extraction[x].at \in {"idle", "count", "apply"} /\ extraction[x].room <= BatchSize + MemoryLimit
       /\ Len(extraction[x].actions) <= BatchSize
  /\ decay.at \in {"idle", "list", "fade"} /\ cooling \in BOOLEAN

\* Summaries of conversations stay few however the stores of different turns overlap
\* and whatever is extracted meanwhile: each store in flight can add one.
SummariesAreBounded ==
  Cardinality({m \in memories : m.kind = "summary"}) <= MaxSummaries - 1 + Cardinality(Stores)

\* Stores that overlap may evict the same rows, and each other's newest.  All but
\* one of the retained summaries remain, until a store counts before the eviction of
\* another and selects after it: it evicts by a count that is no longer true, and
\* three stores that count five rows leave one.  One is always left, unless a store
\* is cut short before its insert: a failed embedding costs none.
LatestSummariesRemain ==
  ~erased =>
    /\ ~outdated => Cardinality(Summaries) >= Min({stored, MaxSummaries - 1})
    /\ (~cutShort /\ stored > 0 /\ \A s \in Stores : store[s].at = "idle") => Summaries # {}

\* The plan's limit is counted once per batch: batches of different turns can pass it
\* together, and by no more than the batches of the others.
FactsAreLimited ==
  ~quotaLost =>
    Cardinality(Facts) <= MemoryLimit + (Cardinality(Extractions) - 1) * Min({BatchSize, MemoryLimit})

\* A restart forgets the tracker, not when a row was last changed: no row fades
\* twice within the week.
FadesOnceAWeek ==
  [][\A m \in memories :
       m.id \in Ids(decay.listed) \ Ids(decay'.listed) => m.decayed = StaleAge]_memoryVars

\* Decay never takes a summary, not even one that an extraction has overwritten with
\* something of no salience.
SummariesOutlastDecay ==
  [][decay' # decay => Ids(Summaries) \subseteq Ids(memories')]_memoryVars

\* The memories of a notebook under overlapping turns: summaries above their maximum by no
\* more than the turns in flight, the latest among them, and facts within what the plan and
\* the batches in flight allow.
MemoryInv == MemoryTypeOK /\ SummariesAreBounded /\ LatestSummariesRemain /\ FactsAreLimited

\* Decay is mild: it fades a row at most once a week, whatever restarts, and never deletes a summary.
DecayIsMild == FadesOnceAWeek /\ SummariesOutlastDecay

=============================================================================
