----------------------------- MODULE VectorStore -----------------------------
(***************************************************************************)
(* The vectors under IndexGenerations: which embedding every stored chunk  *)
(* carries, and which vector spaces a search compares.  A build takes the  *)
(* vectors of unchanged chunks from the active generation, asks a provider *)
(* for the rest batch by batch, and stores both under its own generation;  *)
(* a search checks every active generation of the notebook against the     *)
(* space of its query vector and reads them in the same snapshot.          *)
(*                                                                         *)
(* The tables and their transactions are those of IndexGenerations.  Each  *)
(* server process has one provider for its whole life, but processes of    *)
(* different configurations may overlap, so every build and every search   *)
(* carries the space of its own.  Ranking and limits are left out: a       *)
(* result is the set of indexes it was read from.                          *)
(***************************************************************************)
EXTENDS IndexGenerations, Sequences, Places

CONSTANTS
  Texts,          \* chunk contents, as their hashes
  BatchSize,      \* chunks per provider request
  Missing         \* a placeholder vector nothing was put into

ASSUME BatchAssumption == BatchSize \in Nat \ {0}
(* Chunks are numbered from 0.                                             *)
ASSUME ChunkIndexAssumption == Positions = 0 .. Cardinality(Positions) - 1
ASSUME MissingAssumption == Missing \notin Texts \X Fingerprints

VARIABLES
  rows,           \* Gens -> the chunk rows of the generation, by chunk_index
  build,          \* Gens -> the run that builds it
  search          \* one vector-backed search of the notebook

vecVars == <<rows, build, search>>

(* What a provider of the space fp answers for a text.                     *)
Vector(t, fp) == <<t, fp>>

Contents == UNION {[0 .. n - 1 -> Texts] : n \in 1 .. Cardinality(Positions)}

NoBuild == [step |-> "none", texts |-> <<>>, reused |-> <<>>, todo |-> {}]

NoSearch == [step |-> "idle", fp |-> Null, snapshot |-> {}, dense |-> {}, lexical |-> {}]

-----------------------------------------------------------------------------
(* The build. *)

(* The rows of the active generation, when its space is the one asked for. *)
Reusable(s, fp) ==
  IF sources[s].active = Null THEN {}
  ELSE {rows[sources[s].active][i] :
          i \in {j \in DOMAIN rows[sources[s].active] :
                   generations[sources[s].active].fingerprint = fp}}

(* Chunks of `texts' whose content an offered row has, with its vector.    *)
Matches(texts, offered) ==
  LET known == {i \in DOMAIN texts : \E r \in offered : r.text = texts[i]}
  IN {f \in [known -> {r.vec : r \in offered}] :
        \A i \in known : \E r \in offered : r.text = texts[i] /\ r.vec = f[i]}

(* The offsets of a batch that have to be embedded, in their order.        *)
ToEmbed(g, base) ==
  Ascending({i \in DOMAIN build[g].texts \ DOMAIN build[g].reused :
               i \in base .. base + BatchSize - 1})

(* A slip: the answer is taken in the order it was sent.                   *)
AsSent(arrived) == arrived

(* data.sort_by_key(index): the answered indices, ascending.               *)
SortedByIndex(arrived) == Ascending({arrived[j] : j \in 1 .. Len(arrived)})

(* The provider may answer in any order, and for fewer texts than asked.   *)
Answers(n) ==
  UNION {{a \in [1 .. m -> 1 .. n] : \A j, k \in 1 .. m : j # k => a[j] # a[k]} : m \in 0 .. n}

(* The rows of a batch: reused vectors where they are, fresh ones put into *)
(* the free offsets in turn, and a placeholder where the answer ran out.   *)
BatchRows(g, base, arrived) ==
  LET fresh  == ToEmbed(g, base)
      answer == SortedByIndex(arrived)
      fp     == generations[g].fingerprint
      place(i) == CHOOSE k \in 1 .. Len(fresh) : fresh[k] = i
  IN [i \in (base .. base + BatchSize - 1) \cap DOMAIN build[g].texts |->
        [text |-> build[g].texts[i],
         vec  |-> IF i \in DOMAIN build[g].reused THEN build[g].reused[i]
                  ELSE IF place(i) <= Len(answer)
                  THEN Vector(build[g].texts[fresh[answer[place(i)]]], fp)
                  ELSE Missing]]

(* ON CONFLICT (generation_id, chunk_index) DO UPDATE.                     *)
Upserted(old, new) ==
  [i \in DOMAIN old \cup DOMAIN new |-> IF i \in DOMAIN new THEN new[i] ELSE old[i]]

StartBuild(s, g, fp) ==
  /\ Claim(s, g, fp)
  /\ build' = [build EXCEPT ![g].step = "claimed"]
  /\ UNCHANGED <<rows, search>>

(* chunk_and_enrich, then the plan with the number of chunks.              *)
PlanBuild(g) ==
  /\ build[g].step = "claimed"
  /\ \E c \in Contents :
       /\ RecordBuildPlan(g, Cardinality(DOMAIN c))
       /\ build' = [build EXCEPT ![g].step = "planned", ![g].texts = c]
  /\ UNCHANGED <<rows, search>>

FindReusable(g) ==
  /\ build[g].step = "planned"
  /\ \E f \in Matches(build[g].texts,
                      Reusable(generations[g].source_id, generations[g].fingerprint)) :
       build' = [build EXCEPT ![g].step = "storing", ![g].reused = f,
                   ![g].todo = {i \in DOMAIN build[g].texts : i % BatchSize = 0}]
  /\ UNCHANGED <<vars, rows, search>>

(* One batch through embed_and_store.  How batches overlap is the subject  *)
(* of EmbedPipeline; here only what ends up in the rows.  pgvector accepts *)
(* no empty vector, so a batch with a placeholder is not stored.           *)
EmbedBatch(g, base) ==
  /\ build[g].step = "storing"
  /\ base \in build[g].todo
  /\ \E arrived \in Answers(Len(ToEmbed(g, base))) :
       LET stored == BatchRows(g, base, arrived) IN
         /\ \A i \in DOMAIN stored : stored[i].vec # Missing
         /\ StoreChunkBatch(g, generations[g].source_id, DOMAIN stored)
         /\ rows' = [rows EXCEPT ![g] = Upserted(@, stored)]
  /\ build' = [build EXCEPT ![g].todo = @ \ {base}]
  /\ UNCHANGED search

PublishBuild(g) ==
  /\ build[g].step = "storing"
  /\ build[g].todo = {}
  /\ Publish(g, generations[g].source_id, now)
  /\ build' = [build EXCEPT ![g] = NoBuild]
  /\ UNCHANGED <<rows, search>>

(* A refused request, a vector of the wrong width, an answer that is too   *)
(* short, or anything else that fails the run.                             *)
FailBuild(g) ==
  /\ build[g].step # "none"
  /\ MarkFailed(g, generations[g].source_id)
  /\ build' = [build EXCEPT ![g] = NoBuild]
  /\ UNCHANGED <<rows, search>>

(* What a repository call on the tables takes of the rows with it.         *)
Cascade == rows' = [g \in Gens |-> IF Exists(g)' THEN rows[g] ELSE <<>>]

OtherCalls ==
  /\ \E s \in Sources :
       \/ CreateSource(s)
       \/ RollbackToPrevious(s)
       \/ DeleteSource(s)
  /\ Cascade
  /\ build' = [g \in Gens |-> IF Exists(g)' THEN build[g] ELSE NoBuild]
  /\ UNCHANGED search

-----------------------------------------------------------------------------
(* The search. *)

(* Every active index of the notebook, with its space and its rows.        *)
ActiveIndexes ==
  {[source |-> s, gen |-> sources[s].active,
    fp |-> generations[sources[s].active].fingerprint, rows |-> rows[sources[s].active]] :
     s \in {t \in Sources : Live(t) /\ sources[t].active # Null}}

(* REPEATABLE READ: later statements read the first one's snapshot.        *)
Visible == search.snapshot

(* ensure_embedding_compatibility, the transaction's first statement.      *)
CheckSpaces(fp) ==
  /\ search.step = "idle"
  /\ search' = [NoSearch EXCEPT !.fp = fp, !.snapshot = ActiveIndexes,
                  !.step = IF \A x \in ActiveIndexes : x.fp = fp
                           THEN "checked" ELSE "mismatch"]
  /\ UNCHANGED <<vars, rows, build>>

(* JOIN source_index_generations ON embedding_fingerprint = $4.            *)
InSpace(fp) == {x \in Visible : x.fp = fp}

SearchDense ==
  /\ search.step = "checked"
  /\ search' = [search EXCEPT !.step = "dense", !.dense = InSpace(search.fp)]
  /\ UNCHANGED <<vars, rows, build>>

(* The lexical leg may fail, and a query may have no words: dense only.    *)
SearchLexical ==
  /\ search.step = "dense"
  /\ \E found \in {{}, InSpace(search.fp)} :
       search' = [search EXCEPT !.step = "done", !.lexical = found]
  /\ UNCHANGED <<vars, rows, build>>

EndSearch ==
  /\ search.step \in {"mismatch", "done"}
  /\ search' = NoSearch
  /\ UNCHANGED <<vars, rows, build>>

-----------------------------------------------------------------------------
VecInit ==
  /\ Init
  /\ rows = [g \in Gens |-> <<>>]
  /\ build = [g \in Gens |-> NoBuild]
  /\ search = NoSearch

VecNext ==
  \/ \E s \in Sources, g \in Gens, fp \in Fingerprints : StartBuild(s, g, fp)
  \/ \E g \in Gens : PlanBuild(g)
  \/ \E g \in Gens : FindReusable(g)
  \/ \E g \in Gens : \E base \in build[g].todo : EmbedBatch(g, base)
  \/ \E g \in Gens : PublishBuild(g)
  \/ \E g \in Gens : FailBuild(g)
  \/ OtherCalls
  \/ \E fp \in Fingerprints : CheckSpaces(fp)
  \/ SearchDense
  \/ SearchLexical
  \/ EndSearch

VecSpec == VecInit /\ [][VecNext]_<<vars, vecVars>>

-----------------------------------------------------------------------------
(* Properties. *)

(* Every stored vector is the embedding of its own row's text in the space *)
(* its generation declares, wherever it came from: a provider that answers *)
(* out of order or too little, an older generation, or one of those that   *)
(* took it from an older one still.                                        *)
VectorsAreTheirRows ==
  \A g \in Gens : \A i \in DOMAIN rows[g] :
    rows[g][i].vec = Vector(rows[g][i].text, generations[g].fingerprint)

(* A search that answers has read every index that was active when it      *)
(* checked, and only indexes of its query's space; its lexical leg reads   *)
(* the same indexes or none.  A publication or rollback meanwhile makes it *)
(* neither partial nor mixed.                                              *)
SearchIsWhole ==
  search.step \in {"dense", "done"} =>
    /\ search.dense = search.snapshot
    /\ \A x \in search.dense : x.fp = search.fp
    /\ search.lexical \in {{}, search.dense}

VectorsInv == VectorsAreTheirRows /\ SearchIsWhole
=============================================================================
