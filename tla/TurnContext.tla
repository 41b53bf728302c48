---------------------------- MODULE TurnContext ----------------------------
(***************************************************************************)
(* From a question to the request that is sent (retrieve_rag_context and   *)
(* the pipeline of services/rag/search), composed with the budgeting pass. *)
(* The notebook's index may change between any two queries.  A ranking is  *)
(* any order of any chunks of the notebook: scores are not modelled.       *)
(***************************************************************************)
EXTENDS PromptBudget, FiniteSets, SequencesExt, Places

CONSTANTS
  Reading,      \* the chunks, in the order the notebook is written in
  Corpora,      \* the sets of active chunks the notebook may have
  ParentOf,     \* of a chunk: the passage it is part of
  SizeOf,       \* of a chunk: its context's prices
  Limit,        \* max_chunks
  Threshold,    \* max_context_stuffing_chunks
  PoolSize,     \* retrieval_pool_size
  RerankMin,    \* rerank_min_chunks
  MaxChanges    \* bound: changes of the index during a turn

Chunks == ToSet(Reading)

ASSUME ContextAssumption ==
  /\ Limit \in Nat \ {0} /\ Threshold \in Nat /\ PoolSize \in Nat /\ RerankMin \in Nat
  /\ Corpora \subseteq SUBSET Chunks
  /\ Reading \in Seq(Chunks) /\ SizeOf \in [Chunks -> Contexts] /\ DOMAIN ParentOf = Chunks

VARIABLES
  corpus,        \* chunks of active generations
  changes,
  embeddings,    \* an embedding provider is configured
  reformulator,  \* a query reformulator is configured
  stage,         \* the step of retrieval, then how it ended
  asked,         \* calls of the reformulation provider
  rewritten,     \* the query in use is a rewritten one
  count,         \* chunk_count of this pass
  pool, order,   \* the candidates, "ranked" or "uniform"
  out,           \* the outcome of a pass
  first,         \* the first pass
  corrective     \* the corrective pass runs

retrievalVars == <<corpus, changes, embeddings, reformulator, stage, asked, rewritten,
                   count, pool, order, out, first, corrective>>
contextVars == <<budgetVars, retrievalVars>>

Installed == <<embeddings, reformulator>>
Index == <<corpus, changes>>
Passes == <<first, corrective>>

Nothing(why) == [ranking |-> <<>>, order |-> "ranked", sufficient |-> FALSE, why |-> why]

NoPass == Nothing("none")

ContextInit ==
  /\ BudgetInit
  /\ corpus \in Corpora /\ changes = 0
  /\ embeddings \in BOOLEAN /\ reformulator \in BOOLEAN
  /\ stage = "question" /\ asked = 0 /\ rewritten = FALSE
  /\ count = 0 /\ pool = <<>> /\ order = "ranked" /\ out = NoPass /\ first = NoPass
  /\ corrective = FALSE

-----------------------------------------------------------------------------
(* Pure steps of the pipeline.                                             *)

Rankings(S) == UNION {SetToSeqs(T) : T \in SUBSET S}

Parents(s) == {ParentOf[s[i]] : i \in DOMAIN s}

\* Mutant: overlapping children are not collapsed.
KeepChildren(s) == s

\* The first child of a passage stands for it.
CollapseParents(s) ==
  Picked(s, {i \in DOMAIN s : \A j \in 1 .. i - 1 : ParentOf[s[j]] # ParentOf[s[i]]})

SelectFinal(s) == SubSeq(s, 1, Smaller(Len(s), Limit))

\* The second best goes to the end.
SandwichOrder(s) == <<s[1]>> \o SubSeq(s, 3, Len(s)) \o <<s[2]>>

Presented(o) == IF o.order = "ranked" /\ Len(o.ranking) >= 3 THEN SandwichOrder(o.ranking) ELSE o.ranking

Prices(s) == [i \in DOMAIN s |-> EntryTokens(FALSE, SizeOf[s[i]].whole)]

\* Priced inline, whatever the provider takes; an empty notebook fits.
StuffedCost(s) == RunningTotals(RegionOverhead(FALSE), Prices(s))[Len(s)]

StuffedCostOver(s) == s # <<>> /\ StuffedCost(s) > EvidenceAllowance(turn)

MayStuff(n) == Threshold > 0 /\ n <= Smaller(Threshold, Limit) /\ EvidenceAllowance(turn) > 0

\* A selection is short only while the notebook had more to give.
Verdict(n, materialLeft) == n > 0 /\ ~(n < Limit /\ materialLeft)

-----------------------------------------------------------------------------
(* Retrieval.                                                              *)

Step(from, to) == stage = from /\ stage' = to /\ UNCHANGED <<budgetVars, Installed, Index>>

\* The index of the notebook changes: a publication, a deletion.
IndexChanges ==
  /\ changes < MaxChanges /\ phase = "ready"
  /\ corpus' \in Corpora \ {corpus} /\ changes' = changes + 1
  /\ UNCHANGED <<budgetVars, embeddings, reformulator, stage, asked, rewritten, count, pool, order, out, Passes>>

\* A follow-up question is rewritten before retrieval; the call may fail or change nothing.
ProactiveReformulation ==
  /\ Step("question", "count")
  /\ \/ UNCHANGED <<asked, rewritten>>
     \/ reformulator /\ asked' = asked + 1 /\ rewritten' \in BOOLEAN
  /\ UNCHANGED <<count, pool, order, out, Passes>>

CountChunks ==
  /\ \E to \in {"countSources", "load", "search"} :
       /\ Step("count", to)
       /\ to = IF corpus = {} THEN "countSources"
               ELSE IF MayStuff(Cardinality(corpus)) THEN "load" ELSE "search"
  /\ count' = Cardinality(corpus)
  /\ UNCHANGED <<asked, rewritten, pool, order, out, Passes>>

\* A source without a chunk may be there.
CountSources ==
  /\ Step("countSources", "judge")
  /\ \/ out' = Nothing("noCandidates")
     \/ corpus = {} /\ out' = Nothing("emptyCorpus")
  /\ UNCHANGED <<asked, rewritten, count, pool, order, Passes>>

\* All of it, or none of it.
StuffNotebook ==
  /\ LET loaded == Picked(Reading, {i \in DOMAIN Reading : Reading[i] \in corpus}) IN
     \/ /\ ~StuffedCostOver(loaded)
        /\ Step("load", "finalize") /\ pool' = loaded /\ order' = "uniform"
     \/ /\ StuffedCostOver(loaded)
        /\ Step("load", "search") /\ UNCHANGED <<pool, order>>
  /\ UNCHANGED <<asked, rewritten, count, out, Passes>>

SearchNotebook ==
  /\ UNCHANGED <<asked, rewritten, count, Passes>>
  /\ \/ /\ ~embeddings /\ Step("search", "judge")
        /\ out' = Nothing("providerError") /\ UNCHANGED <<pool, order>>
     \/ /\ embeddings /\ Step("search", "finalize")
        /\ order' = "ranked" /\ pool' \in {s \in Rankings(corpus) : Len(s) <= PoolSize}
        /\ UNCHANGED out

\* Without a reranker, when it fails and for a small notebook the fusion order stays.
Finalize ==
  /\ Step("finalize", "judge")
  /\ LET diverse == CollapseParents(pool) IN
     \E ranked \in {diverse}
          \cup (IF order = "ranked" /\ count >= RerankMin THEN Rankings(ToSet(diverse)) ELSE {}) :
       LET selected0 == SelectFinal(ranked) IN
       out' = [ranking |-> selected0, order |-> order, why |-> "none",
               sufficient |-> Verdict(Len(selected0), order = "ranked" /\ Len(selected0) < count)]
  /\ pool' = <<>> /\ UNCHANGED <<asked, rewritten, count, order, Passes>>

\* The database, the embedding provider or the search fails: the whole retrieval does.
RetrievalFails ==
  /\ stage \in {"count", "countSources", "load", "search"}
  /\ stage' = "unavailable" /\ out' = Nothing("providerError")
  /\ UNCHANGED <<budgetVars, Installed, Index, asked, rewritten, count, pool, order, Passes>>

-----------------------------------------------------------------------------
(* Correction.                                                             *)

Stuffed(o) == o.order = "uniform"

Correctable == ~Stuffed(out) /\ ~out.sufficient /\ reformulator /\ ~rewritten

KeepFirst ==
  /\ Step("judge", "kept") /\ ~corrective
  /\ \/ ~Correctable /\ UNCHANGED asked
     \/ Correctable /\ asked' \in {asked, asked + 1}
  /\ UNCHANGED <<rewritten, count, pool, order, out, Passes>>

RetryRewritten ==
  /\ Step("judge", "count") /\ ~corrective /\ Correctable
  /\ asked' = asked + 1 /\ rewritten' = TRUE /\ first' = out /\ corrective' = TRUE
  /\ UNCHANGED <<count, pool, order, out>>

\* Mutant: the corrected pass is always taken.
ChooseCorrected ==
  /\ Step("judge", "kept") /\ corrective
  /\ corrective' = FALSE /\ UNCHANGED <<out, first>>
  /\ UNCHANGED <<asked, rewritten, count, pool, order>>

\* The corrected pass is kept when it suffices or has more contexts.
ChoosePass ==
  /\ Step("judge", "kept") /\ corrective
  /\ out' = IF out.sufficient \/ Cardinality(Parents(out.ranking)) > Cardinality(Parents(first.ranking))
            THEN out ELSE first
  /\ corrective' = FALSE /\ first' = NoPass
  /\ UNCHANGED <<asked, rewritten, count, pool, order>>

\* RetrievalFailure::classify and the turn's answer without evidence.
Abstain ==
  /\ stage = "kept" /\ out.ranking = <<>>
  /\ stage' = CASE out.why = "providerError" -> "unavailable"
             [] out.why = "emptyCorpus" -> "noSources"
             [] OTHER -> "noEvidence"
  /\ UNCHANGED <<budgetVars, Installed, Index, asked, rewritten, count, pool, order, out, Passes>>

Offered(o) == [i \in DOMAIN Presented(o) |-> SizeOf[Presented(o)[i]]]

HandOver ==
  /\ stage = "kept" /\ out.ranking # <<>>
  /\ stage' = "budget" /\ Allocate(Offered(out))
  /\ UNCHANGED <<Installed, Index, asked, rewritten, count, pool, order, out, Passes>>

Fit == FitStep /\ UNCHANGED retrievalVars

Retrieve ==
  \/ ProactiveReformulation \/ CountChunks \/ CountSources \/ StuffNotebook \/ SearchNotebook
  \/ Finalize \/ RetrievalFails \/ KeepFirst \/ RetryRewritten \/ ChoosePass \/ Abstain

ContextNext == IndexChanges \/ Retrieve \/ HandOver \/ Fit

ContextSpec == ContextInit /\ [][ContextNext]_contextVars

-----------------------------------------------------------------------------
\* The contexts that reached the request.
Sent == SubSeq(Presented(out), 1, Len(selected))

ContextTypeOK ==
  /\ BudgetTypeOK
  /\ corpus \subseteq Chunks /\ ToSet(pool) \subseteq Chunks /\ count \in 0 .. Cardinality(Chunks)
  /\ asked \in 0 .. 2

\* Generation never runs without evidence or past the limit that was asked for, never
\* carries a passage twice, and always has the best context, whatever rewriting,
\* reranking, presentation and the budget did on the way.
SentIsGrounded ==
  phase = "sent" =>
    /\ Len(selected) \in 1 .. Limit
    /\ Cardinality(Parents(Sent)) = Len(selected)
    /\ out.ranking[1] \in ToSet(Sent)

\* "the whole notebook fits has to mean the same thing in the retrieval pipeline and in
\* the prompt" (prompt-assembly.md:35-39): what was loaded whole is not trimmed.
StuffedIsNotTrimmed ==
  Stuffed(out) /\ phase \in {"history", "check", "sent", "noEvidenceFits"} =>
    selected = [i \in 1 .. Len(evidence) |-> "whole"]

\* A turn abstains over its notebook only when it looked: with chunks to search and no
\* way to embed the question it is unavailable, in whichever pass that was found.
AbstentionIsHonest ==
  stage = "noEvidence" => embeddings \/ out.why = "noCandidates" \/ Stuffed(out)

\* A rewritten query never costs the turn evidence it had.
CorrectionNeverLoses ==
  [][corrective /\ ~corrective' =>
       out'.sufficient \/ Len(out'.ranking) >= Len(first.ranking)]_contextVars

\* "complete lowest-ranked contexts are removed first" (context_budget.rs:34-35): a
\* context that was dropped ranks below every context that was sent.
LowestRankedDroppedFirst ==
  phase = "sent" =>
    \A i, j \in DOMAIN out.ranking :
      i < j /\ out.ranking[j] \in ToSet(Sent) => out.ranking[i] \in ToSet(Sent)

\* What a turn sends at every step: evidence of a ranked passage of this notebook, a stuffed
\* notebook whole, an abstention only where retrieval looked and found nothing, and a
\* refusal only for the one thing the pass does not price.
ContextInv ==
  /\ ContextTypeOK /\ SentIsGrounded /\ StuffedIsNotTrimmed /\ AbstentionIsHonest
  /\ OnlyMemoryOverflows

=============================================================================
