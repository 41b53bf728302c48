------------------------------ MODULE EvalGate ------------------------------
(* From a corpus to a release: the baseline and compare commands of         *)
(* rag-eval.  A corpus is loaded and validated, each query of the split is  *)
(* searched and answered, both are scored against the labels, the scores    *)
(* become a baseline, and compare weighs it against the approved one        *)
(* (services/rag/eval/{index,retrieval,grounding,baseline}.rs).  What the   *)
(* search finds and what the model writes is free; a revision whose search  *)
(* has lost its notebook filter is one with scoped = FALSE.  Ratios are in  *)
(* thousandths.                                                             *)
EXTENDS EvalCorpus

CONSTANTS
  Fixtures,   \* the corpora that may be checked in, by revision
  Found,      \* what a search may return: sequences of chunk slugs
  Written,    \* the answers a model may give
  Recorded,   \* answers that were not produced by this pipeline
  Approved,   \* the baselines a candidate may be compared with
  TopK        \* the requested limit

Listed(items) == items \in Seq(ToSet(items))

(* A corpus is read from lists, and a category is one of the enumeration;   *)
(* a baseline that judged nothing was written with no recall.               *)
ASSUME EvalAssumption ==
  /\ \A r \in DOMAIN Fixtures : LET c == Fixtures[r] IN
       /\ Listed(c.notebooks) /\ Listed(c.sources) /\ Listed(c.chunks) /\ Listed(c.queries)
       /\ \A q \in ToSet(c.queries) :
            q.category \in Categories /\ q.answerable \in BOOLEAN /\ Listed(q.chunks) /\ Listed(q.claims)
  /\ \A found \in Found : Listed(found)
  /\ \A text \in Written : Listed(text)
  /\ \A case \in Recorded : Listed(case.text) /\ case.kind \in {"answered", "abstained", "error"}
  /\ \A old \in Approved : \A k \in DOMAIN old.retrieval.by : LET m == old.retrieval.by[k] IN
       m.judged \in Nat /\ m.recall \in Nat /\ (m.judged = 0 => m.recall = 0)

VARIABLES
  revision,   \* the revision of the corpus on disk
  scoped,     \* whether the search measured stays in the notebook
  scored,     \* the queries searched, with their scores
  answers,    \* the answers, with their scores
  gate        \* where the command is, its artifact and its verdict

evalVars == <<revision, scoped, scored, answers, gate>>

fixtures == Fixtures[revision]

Tolerance == 20
Targets == [recall |-> 900, ndcg |-> 750, precision |-> 950, coverage |-> 900, abstention |-> 900]

Thousandths(a, b) == IF b = 0 THEN 0 ELSE (1000 * a) \div b

(* Of a list of figures, those at the places P: their sum and their mean.   *)
Total(figures, P) ==
  LET upTo[k \in 0 .. Len(figures)] ==
        IF k = 0 THEN 0 ELSE upTo[k - 1] + (IF k \in P THEN figures[k] ELSE 0) IN
  upTo[Len(figures)]
Mean(figures, P) == IF P = {} THEN 0 ELSE Total(figures, P) \div Cardinality(P)

-----------------------------------------------------------------------------
(* Retrieval.                                                               *)

(* rank_dense and rank_lexical: only chunks of the notebook, at most the    *)
(* limit of them, each once; prepare only truncates.                        *)
Retrieved(q, found) ==
  /\ Len(found) <= TopK
  /\ Cardinality(ToSet(found)) = Len(found)
  /\ \A slug \in ToSet(found) : \E k \in Entry(fixtures.chunks, slug) :
       scoped => q.notebook \in HomeOf(fixtures, k)

(* The indexed chunk: its parent passage is its group's text.               *)
Chunk(slug) == CHOOSE k \in Entry(fixtures.chunks, slug) : TRUE

(* unique_parent_count: children of one parent in one source count once.    *)
UniqueParents(found) ==
  LET read == [i \in DOMAIN found |-> Chunk(found[i])] IN
  Cardinality({i \in DOMAIN read : read[i].group = NoGroup})
  + Cardinality({<<k.source, k.group>> : k \in {x \in ToSet(read) : x.group # NoGroup}})

(* ndcg_at_10: the gain of a hit falls with the logarithm of its rank.      *)
Gain == <<1000, 631, 500, 431, 387, 356, 333, 315, 301, 289>>
NdcgAt10(hits, total) == Thousandths(Total(Gain, hits), Total(Gain, 1 .. total))

(* score_query: nothing is judged without a relevant chunk that resolves.   *)
Relevant(q) == UNION {Entry(fixtures.chunks, slug) : slug \in ToSet(q.chunks)}
ScoreOf(q, found) ==
  LET relevant == {k.id : k \in Relevant(q)}
      forbidden == UNION {Entry(fixtures.sources, slug) : slug \in q.forbidden}
      hits == {i \in DOMAIN found : found[i] \in relevant}
      judged == relevant # {} IN
  [query |-> q.id, category |-> q.category, found |-> found, judged |-> judged,
   recall |-> IF judged THEN Thousandths(Cardinality(hits), Cardinality(relevant)) ELSE 0,
   ndcg |-> IF judged THEN NdcgAt10(hits, Cardinality(relevant)) ELSE 0,
   parents |-> UniqueParents(found),
   breach |-> \E i \in DOMAIN found : Chunk(found[i]).source \in {s.id : s \in forbidden},
   reasons |-> {r \in {"NoCandidates", "UnderfilledTopK", "MissingJudgment"} :
                  \/ r = "NoCandidates" /\ found = <<>>
                  \/ r = "UnderfilledTopK" /\ Len(found) \in 1 .. TopK - 1
                  \/ r = "MissingJudgment" /\ q.answerable /\ ~judged}]

(* Over the searches at some places.                                        *)
RetrievalMetrics(P) ==
  LET judged == {i \in P : scored[i].judged} IN
  [queries |-> Cardinality(P), judged |-> Cardinality(judged),
   recall |-> Mean([i \in DOMAIN scored |-> scored[i].recall], judged),
   ndcg |-> Mean([i \in DOMAIN scored |-> scored[i].ndcg], judged),
   breaches |-> Cardinality({i \in P : scored[i].breach})]

-----------------------------------------------------------------------------
(* Grounding.  A text is a sequence of pieces: <<"says", m>> a claim's       *)
(* marker, <<"cites", chunk>> a citation, <<"misquotes", chunk>> one whose  *)
(* quote is not in the chunk, <<"rejected">> a marker that named nothing,   *)
(* <<"mark">> punctuation, <<"fallback">> a sentence that abstains.         *)

(* asserts_claim, over a text or a segment of it.                           *)
Asserts(text, claim) ==
  claim.markers # {} /\ \A m \in claim.markers : <<"says", m>> \in ToSet(text)

AssertedBy(text, q) == {c \in ToSet(q.claims) : Asserts(text, c)}

CitesAt(text) == {i \in DOMAIN text : text[i][1] \in {"cites", "misquotes"}}
Previous(text, i) == {j \in CitesAt(text) : j < i /\ \A k \in CitesAt(text) : k < i => k <= j}

(* associated_claim: the one asserted claim of the segment since the        *)
(* previous citation; continues_citation_run: with only punctuation in      *)
(* between, the claim of the previous citation.                             *)
Segment(text, i) ==
  LET from == IF Previous(text, i) = {} THEN 1 ELSE 1 + CHOOSE j \in Previous(text, i) : TRUE IN
  SubSeq(text, from, i - 1)
Associated(text, asserted) ==
  LET direct(n) == {c \in asserted : Asserts(Segment(text, n), c)}
      claims[n \in 0 .. Len(text)] ==
        IF n = 0 THEN {}
        ELSE IF n \notin CitesAt(text) THEN claims[n - 1]
        ELSE IF \E c \in asserted : direct(n) = {c} THEN direct(n)
        ELSE IF \A p \in ToSet(Segment(text, n)) : p[1] = "mark" THEN claims[n - 1]
        ELSE {} IN
  claims

RelatedFirst(q, case, i, claims) ==
  LET slug == case.text[i][2] IN
  IF Entry(fixtures.chunks, slug) = {} THEN "unknown_chunk"
  ELSE IF ~case.current THEN "stale_generation"
  ELSE IF \A c \in claims : slug \notin c.by THEN "unrelated_to_claim"
  ELSE IF q.notebook \notin HomeOf(fixtures, Chunk(slug)) THEN "cross_notebook"
  ELSE "correct"

CitationVerdicts ==
  {"correct", "unknown_chunk", "stale_generation", "cross_notebook", "span_mismatch",
   "unrelated_to_claim", "malformed_marker"}

CaseClasses ==
  {"ok", "malformed_citation", "provider_error", "unknown_query", "spurious_abstention",
   "missing_abstention", "uncited"}

(* judge_citation: the first of the conditions that fails.                  *)
CitationVerdict(q, case, i, claims) ==
  LET slug == case.text[i][2] IN
  IF Entry(fixtures.chunks, slug) = {} THEN "unknown_chunk"
  ELSE IF ~case.current THEN "stale_generation"
  ELSE IF q.notebook \notin HomeOf(fixtures, Chunk(slug)) THEN "cross_notebook"
  ELSE IF case.text[i][1] = "misquotes" THEN "span_mismatch"
  ELSE IF \A c \in claims : slug \notin c.by THEN "unrelated_to_claim"
  ELSE "correct"

(* The class of a case that is otherwise in order.                          *)
ClassOf(abstained, expected, cited) ==
  IF abstained /\ ~expected THEN "spurious_abstention"
  ELSE IF ~abstained /\ expected THEN "missing_abstention"
  ELSE IF ~abstained /\ ~cited THEN "uncited"
  ELSE "ok"

Unscored(case) ==
  [case |-> case, category |-> "unknown", class |-> "unknown_query", expected |-> 0, asserted |-> {},
   supported |-> {}, verdicts |-> [i \in {} |-> "correct"], right |-> FALSE]

(* score_case: an answer to no known query stays in the denominator.        *)
AnswerScore(case) ==
  IF Entry(fixtures.queries, case.query) = {} THEN Unscored(case) ELSE
  LET q == CHOOSE x \in Entry(fixtures.queries, case.query) : TRUE
      failed == (case.kind = "error")
      abstained == \/ case.kind = "abstained"
                   \/ case.kind = "answered" /\ <<"fallback">> \in ToSet(case.text)
      rejected == IF case.kind = "answered"
                  THEN {i \in DOMAIN case.text : case.text[i] = <<"rejected">>} ELSE {}
      asserted == IF failed \/ abstained THEN {} ELSE AssertedBy(case.text, q)
      cites == IF failed \/ abstained THEN {} ELSE CitesAt(case.text)
      claims == Associated(case.text, asserted)
      verdict == [i \in cites \cup rejected |->
                    IF i \in rejected THEN "malformed_marker" ELSE CitationVerdict(q, case, i, claims[i])]
      supported == UNION {claims[i] : i \in {j \in cites : verdict[j] = "correct"}}
      expected == ~q.answerable \/ ~case.sufficient IN
  [case |-> case, category |-> q.category,
   class |-> IF failed THEN "provider_error"
             ELSE IF rejected # {} THEN "malformed_citation"
             ELSE ClassOf(abstained, expected, cites # {}),
   expected |-> Len(q.claims), asserted |-> asserted, supported |-> asserted \cap supported,
   verdicts |-> verdict, right |-> ~failed /\ (abstained <=> expected)]

Verdicts(o, v) == Cardinality({i \in DOMAIN o.verdicts : o.verdicts[i] = v})

GroundingMetrics(P) ==
  LET told(v) == Total([i \in DOMAIN answers |-> Verdicts(answers[i], v)], P)
      emitted == Total([i \in DOMAIN answers |-> Cardinality(DOMAIN answers[i].verdicts)], P)
      asserted == Total([i \in DOMAIN answers |-> Cardinality(answers[i].asserted)], P)
      supported == Total([i \in DOMAIN answers |-> Cardinality(answers[i].supported)], P) IN
  [cases |-> Cardinality(P), precision |-> Thousandths(told("correct"), emitted),
   coverage |-> Thousandths(supported, asserted),
   abstention |-> Thousandths(Cardinality({i \in P : answers[i].right}), Cardinality(P)),
   leaked |-> told("cross_notebook")]

-----------------------------------------------------------------------------
(* The artifact, and its comparison.                                        *)

(* run_retrieval_eval and run_grounding_eval: an empty category is reported *)
(* like any other.                                                          *)
InCategory(k, items) == {i \in DOMAIN items : items[i].category = k}

(* Baseline::capture.                                                       *)
Artifact ==
  [header |-> [corpus |-> fixtures.manifest.version, split |-> "train", limit |-> TopK], absent |-> {},
   retrieval |-> [overall |-> RetrievalMetrics(DOMAIN scored),
                  by |-> [k \in Categories |-> RetrievalMetrics(InCategory(k, scored))]],
   grounding |-> [overall |-> GroundingMetrics(DOMAIN answers),
                  by |-> [k \in Categories |-> GroundingMetrics(InCategory(k, answers))]]]

Fell(before, after) == after - before < -Tolerance

(* compare, over all and category by category; where neither measured       *)
(* anything there is nothing to compare.                                    *)
RetrievalFell(before, after) ==
  Fell(before.recall, after.recall) \/ Fell(before.ndcg, after.ndcg)
GroundingFell(before, after) ==
  Fell(before.precision, after.precision) \/ Fell(before.coverage, after.coverage)

Regressions(old, new) ==
  {k \in DOMAIN old.retrieval.by \cap DOMAIN new.retrieval.by :
     LET b == old.retrieval.by[k]  a == new.retrieval.by[k] IN
     (b.judged > 0 \/ a.judged > 0) /\ RetrievalFell(b, a)}
  \cup {k \in DOMAIN old.grounding.by \cap DOMAIN new.grounding.by :
     LET b == old.grounding.by[k]  a == new.grounding.by[k] IN
     (b.cases > 0 \/ a.cases > 0) /\ GroundingFell(b, a)}
  \cup {k \in {"overall"} : \/ RetrievalFell(old.retrieval.overall, new.retrieval.overall)
                            \/ GroundingFell(old.grounding.overall, new.grounding.overall)}

MissingCategories(old, new) ==
  (DOMAIN old.retrieval.by \ DOMAIN new.retrieval.by) \cup (DOMAIN old.grounding.by \ DOMAIN new.grounding.by)

RetrievalOnly(new) ==
  \/ new.retrieval.overall.breaches > 0
  \/ \E k \in DOMAIN new.retrieval.by : new.retrieval.by[k].breaches > 0

Isolation(new) ==
  \/ new.retrieval.overall.breaches > 0
  \/ \E k \in DOMAIN new.retrieval.by : new.retrieval.by[k].breaches > 0
  \/ \E k \in DOMAIN new.grounding.by : new.grounding.by[k].leaked > 0

Unmet(new) ==
  LET r == new.retrieval.overall  g == new.grounding.overall IN
  \/ r.recall < Targets.recall \/ r.ndcg < Targets.ndcg
  \/ g.precision < Targets.precision \/ g.coverage < Targets.coverage
  \/ g.abstention < Targets.abstention

Enforcements == {"regression_only", "regression_and_targets"}

Blocking(old, new, enforce) ==
  \/ old.header # new.header
  \/ MissingCategories(old, new) # {}
  \/ Regressions(old, new) # {}
  \/ Isolation(new)
  \/ enforce = "regression_and_targets" /\ Unmet(new)

-----------------------------------------------------------------------------
(* rag-eval.                                                                *)

NoArtifact == [header |-> {}]

EvalInit ==
  /\ revision \in DOMAIN Fixtures
  /\ scoped \in BOOLEAN
  /\ scored = <<>> /\ answers = <<>>
  /\ gate = [at |-> "start", artifact |-> NoArtifact, against |-> NoArtifact]

Exit(how) == gate' = [gate EXCEPT !.at = how]

(* load_validated: a malformed case, or any violation, and nothing is       *)
(* measured.                                                                *)
LoadValidated ==
  /\ gate.at = "start"
  /\ Exit(IF Malformed(fixtures) # {} \/ Violations(fixtures) # {} THEN "refused" ELSE "measuring")
  /\ UNCHANGED <<revision, scoped, scored, answers>>

MeasuredQueries == InSplit(fixtures, "train")

SearchQuery ==
  /\ gate.at = "measuring" /\ Len(scored) < Len(MeasuredQueries)
  /\ LET q == MeasuredQueries[Len(scored) + 1] IN
     \E found \in {f \in Found : Retrieved(q, f)} : scored' = Append(scored, ScoreOf(q, found))
  /\ UNCHANGED <<revision, scoped, answers, gate>>

(* A written answer over what was found: a marker beyond it is rejected.    *)
Rendered(text, found) ==
  [i \in DOMAIN text |-> IF text[i][1] # "cites" THEN text[i]
                         ELSE IF text[i][2] \in DOMAIN found THEN <<"cites", found[text[i][2]]>>
                         ELSE <<"rejected">>]

(* answer_with_deterministic_pipeline searches again, to the same result.   *)
AnswerQuery ==
  /\ gate.at = "measuring" /\ Len(scored) = Len(MeasuredQueries) /\ Len(answers) < Len(scored)
  /\ LET q == MeasuredQueries[Len(answers) + 1]
         found == scored[Len(answers) + 1].found IN
     \E text \in Written :
       answers' = Append(answers, AnswerScore(
         [query |-> q.id, current |-> TRUE, text |-> Rendered(text, found),
          sufficient |-> ToSet(found) \cap {k.id : k \in Relevant(q)} # {},
          kind |-> IF <<"fallback">> \in ToSet(text) THEN "abstained" ELSE "answered"]))
  /\ UNCHANGED <<revision, scoped, scored, gate>>

(* run_grounding_eval takes answers from elsewhere as well.                 *)
AddRecorded ==
  /\ gate.at = "measuring" /\ Len(answers) = Len(MeasuredQueries) /\ Len(scored) = Len(answers)
  /\ \E case \in Recorded : answers' = Append(answers, AnswerScore(case))
  /\ UNCHANGED <<revision, scoped, scored, gate>>

(* The embedding provider fails: the command reports nothing.               *)
MeasurementFails ==
  /\ gate.at = "measuring" /\ Exit("failed")
  /\ UNCHANGED <<revision, scoped, scored, answers>>

Capture ==
  /\ gate.at = "measuring" /\ Len(scored) = Len(MeasuredQueries) /\ Len(answers) >= Len(scored)
  /\ gate' = [gate EXCEPT !.at = "captured", !.artifact = Artifact]
  /\ UNCHANGED <<revision, scoped, scored, answers>>

(* Required metrics that a document does not carry.                         *)
MissingMetrics(document) == document.absent

(* compare_command: a document without a required metric is refused before  *)
(* anything is compared.                                                    *)
CompareBaselines ==
  /\ gate.at = "captured"
  /\ \E old \in Approved, enforce \in Enforcements :
       gate' = [gate EXCEPT !.against = old,
                            !.at = IF MissingMetrics(old) # {} \/ Blocking(old, gate.artifact, enforce)
                                   THEN "blocked" ELSE "released"]
  /\ UNCHANGED <<revision, scoped, scored, answers>>

EvalNext ==
  LoadValidated \/ SearchQuery \/ AnswerQuery \/ AddRecorded \/ MeasurementFails \/ Capture \/ CompareBaselines

EvalSpec == EvalInit /\ [][EvalNext]_evalVars

-----------------------------------------------------------------------------
Measured == gate.at \in {"measuring", "captured", "blocked", "released"}
Known(o) == o.category # "unknown"
Asked(o) == CHOOSE q \in ToSet(fixtures.queries) : q.id = o.case.query

(* In a corpus that may be measured a query is judged exactly when it can   *)
(* be answered, everything relevant to it and every support of its claims   *)
(* is in its notebook, and nothing it forbids is: the labels mean to the    *)
(* scorers what they meant to the validator, though both look things up by  *)
(* slug and the scorers take what is not found for absent.                  *)
LabelsMeanTheSame ==
  Measured => \A q \in ToSet(fixtures.queries) :
    /\ q.answerable <=> Relevant(q) # {}
    /\ \A k \in Relevant(q) : HomeOf(fixtures, k) = {q.notebook}
    /\ \A c \in ToSet(q.claims) : c.by # {} /\ c.by \subseteq {k.id : k \in Relevant(q)}
    /\ \A k \in ToSet(fixtures.chunks) : k.source \in q.forbidden => q.notebook \notin HomeOf(fixtures, k)

(* A search that stays in its notebook is never charged with a breach.      *)
NoFalseBreach == scoped => \A i \in DOMAIN scored : ~scored[i].breach

(* A claim that counts as supported is one the text makes, with a citation  *)
(* of a chunk of the query's notebook that carries it, from the generation  *)
(* measured.                                                                *)
SupportIsReal ==
  \A i \in DOMAIN answers : LET o == answers[i] IN
    \A c \in o.supported :
      /\ o.case.current /\ Asserts(o.case.text, c)
      /\ \E p \in ToSet(o.case.text) : p[1] = "cites" /\ p[2] \in c.by
           /\ Asked(o).notebook \in HomeOf(fixtures, Chunk(p[2]))

InAll(count) ==
  count["paraphrase"] + count["unanswerable"] + count["multi_hop"] + count["conflicting"]

(* No case leaves a denominator: the categories and the answers to unknown  *)
(* queries make up the whole, and every query of the split is in it.        *)
NothingIsDropped ==
  gate.artifact # NoArtifact =>
    LET r == gate.artifact.retrieval  g == gate.artifact.grounding IN
    /\ r.overall.queries = Len(MeasuredQueries)
    /\ InAll([k \in Categories |-> r.by[k].queries]) = r.overall.queries
    /\ InAll([k \in Categories |-> r.by[k].judged]) = r.overall.judged
    /\ InAll([k \in Categories |-> g.by[k].cases]) + Cardinality({i \in DOMAIN answers : ~Known(answers[i])})
         = g.overall.cases
    /\ g.overall.cases >= Len(MeasuredQueries)

(* Nothing is released under either enforcement whose searches returned a   *)
(* forbidden source or whose answers to the corpus's queries cite another   *)
(* notebook, however good its figures.                                      *)
ReleaseIsIsolated ==
  gate.at = "released" =>
    /\ \A i \in DOMAIN scored : \A slug \in ToSet(scored[i].found) :
         Chunk(slug).source \notin (CHOOSE q \in ToSet(fixtures.queries) : q.id = scored[i].query).forbidden
    /\ \A i \in DOMAIN answers : LET o == answers[i] IN
         Known(o) /\ o.case.current /\ o.case.kind = "answered" /\ <<"fallback">> \notin ToSet(o.case.text) =>
           \A j \in CitesAt(o.case.text) : Entry(fixtures.chunks, o.case.text[j][2]) # {} =>
             Asked(o).notebook \in HomeOf(fixtures, Chunk(o.case.text[j][2]))

(* What is released was compared with all that was approved: each category  *)
(* of the approved baseline was measured again, on the same corpus version. *)
ReleaseIsComparable ==
  gate.at = "released" =>
    /\ MissingMetrics(gate.against) = {} /\ gate.against.header = gate.artifact.header
    /\ \A k \in DOMAIN gate.against.retrieval.by :
         gate.artifact.retrieval.by[k].judged = 0 => gate.against.retrieval.by[k].recall <= Tolerance

EvalTypeOK ==
  /\ revision \in DOMAIN Fixtures /\ scoped \in BOOLEAN
  /\ \A i \in DOMAIN answers :
       LET o == answers[i] IN
       o.class \in CaseClasses /\ \A j \in DOMAIN o.verdicts : o.verdicts[j] \in CitationVerdicts
  /\ gate.at \in {"start", "refused", "measuring", "failed", "captured", "blocked", "released"}

EvalInv ==
  /\ EvalTypeOK /\ LabelsMeanTheSame /\ NoFalseBreach /\ SupportIsReal
  /\ NothingIsDropped /\ ReleaseIsIsolated /\ ReleaseIsComparable
=============================================================================
