----------------------------- MODULE EvalCorpus -----------------------------
(* The labelled corpus the retrieval evaluation measures against            *)
(* (services/rag/eval/corpus.rs): how it is looked up, and what validate    *)
(* demands of it before anything may be measured.  A corpus is its three    *)
(* files, flat and in document order: a source names its notebook and a     *)
(* chunk its source.  Of a text there is its length, whether it is blank    *)
(* and whether it looks like a credential.                                  *)
EXTENDS Integers, Sequences, FiniteSets, SequencesExt, Places

\* The categories validate has a rule for, and one of those it has none for.
Categories == {"paraphrase", "unanswerable", "multi_hop", "conflicting"}
Splits == {"train", "holdout"}
NoGroup == "none"

(* Lookups by slug: the first one there is, or none.                        *)
Entry(items, slug) ==
  {items[k] : k \in {j \in DOMAIN items :
     items[j].id = slug /\ \A i \in 1 .. j - 1 : items[i].id # slug}}

HomeOf(c, chunk) == {s.notebook : s \in Entry(c.sources, chunk.source)}

InSplit(c, split) == Picked(c.queries, {j \in DOMAIN c.queries : c.queries[j].split = split})

CasesOf(c, category) == Cardinality({j \in DOMAIN c.queries : c.queries[j].category = category})

(* load_queries: the first case that lacks a required field, if any; no     *)
(* case is skipped.                                                         *)
Malformed(c) ==
  {c.queries[k].id : k \in {j \in DOMAIN c.queries :
     ~c.queries[j].complete /\ \A i \in 1 .. j - 1 : c.queries[i].complete}}

-----------------------------------------------------------------------------
(* validate: every violation, as the object it is about and the field.      *)

Repeated(items) ==
  {items[k].id : k \in {j \in DOMAIN items : \E i \in 1 .. j - 1 : items[i].id = items[j].id}}

ChunksIn(c, source) == SelectSeq(c.chunks, LAMBDA k : k.source = source)

(* validate_structure.                                                      *)
StructureViolations(c) ==
  {<<slug, "id">> : slug \in Repeated(c.notebooks) \cup Repeated(c.sources) \cup Repeated(c.chunks)}
  \cup {<<s.id, "source_type">> : s \in {x \in ToSet(c.sources) : ~x.typed}}
  \cup {<<c.chunks[k].id, "index">> : k \in {j \in DOMAIN c.chunks : \E i \in 1 .. j - 1 :
          c.chunks[i].source = c.chunks[j].source /\ c.chunks[i].index = c.chunks[j].index}}
  \cup UNION {{<<k.id, f>> : f \in {x \in {"content", "span", "parent_group"} :
          \/ x = "content" /\ k.blank
          \/ x = "span" /\ k.to <= k.from
          \/ x = "parent_group" /\ k.group = ""}} : k \in ToSet(c.chunks)}

(* validate_spans: in index order a chunk begins after the blank line that  *)
(* follows the one before it, and is as long as its content; the first that *)
(* does not is reported.                                                    *)
Separator == 2
SpanViolations(c, source) ==
  LET ordered == SortSeq(ChunksIn(c, source), LAMBDA a, b : a.index < b.index)
      start[k \in DOMAIN ordered] ==
        IF k = 1 THEN 0 ELSE start[k - 1] + ordered[k - 1].len + Separator
      misplaced == {k \in DOMAIN ordered :
                      \/ ordered[k].from # start[k]
                      \/ ordered[k].to # start[k] + ordered[k].len} IN
  {<<ordered[k].id, "span">> : k \in {j \in misplaced : \A i \in misplaced : j <= i}}

(* validate_synthetic.                                                      *)
ValueViolations(c) ==
  {<<x.id, "value">> : x \in {y \in ToSet(c.notebooks) \cup ToSet(c.sources) \cup ToSet(c.chunks)
                                \cup ToSet(c.queries) : y.secret}}

(* A claim: named once, with markers, supported by chunks labelled relevant. *)
ClaimViolations(c, q) ==
  {<<q.id, "expected_claims.id">> : x \in Repeated(q.claims)}
  \cup {<<q.id, "expected_claims.answer_markers">> : k \in {x \in ToSet(q.claims) : x.markers = {}}}
  \cup {<<q.id, "expected_claims.supported_by">> : k \in {x \in ToSet(q.claims) :
          x.by = {} \/ \E slug \in x.by : Entry(c.chunks, slug) = {} \/ slug \notin ToSet(q.chunks)}}

(* A forbidden source exists, and is neither relevant nor in the notebook   *)
(* the query is asked in.                                                   *)
OnlyIrrelevant(c, q) ==
  \A slug \in q.forbidden : Entry(c.sources, slug) # {} /\ slug \notin ToSet(q.sources)

ForbidsRightly(c, q) ==
  \A slug \in q.forbidden :
    /\ Entry(c.sources, slug) # {} /\ slug \notin ToSet(q.sources)
    /\ \A s \in Entry(c.sources, slug) : s.notebook # q.notebook

(* The labels of a query whose notebook exists.                             *)
LabelViolations(c, q) ==
  LET relevant == ToSet(q.chunks)
      found == UNION {Entry(c.chunks, slug) : slug \in relevant}
      field == [relevant_chunks |->
                  \/ \E slug \in relevant : Entry(c.chunks, slug) = {}
                  \/ \E k \in found : q.notebook \notin HomeOf(c, k)
                  \/ ~(q.answerable <=> q.chunks # <<>>)
                  \/ q.category = "multi_hop" /\ Len(q.chunks) < 2,
                relevant_sources |->
                  \/ \E k \in found : k.source \notin ToSet(q.sources)
                  \/ \E slug \in ToSet(q.sources) : Entry(c.sources, slug) = {}
                  \/ q.category = "conflicting" /\ Len(q.sources) < 2,
                forbidden_sources |-> ~ForbidsRightly(c, q),
                expected_claims |-> ~(q.answerable <=> q.claims # <<>>),
                answerable |-> q.category = "unanswerable" /\ q.answerable] IN
  {<<q.id, f>> : f \in {x \in DOMAIN field : field[x]}}

(* validate_queries: what is said of a query in an unknown notebook ends    *)
(* there.                                                                   *)
QueryViolations(c) ==
  {<<slug, "id">> : slug \in Repeated(c.queries)}
  \cup {<<q.id, "query">> : q \in {x \in ToSet(c.queries) : x.blank}}
  \cup {<<q.id, "notebook">> : q \in {x \in ToSet(c.queries) : Entry(c.notebooks, x.notebook) = {}}}
  \cup UNION {LabelViolations(c, q) \cup ClaimViolations(c, q) :
                q \in {x \in ToSet(c.queries) : Entry(c.notebooks, x.notebook) # {}}}

(* validate_coverage, against the manifest.                                 *)
CoverageViolations(c) ==
  LET short == [queries |-> Len(c.queries) < c.manifest.total,
                category |-> \E k \in Categories : CasesOf(c, k) < c.manifest.each,
                split |-> \E s \in Splits : InSplit(c, s) = <<>>,
                forbidden_sources |-> \A q \in ToSet(c.queries) : q.forbidden = {},
                changelog |-> c.manifest.version \notin c.manifest.changelog] IN
  {<<"corpus", f>> : f \in {x \in DOMAIN short : short[x]}}

Violations(c) ==
  StructureViolations(c) \cup (UNION {SpanViolations(c, s.id) : s \in ToSet(c.sources)})
  \cup ValueViolations(c) \cup QueryViolations(c) \cup CoverageViolations(c)
=============================================================================
