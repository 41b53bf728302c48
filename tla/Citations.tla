------------------------------- MODULE Citations -------------------------------
(***************************************************************************)
(* From the text of an answer to its citations: llm/citations.rs and       *)
(* api/chat/citation_resolution.rs, with the native citations              *)
(* process_chunk writes into the text.  An answer is a sequence of pieces, *)
(* a passage the sets of words and numbers it holds.  While the answer is  *)
(* written, looked up and leased, sources are indexed again or deleted.    *)
(***************************************************************************)
EXTENDS Naturals, Sequences, FiniteSets

CONSTANTS
  Cited,         \* the sources of a notebook
  Passages,      \* lists of retrieved passages: [source, gen, index, owned, words, numbers];
                 \* owned: position and span describe the content (owns_chunk)
  Quotes,        \* [words, numbers]: texts a provider may quote
  Deltas,        \* texts a provider may stream: sequences of pieces
  Polarity,      \* words that deny
  LastGen,       \* bound: generations of a source, numbered from 1, the newest last
  MaxDeltas,     \* bound: deltas of an answer
  NoGen          \* no active generation, or a nil one

Generations == 1 .. LastGen \cup {NoGen}
PieceKinds == {"word", "number", "mark", "stop", "newline", "tick"}
AnyPassage == UNION {{ps[i] : i \in DOMAIN ps} : ps \in Passages}
Streamed == UNION {{d[i] : i \in DOMAIN d} : d \in Deltas}

\* A chunk is one row of its generation and position (chunks_generation_chunk_index_unique) and is
\* retrieved once (results are merged by chunk_id).
ASSUME CitationsAssumption ==
  /\ Passages \subseteq Seq(AnyPassage) /\ Deltas \subseteq Seq(Streamed)
  /\ \A p \in AnyPassage : p.source \in Cited /\ p.gen \in Generations
  /\ \A ps \in Passages : \A i, j \in DOMAIN ps :
       (/\ ps[i].source = ps[j].source /\ ps[i].index = ps[j].index
        /\ ps[i].gen = ps[j].gen /\ ps[i].gen # NoGen) => i = j
  /\ \A p \in Streamed : p[1] \in PieceKinds
  /\ LastGen \in Nat \ {0} /\ MaxDeltas \in Nat
  /\ NoGen \notin Nat

VARIABLES
  passages,      \* context_chunks, and with native citations the documents sent
  native,        \* uses_native_citations
  text,          \* full_response
  deltas,
  located,       \* native citations: the document, the quote, the place of the marker
  numbered,      \* document_numbers: the documents in the order of their first citation
  active,        \* sources.active_generation_id
  resolution,    \* "generating", "looking", "extracting", "leasing", "leased", "resolved"
  looked,        \* active_generations: of each source read so far
  candidates, rejected,
  lent           \* sources whose row the lease locks

citeVars == <<passages, native, text, deltas, located, numbered, active, resolution, looked,
              candidates, rejected, lent>>

(* Pieces: <<"word", w>>, <<"number", n>>, <<"mark", n>> for [n], and the    *)
(* characters that delimit claims and code.                                 *)
Stop == <<"stop", 0>>
Newline == <<"newline", 0>>
Tick == <<"tick", 0>>

Kind(t, i, k) == t[i][1] = k
Marks(t) == {i \in DOMAIN t : Kind(t, i, "mark")}

CiteInit ==
  /\ passages \in Passages /\ native \in BOOLEAN
  /\ text = <<>> /\ deltas = 0 /\ located = <<>> /\ numbered = <<>>
  /\ active \in [Cited -> Generations]
  /\ \A i \in DOMAIN passages :      \* what was retrieved was published, before the answer
       LET g == active[passages[i].source]
       IN passages[i].gen # NoGen /\ g # NoGen => passages[i].gen <= g
  /\ resolution = "generating" /\ looked = <<>>
  /\ candidates = {} /\ rejected = 0 /\ lent = {}

-----------------------------------------------------------------------------
(* Code: find_code_ranges.                                                  *)

Is(t, i, p) == i \in DOMAIN t /\ t[i] = p

Earliest(t, S) == IF S = {} THEN Len(t) + 1 ELSE CHOOSE i \in S : \A j \in S : i <= j

FenceEnd(t, i) ==
  LET line == Earliest(t, {j \in i + 3 .. Len(t) : t[j] = Newline})
      closing == Earliest(t, {j \in line .. Len(t) :
                   t[j] = Newline /\ Is(t, j + 1, Tick) /\ Is(t, j + 2, Tick) /\ Is(t, j + 3, Tick)})
  IN Earliest(t, {j \in closing + 4 .. Len(t) : t[j] = Newline})

InlineEnd(t, i) == Earliest(t, {j \in i + 1 .. Len(t) : t[j] = Tick}) + 1

\* From the first piece on: a backtick opens code, and reading goes on where it ends.
CodeRanges(t) ==
  LET from[i \in Nat] ==
        IF i > Len(t) THEN {}
        ELSE IF t[i] # Tick THEN from[i + 1]
        ELSE LET end == IF Is(t, i + 1, Tick) /\ Is(t, i + 2, Tick) THEN FenceEnd(t, i)
                        ELSE InlineEnd(t, i)
             IN i .. end - 1 \cup from[end]
  IN from[1]

InCode(t, i) == i \in CodeRanges(t)

-----------------------------------------------------------------------------
(* Support: the claim before a marker, against the words of the evidence.   *)

\* immediately_preceding_claim: back to the last full stop or line.
Claim(t, m) ==
  {i \in 1 .. m - 1 : \A j \in i .. m - 1 : t[j] # Stop /\ t[j] # Newline}

\* claim_is_supported_by: every number, the digits of other markers included, every denial
\* and two thirds of the words.
Supported(t, m, evidence) ==
  LET words == {i \in Claim(t, m) : Kind(t, i, "word")}
      found == {i \in words : t[i][2] \in evidence.words}
  IN /\ \A i \in Claim(t, m) : Kind(t, i, "number") \/ Kind(t, i, "mark") => t[i][2] \in evidence.numbers
     /\ words # {}
     /\ \A i \in words : t[i][2] \in Polarity => i \in found
     /\ 3 * Cardinality(found) >= 2 * Cardinality(words)

-----------------------------------------------------------------------------
(* Prompted markers: extract_citations_with_active_generations.             *)

MarkEarns(m) ==
  LET n == text[m][2] IN
  /\ ~InCode(text, m)
  /\ n \in DOMAIN passages
  /\ passages[n].gen # NoGen /\ looked[passages[n].source] = passages[n].gen
  /\ passages[n].owned
  /\ Supported(text, m, passages[n])

\* resolve_prompt_markers finds the passage again by its source and index.
FoundAgain(n) ==
  CHOOSE i \in DOMAIN passages :
    /\ passages[i].source = passages[n].source /\ passages[i].index = passages[n].index
    /\ \A j \in 1 .. i - 1 : ~(/\ passages[j].source = passages[n].source
                               /\ passages[j].index = passages[n].index)

Candidate(cites, event, found) ==
  [cites |-> cites, event |-> event, source |-> passages[found].source, gen |-> passages[found].gen]

FromMarks ==
  {Candidate(text[m][2], FoundAgain(text[m][2]), FoundAgain(text[m][2])) :
     m \in {k \in Marks(text) : MarkEarns(k)}}

\* Native citations: resolve_native and native_ownership.
QuoteBelongs(passage, quote) ==
  quote.words # {} /\ quote.words \subseteq passage.words /\ quote.numbers \subseteq passage.numbers

NativeEarns(c) ==
  /\ c.doc \in DOMAIN passages
  /\ QuoteBelongs(passages[c.doc], c.quote)
  /\ Supported(text, c.at, c.quote)
  /\ ~InCode(text, c.at)
  /\ passages[c.doc].owned

Number(doc) == CHOOSE n \in DOMAIN numbered : numbered[n] = doc

FromNative ==
  {Candidate(c.doc, Number(c.doc), c.doc) :
     c \in {located[i] : i \in {k \in DOMAIN located : NativeEarns(located[k])}}}

UsesNative == native /\ located # <<>>

-----------------------------------------------------------------------------
(* Generation: process_chunk.                                               *)

WriteText ==
  /\ resolution = "generating" /\ deltas < MaxDeltas
  /\ \E d \in Deltas : text' = text \o d
  /\ deltas' = deltas + 1
  /\ UNCHANGED <<passages, native, located, numbered, active, resolution, looked, candidates,
                 rejected, lent>>

\* The marker of a native citation takes its document's number, a new one the first time.
CiteNatively ==
  /\ resolution = "generating" /\ native /\ deltas < MaxDeltas
  /\ \E doc \in 1 .. Len(passages) + 1, q \in Quotes :
       LET seen == \E n \in DOMAIN numbered : numbered[n] = doc
           number == IF seen THEN Number(doc) ELSE Len(numbered) + 1
       IN /\ numbered' = IF seen THEN numbered ELSE Append(numbered, doc)
          /\ located' = Append(located, [doc |-> doc, quote |-> q, at |-> Len(text) + 1])
          /\ text' = Append(text, <<"mark", number>>)
  /\ deltas' = deltas + 1
  /\ UNCHANGED <<passages, native, active, resolution, looked, candidates, rejected, lent>>

FinishAnswer ==
  /\ resolution = "generating" /\ resolution' = "looking"
  /\ UNCHANGED <<passages, native, text, deltas, located, numbered, active, looked, candidates,
                 rejected, lent>>

-----------------------------------------------------------------------------
(* Resolution: resolve_citations and finalize_candidates.                   *)

Named == {passages[i].source : i \in DOMAIN passages}

\* One get_by_id per source; one that fails leaves the source out of the map, which no
\* generation equals.
LookUp ==
  /\ resolution = "looking"
  /\ IF Named \subseteq DOMAIN looked
     THEN resolution' = "extracting" /\ UNCHANGED looked
     ELSE /\ \E s \in Named \ DOMAIN looked : \E g \in {active[s], NoGen} :
               looked' = [r \in DOMAIN looked \cup {s} |-> IF r = s THEN g ELSE looked[r]]
          /\ UNCHANGED resolution
  /\ UNCHANGED <<passages, native, text, deltas, located, numbered, active, candidates, rejected,
                 lent>>

Extract ==
  /\ resolution = "extracting"
  /\ IF UsesNative
     THEN /\ candidates' = FromNative
          /\ rejected' = Cardinality({i \in DOMAIN located : ~NativeEarns(located[i])})
     ELSE /\ candidates' = FromMarks
          /\ rejected' = Cardinality({m \in Marks(text) : ~MarkEarns(m)})
  /\ resolution' = IF candidates' = {} THEN "resolved" ELSE "leasing"
  /\ UNCHANGED <<passages, native, text, deltas, located, numbered, active, looked, lent>>

\* A slip: trusts the pointers read before the extraction.
StillActiveAsLooked(c) == looked[c.source] = c.gen

StillActive(c) == c.gen # NoGen /\ active[c.source] = c.gen

Pinned == {c \in candidates : StillActive(c)}

\* lock_active_generations: the pointers are read again, under row locks that hold them.
\* The lease of no citation is released at once.
Lease ==
  /\ resolution = "leasing"
  /\ candidates' = Pinned
  /\ rejected' = rejected + Cardinality(candidates \ Pinned)
  /\ lent' = {c.source : c \in Pinned}
  /\ resolution' = IF Pinned = {} THEN "resolved" ELSE "leased"
  /\ UNCHANGED <<passages, native, text, deltas, located, numbered, active, looked>>

LeaseFails ==
  /\ resolution = "leasing" /\ resolution' = "resolved"
  /\ candidates' = {} /\ rejected' = rejected + Cardinality(candidates)
  /\ UNCHANGED <<passages, native, text, deltas, located, numbered, active, looked, lent>>

\* The answer is stored and its citations queued; the lease commits.
PersistCited ==
  /\ resolution = "leased" /\ resolution' = "resolved"
  /\ lent' = {}
  /\ UNCHANGED <<passages, native, text, deltas, located, numbered, active, looked, candidates,
                 rejected>>

-----------------------------------------------------------------------------
(* The index goes on: a new generation is published, or a source deleted.   *)
(* Nothing reads it while the answer is written: what happens then is in    *)
(* CiteInit.                                                                *)

Reindex ==
  /\ \E s \in Cited \ lent :
       \/ active[s] \in 1 .. LastGen - 1 /\ active' = [active EXCEPT ![s] = @ + 1]
       \/ active[s] # NoGen /\ active' = [active EXCEPT ![s] = NoGen]
  /\ resolution \notin {"generating", "resolved"}
  /\ UNCHANGED <<passages, native, text, deltas, located, numbered, resolution, looked, candidates,
                 rejected, lent>>

CiteNext ==
  \/ WriteText \/ CiteNatively \/ FinishAnswer \/ LookUp \/ Extract
  \/ Lease \/ LeaseFails \/ PersistCited \/ Reindex

CiteSpec == CiteInit /\ [][CiteNext]_citeVars

-----------------------------------------------------------------------------
CiteTypeOK ==
  /\ passages \in Passages /\ native \in BOOLEAN
  /\ \A i \in DOMAIN text : text[i][1] \in PieceKinds
  /\ active \in [Cited -> Generations]
  /\ resolution \in {"generating", "looking", "extracting", "leasing", "leased", "resolved"}
  /\ rejected \in Nat
  /\ lent \subseteq Cited /\ (lent # {} => resolution = "leased")

\* While the answer is stored, the very passage each citation quotes is of the generation in
\* service, although the candidates were found again by source and index only and the index
\* moved during the answer.
EvidenceIsPinned ==
  resolution = "leased" =>
    \A c \in candidates : active[passages[c.cites].source] = passages[c.cites].gen

\* The number of a citation event is one the reader sees: a marker outside code, after a claim
\* that the cited passage supports.
NumbersAreRead ==
  resolution \in {"leased", "resolved"} =>
    \A c \in candidates : \E m \in Marks(text) :
      /\ text[m][2] = c.event /\ ~InCode(text, m) /\ Supported(text, m, passages[c.cites])

\* Every document or passage that was marked is cited or counted as refused.
RefusalsAreCounted ==
  resolution = "resolved" =>
    LET marked == IF UsesNative THEN {located[i].doc : i \in DOMAIN located}
                  ELSE {text[m][2] : m \in Marks(text)}
    IN Cardinality(marked \ {c.cites : c \in candidates}) <= rejected

\* A citation, from its marker to its row: of the index in service, under a number the reader
\* sees after a claim it supports; and what was marked and not cited is counted.
CitationsInv == CiteTypeOK /\ EvidenceIsPinned /\ NumbersAreRead /\ RefusalsAreCounted
=============================================================================
