---------------------------- MODULE PdfExtraction ----------------------------
(***************************************************************************)
(* How the pages of a PDF become text with page numbers: native text page  *)
(* by page, recognition (OCR) of the pages that have none, its permit and  *)
(* its charge, the cache of what was recognised, and the layout from which *)
(* a citation takes its page.  The builds of several uploads of the same   *)
(* or of other documents run at once; each may fail, be dropped with the   *)
(* process or outlive its upload.                                          *)
(*                                                                         *)
(* The text of a page is the number of the page it was read from, and      *)
(* NoText when nothing was read; the hash of a document is the document.   *)
(***************************************************************************)
EXTENDS Naturals, Sequences, FiniteSets, SequencesExt, Places

CONSTANTS
  Uploads,        \* PDF sources, each with one build at a time
  Documents,      \* what they may contain: a sequence of kinds of page
  OcrModels,      \* the models a deployment may be configured with
  MaxPages,       \* ocr.max_pages_per_request
  PageLength,     \* length of a page's text, once cleaned
  MaxAttempts     \* bound on the builds of an upload

ASSUME PdfAssumption ==
  /\ Documents \subseteq Seq({"text", "sparse", "scan", "blank"}) \ {<<>>}
  /\ MaxPages \in Nat \ {0} /\ PageLength \in Nat \ {0} /\ MaxAttempts \in Nat

NoText == 0
SeparatorLength == 2

VARIABLES
  document,       \* Uploads -> Documents
  reading,        \* Uploads -> what the two PDF libraries make of it
  model,          \* ocr.model of this deployment
  build,          \* Uploads -> the build and the text it produced
  cache,          \* the rows of ocr_cache
  live,           \* uploads whose source row exists
  attempts        \* Uploads -> builds so far

pdfVars == <<document, reading, model, build, cache, live, attempts>>

-----------------------------------------------------------------------------
Number(pages) == 1 .. Len(pages)

(* What each page's text is natively, and what recognition makes of it.    *)
NativePage(doc, i) == IF doc[i] \in {"text", "sparse"} THEN i ELSE NoText
OcrPage(doc, i) == IF doc[i] = "blank" THEN NoText ELSE i

(* A library that fails on the document ends the build; the text extractor *)
(* may stop early, and the page counter answers 0 when it cannot tell.     *)
Readings(doc) ==
  [extracted: 0 .. Len(doc), counted: BOOLEAN, fails: {FALSE}]
    \cup [extracted: {0}, counted: {FALSE}, fails: {TRUE}]

PageCount(u) == IF reading[u].counted THEN Len(document[u]) ELSE 0

(* page_segments, padded to the page count.                                *)
Segments(u) ==
  LET extracted == reading[u].extracted
      count == IF PageCount(u) > extracted THEN PageCount(u) ELSE extracted
  IN [i \in 1 .. count |->
        IF i <= extracted THEN NativePage(document[u], i) ELSE NoText]

WholeDocument(u) == reading[u].extracted = 0 /\ PageCount(u) = 0

(* Pages below the threshold, the first of them when there are too many.   *)
Sparse(u) ==
  {i \in Number(Segments(u)) :
     i > reading[u].extracted \/ document[u][i] # "text"}

Wanted(u) == {i \in Sparse(u) : Cardinality({j \in Sparse(u) : j < i}) < MaxPages}

NativeIsEmpty(u) == \A i \in Number(Segments(u)) : Segments(u)[i] = NoText

(* The units of ProcessOcrPages that are asked for.                        *)
PagesNeeded(u) == IF WholeDocument(u) THEN MaxPages ELSE Cardinality(Wanted(u))

-----------------------------------------------------------------------------
(* The build's stages. *)

(* answered and charged: whether the provider answered this build, and the *)
(* units recorded for it.                                                  *)
Idle == [pc |-> "idle", pages |-> <<>>, processed |-> 0, answered |-> FALSE, charged |-> 0]

Finish(u, pages) ==
  build' = [build EXCEPT ![u].pc = "done", ![u].pages = pages, ![u].processed = 0]

Continue(u, pc) == build' = [build EXCEPT ![u].pc = pc]

Start(u) ==
  /\ build[u].pc \in {"idle", "done", "failed"}
  /\ u \in live
  /\ attempts[u] < MaxAttempts
  /\ build' = [build EXCEPT ![u] = [Idle EXCEPT !.pc = "reading"]]
  /\ attempts' = [attempts EXCEPT ![u] = @ + 1]
  /\ UNCHANGED <<document, reading, model, cache, live>>

(* Both libraries run; a document whose pages all have text is finished.   *)
(* Without a client, or when the page allowance is refused, what there is  *)
(* natively is kept, unless there is nothing.  The permit is a bounded one: *)
(* that of an unlimited deployment records nothing.                        *)
ReadNatively(u) ==
  /\ build[u].pc = "reading"
  /\ ~reading[u].fails
  /\ IF Sparse(u) = {} /\ ~WholeDocument(u)
     THEN Finish(u, Segments(u))
     ELSE \/ Continue(u, "permitted")
          \/ IF NativeIsEmpty(u) THEN Continue(u, "failed") ELSE Finish(u, Segments(u))
  /\ UNCHANGED <<document, reading, model, cache, live, attempts>>

ReadingFails(u) ==
  /\ build[u].pc = "reading"
  /\ reading[u].fails
  /\ Continue(u, "failed")
  /\ UNCHANGED <<document, reading, model, cache, live, attempts>>

(* Only the owner's row for this document and model is a hit.              *)
Hits(u) ==
  {row \in cache : row.owner = u /\ row.document = document[u] /\ row.model = model}

CacheHit(u) ==
  /\ build[u].pc = "permitted"
  /\ \E row \in Hits(u) : Finish(u, row.pages)
  /\ UNCHANGED <<document, reading, model, cache, live, attempts>>

(* A failed lookup is a miss too.                                          *)
CacheMiss(u) ==
  /\ build[u].pc = "permitted"
  /\ Continue(u, "calling")
  /\ UNCHANGED <<document, reading, model, cache, live, attempts>>

(* A slip: pages that were not recognised are left empty.                  *)
OcrPagesOnly(u, answered) ==
  [i \in Number(Segments(u)) |-> IF i \in answered THEN OcrPage(document[u], i) ELSE NoText]

(* merge_ocr_pages: every answer takes the place its index names.          *)
MergeOcrPages(u, answered) ==
  [i \in Number(Segments(u)) |->
     IF i \in answered THEN OcrPage(document[u], i) ELSE Segments(u)[i]]

(* With no page list the answers stand one after the other, in the order   *)
(* of their pages and whatever page they name.                             *)
InOrder(u, answered) ==
  [k \in 1 .. Cardinality(answered) |-> OcrPage(document[u], Ascending(answered)[k])]

(* The provider answers for some of the pages and says how many it         *)
(* processed: those, or all it looked at.                                  *)
CallOcr(u) ==
  /\ build[u].pc = "calling"
  /\ \E answered \in SUBSET (IF WholeDocument(u) THEN Number(document[u]) ELSE Wanted(u)),
        processed \in {0, Len(document[u])} :
     LET pages == IF WholeDocument(u) THEN InOrder(u, answered) ELSE MergeOcrPages(u, answered)
     IN build' = [build EXCEPT ![u] =
         [@ EXCEPT !.pc = "recording", !.answered = TRUE, !.pages = pages,
                   !.processed = IF processed = 0 THEN Cardinality(answered) ELSE processed]]
  /\ UNCHANGED <<document, reading, model, cache, live, attempts>>

OcrFails(u) ==
  /\ build[u].pc = "calling"
  /\ Continue(u, "failed")
  /\ UNCHANGED <<document, reading, model, cache, live, attempts>>

(* Permit::clamp_units.                                                    *)
ClampUnits(u, units) == IF units < PagesNeeded(u) THEN units ELSE PagesNeeded(u)

(* A charge that cannot be recorded is logged.                             *)
RecordUsage(u) ==
  /\ build[u].pc = "recording"
  /\ LET units == ClampUnits(u, build[u].processed) IN
       \E recorded \in {0, units} :
         build' = [build EXCEPT ![u].pc = "storing", ![u].processed = units,
                                ![u].charged = @ + recorded]
  /\ UNCHANGED <<document, reading, model, cache, live, attempts>>

-----------------------------------------------------------------------------
(* The cache.  Hash and model are unique, and so is the owner; a row goes  *)
(* with its owner's source row.                                            *)

(* store: evict the owner's other rows, and insert; where the document is  *)
(* cached already, its row changes owner and keeps its text.               *)
Upsert(u, pages) ==
  LET same == {row \in cache : row.document = document[u] /\ row.model = model}
      kept == {row \in cache \ same : row.owner # u}
  IN /\ u \in live
     /\ cache' = kept \cup
          IF same = {} THEN {[owner |-> u, document |-> document[u], model |-> model, pages |-> pages]}
          ELSE {[row EXCEPT !.owner = u] : row \in same}

(* Nothing worth keeping, or an error that is logged: a database error, a  *)
(* source that is gone, or the owner's old row in the way of the new one,  *)
(* for the eviction of one statement need not come first.                  *)
NotStored(u) ==
  /\ build[u].pc = "storing"
  /\ Finish(u, build[u].pages)
  /\ UNCHANGED <<document, reading, model, cache, live, attempts>>

StoreReading(u) ==
  /\ build[u].pc = "storing"
  /\ build[u].processed > 0
  /\ \E i \in Number(build[u].pages) : build[u].pages[i] # NoText
  /\ Upsert(u, build[u].pages)
  /\ Finish(u, build[u].pages)
  /\ UNCHANGED <<document, reading, model, live, attempts>>

(* The deadline, the shutdown or an abort drops the build where it is.     *)
DropBuild(u) ==
  /\ build[u].pc \in {"reading", "permitted", "calling", "recording", "storing"}
  /\ build' = [build EXCEPT ![u].pc = "failed", ![u].pages = <<>>, ![u].processed = 0]
  /\ UNCHANGED <<document, reading, model, cache, live, attempts>>

(* The source is deleted; a build of it under way goes on.                 *)
DeleteUpload(u) ==
  /\ u \in live
  /\ live' = live \ {u}
  /\ cache' = {row \in cache : row.owner # u}
  /\ UNCHANGED <<document, reading, model, build, attempts>>

(* The process starts again, with another model.                           *)
Reconfigure ==
  /\ model' \in OcrModels \ {model}
  /\ \A u \in Uploads : build[u].pc \in {"idle", "done", "failed"}
  /\ UNCHANGED <<document, reading, build, cache, live, attempts>>

PdfInit ==
  /\ document \in [Uploads -> Documents]
  /\ reading \in [Uploads -> UNION {Readings(doc) : doc \in Documents}]
  /\ \A u \in Uploads : reading[u] \in Readings(document[u])
  /\ \A u, v \in Uploads : document[u] = document[v] => reading[u] = reading[v]
  /\ model \in OcrModels
  /\ build = [u \in Uploads |-> Idle]
  /\ cache = {}
  /\ live = Uploads
  /\ attempts = [u \in Uploads |-> 0]

PdfNext ==
  \/ \E u \in Uploads :
       \/ Start(u) \/ ReadNatively(u) \/ ReadingFails(u)
       \/ CacheHit(u) \/ CacheMiss(u) \/ CallOcr(u) \/ OcrFails(u)
       \/ RecordUsage(u) \/ NotStored(u) \/ StoreReading(u)
       \/ DropBuild(u) \/ DeleteUpload(u)
  \/ Reconfigure

PdfSpec == PdfInit /\ [][PdfNext]_pdfVars

-----------------------------------------------------------------------------
(* SourceLayout: where each page starts in the text, and the page of an    *)
(* offset.                                                                 *)

TextLength(page) == IF page = NoText THEN 0 ELSE PageLength

(* A separator comes before every page but the first that has text.        *)
PageStarts(pages) ==
  LET next[i \in 1 .. Len(pages)] ==
        IF i = 1 THEN 0
        ELSE LET end == next[i - 1] + TextLength(pages[i - 1])
             IN IF end = 0 THEN 0 ELSE end + SeparatorLength
  IN next

(* A slip: an offset at the start of a page is still on the one before.    *)
PageForAfter(pages, offset) ==
  LET starts == {i \in Number(pages) : PageStarts(pages)[i] < offset}
  IN IF starts = {} THEN 1 ELSE Cardinality(starts)

(* partition_point: how many pages start at or before the offset.          *)
PageFor(pages, offset) ==
  LET starts == {i \in Number(pages) : PageStarts(pages)[i] <= offset}
  IN IF starts = {} THEN 1 ELSE Cardinality(starts)

(* The pages of a passage: the last one is that of its last byte.          *)
PagesFor(pages, start, end) ==
  <<PageFor(pages, start), PageFor(pages, IF end - 1 > start THEN end - 1 ELSE start)>>

-----------------------------------------------------------------------------
(* Properties. *)

PdfTypeOK ==
  /\ \A u \in Uploads :
       /\ build[u].pc \in {"idle", "reading", "permitted", "calling", "recording",
                           "storing", "done", "failed"}
       /\ Len(build[u].pages) <= Len(document[u])
       /\ Range(build[u].pages) \subseteq {NoText} \cup Number(document[u])
       /\ build[u].processed \in Nat
  /\ live \subseteq Uploads
  /\ model \in OcrModels

(* A passage is cited with the first and the last page its text came from, *)
(* however its pages were read, merged, cached and laid out.  When the     *)
(* provider reads a whole document and leaves pages out, and only then, it *)
(* may be cited with an earlier page than its own.                         *)
CitationsOpenTheirPage ==
  \A u \in Uploads : build[u].pc = "done" =>
    LET pages == build[u].pages
        starts == PageStarts(pages)
        shifted == WholeDocument(u) /\ Len(pages) < Len(document[u])
    IN \A i, j \in {k \in Number(pages) : pages[k] # NoText} : i <= j =>
         \A start \in starts[i] .. starts[i] + PageLength - 1,
            end \in starts[j] + 1 .. starts[j] + PageLength :
           start < end =>
             LET cited == PagesFor(pages, start, end)
             IN IF shifted THEN cited[1] <= pages[i] /\ cited[2] <= pages[j]
                ELSE cited = <<pages[i], pages[j]>>

(* Recognition never costs the text the document had of its own, be it     *)
(* merged now or cached by an earlier build of this or of another upload.  *)
NativeTextIsKept ==
  \A u \in Uploads : build[u].pc = "done" =>
    \A i \in 1 .. reading[u].extracted :
      document[u][i] = "text" => i \in Number(build[u].pages) /\ build[u].pages[i] = i

(* A build pays for an answer of the provider only, whatever it makes of   *)
(* the cache, and for no more of it than it had a permit for.              *)
ChargedWithinPermits ==
  \A u \in Uploads :
    build[u].charged <= IF build[u].answered THEN PagesNeeded(u) ELSE 0

(* Nothing that was recognised outlives its source, even when the source   *)
(* goes while its build is under way.                                      *)
DeletedTextIsGone == \A row \in cache : row.owner \in live

\* What extraction keeps at every step: no page loses text the document itself had, no more
\* is charged than the permit holds, and a deleted source leaves no text in the cache.
PdfInv == PdfTypeOK /\ NativeTextIsKept /\ ChargedWithinPermits /\ DeletedTextIsGone

=============================================================================
