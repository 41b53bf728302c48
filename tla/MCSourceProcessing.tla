------------------------ MODULE MCSourceProcessing -------------------------
(* Builds of a source as the database sees them, and the text they read    *)
(* from PDFs: two components that share nothing, each explored with the    *)
(* other at rest.                                                          *)
EXTENDS SourceProcessing, PdfExtraction, TLC

VARIABLE focus

MCGens == 1 .. 2
MCPositions == {0, 1}

(* A page whose image must be read, and a document that starts blank.      *)
MCDocuments == {<<"text", "scan">>, <<"blank", "sparse", "scan">>}

WorkerSymmetry == Permutations(Workers)

(* Uploads of different documents do not meet in the cache: only one       *)
(* document uploaded twice is of interest.                                 *)
SameDocument == \A u, v \in Uploads : document[u] = document[v]

PdfAtRest ==
  /\ document = [u \in Uploads |-> <<"text", "scan">>]
  /\ reading = [u \in Uploads |-> [extracted |-> 2, counted |-> TRUE, fails |-> FALSE]]
  /\ model = CHOOSE m \in OcrModels : TRUE

MCInit ==
  /\ focus \in {"processing", "pdf"}
  /\ ProcInit /\ PdfInit
  /\ SameDocument
  /\ focus # "pdf" => PdfAtRest

MCNext ==
  \/ focus = "processing" /\ ProcNext /\ UNCHANGED <<focus, pdfVars>>
  \/ focus = "pdf" /\ PdfNext /\ UNCHANGED <<focus, procVars>>

MCSpec == MCInit /\ [][MCNext]_<<focus, procVars, pdfVars>>
=============================================================================
