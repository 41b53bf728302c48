---------------------------- MODULE QueryVectors ----------------------------
(***************************************************************************)
(* How a question becomes the vector it is searched with: embed_query of   *)
(* the search service and get_query_embedding of the working memory, both  *)
(* over the one embedding cache of the server.  Under HyDE the search      *)
(* embeds a document generated for a short question instead of the         *)
(* question, and keeps the result under the question.                      *)
(*                                                                         *)
(* One process: its provider, and with it the fingerprint in every key,    *)
(* never changes, and the cache dies with it.                              *)
(***************************************************************************)
EXTENDS Naturals, FiniteSets

CONSTANTS
  Lookups,         \* calls in flight
  Questions       \* query texts; a reformulation may equal another's question

VARIABLES
  hyde,           \* whether a HyDE service is configured
  short,          \* the questions below its activation threshold
  cache,          \* the entries of EmbeddingCache
  lookup             \* Lookups -> the call

queryVars == <<hyde, short, cache, lookup>>

(* QueryEmbeddingKind.                                                     *)
SearchKinds == {"direct", "reformulated"}
Kinds == SearchKinds \cup {"hyde", "memory"}

(* What is embedded: the text itself, or a document generated for it.      *)
Itself(q) == <<"text", q>>
Document(q) == <<"document", q>>

NoLookup == [step |-> "idle", kind |-> "direct", text |-> "none", vec |-> <<>>, keep |-> "direct"]

-----------------------------------------------------------------------------
(* A slip: the text alone is the key.                                      *)
FoundByText(kind, q) == {e \in cache : e.text = q}

(* cache_key(kind, fingerprint, text).                                     *)
Found(kind, q) == {e \in cache : e.kind = kind /\ e.text = q}

(* The namespaces a call may answer from: the search asks HyDE's first.    *)
FirstHit(kind, q) ==
  IF kind \in SearchKinds /\ hyde /\ Found("hyde", q) # {}
  THEN Found("hyde", q) ELSE Found(kind, q)

(* An insertion replaces the entry of its key.                             *)
Insert(kind, q, vec) ==
  cache' = (cache \ {e \in cache : e.kind = kind /\ e.text = q})
             \cup {[kind |-> kind, text |-> q, vec |-> vec]}

Look(a, kind, q) ==
  /\ lookup[a].step = "idle"
  /\ \/ \E e \in FirstHit(kind, q) :
          lookup' = [lookup EXCEPT ![a] = [step |-> "answered", kind |-> kind, text |-> q,
                                     vec |-> e.vec, keep |-> e.kind]]
     \/ /\ FirstHit(kind, q) = {}
        /\ lookup' = [lookup EXCEPT ![a] =
             [step |-> IF kind \in SearchKinds /\ hyde /\ q \in short
                       THEN "generating" ELSE "embedding",
              kind |-> kind, text |-> q, vec |-> Itself(q), keep |-> kind]]
  /\ UNCHANGED <<hyde, short, cache>>

(* HydeService::generate: its failure is the plain question's turn.        *)
Generate(a) ==
  /\ lookup[a].step = "generating"
  /\ \/ lookup' = [lookup EXCEPT ![a].step = "embedding",
                           ![a].vec = Document(lookup[a].text), ![a].keep = "hyde"]
     \/ lookup' = [lookup EXCEPT ![a].step = "embedding"]
  /\ UNCHANGED <<hyde, short, cache>>

Embed(a) ==
  /\ lookup[a].step = "embedding"
  /\ \/ /\ Insert(lookup[a].keep, lookup[a].text, lookup[a].vec)
        /\ lookup' = [lookup EXCEPT ![a].step = "answered"]
     \/ /\ lookup' = [lookup EXCEPT ![a].step = "failed", ![a].vec = <<>>]
        /\ UNCHANGED cache
  /\ UNCHANGED <<hyde, short>>

Finish(a) ==
  /\ lookup[a].step \in {"answered", "failed"}
  /\ lookup' = [lookup EXCEPT ![a] = NoLookup]
  /\ UNCHANGED <<hyde, short, cache>>

(* Time to live and capacity.                                              *)
Evict ==
  /\ \E e \in cache : cache' = cache \ {e}
  /\ UNCHANGED <<hyde, short, lookup>>

QueryInit ==
  /\ hyde \in BOOLEAN
  /\ short \in SUBSET Questions
  /\ cache = {}
  /\ lookup = [a \in Lookups |-> NoLookup]

QueryNext ==
  \/ \E a \in Lookups, kind \in SearchKinds \cup {"memory"}, q \in Questions : Look(a, kind, q)
  \/ \E a \in Lookups : Generate(a) \/ Embed(a) \/ Finish(a)
  \/ Evict

QuerySpec == QueryInit /\ [][QueryNext]_queryVars

-----------------------------------------------------------------------------
(* Properties. *)

(* A call is answered for its own text whatever other calls put into the   *)
(* cache meanwhile; the memory is never searched with a generated          *)
(* document, and a search only with one generated for a short question.    *)
AnswersItsQuestion ==
  \A a \in Lookups : lookup[a].step = "answered" =>
    \/ lookup[a].vec = Itself(lookup[a].text)
    \/ /\ lookup[a].vec = Document(lookup[a].text)
       /\ lookup[a].kind \in SearchKinds
       /\ hyde /\ lookup[a].text \in short

(* One entry per key, and only the HyDE namespace holds documents.         *)
CacheIsNamed ==
  /\ \A e, f \in cache : e.kind = f.kind /\ e.text = f.text => e = f
  /\ \A e \in cache : e.kind = "hyde" <=> e.vec = Document(e.text)

QueryInv == AnswersItsQuestion /\ CacheIsNamed
=============================================================================
