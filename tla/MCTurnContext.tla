--------------------------- MODULE MCTurnContext ---------------------------
(* What a turn puts together before it asks the model, what it cites of it, *)
(* the memories that turns leave behind, the conversation they are kept in, *)
(* and the evaluation that measures all this before a release.  They share  *)
(* no variable: a behaviour runs one of them, by focus.                     *)
EXTENDS TurnContext, Citations, NotebookMemory, Conversation, EvalGate

CONSTANT Focuses
VARIABLE focus

mcVars == <<contextVars, citeVars, memoryVars, conversationVars, evalVars, focus>>

\* Four passages, one of them with two children; the widest is as large as its cap.
MCReading == <<"a1", "a2", "b", "c", "d">>
MCCorpora == {{}, {"a1", "a2", "d"}, {"a1", "a2", "b", "c"}, {"a1", "b", "c", "d"}}
MCParentOf == [a1 |-> "a", a2 |-> "a", b |-> "b", c |-> "c", d |-> "d"]
MCSizeOf == [a1 |-> [whole |-> 6, child |-> 2], a2 |-> [whole |-> 6, child |-> 1],
             b |-> [whole |-> 13, child |-> 0], c |-> [whole |-> 5, child |-> 3],
             d |-> [whole |-> 8, child |-> 4]]
MCContexts == {MCSizeOf[k] : k \in DOMAIN MCSizeOf}

\* A history that just fills the window or not, a memory that is kept or not, much
\* room for evidence, little of it, and a question that is too long.
Asks(n, q, m, h) == [native |-> n, instructions |-> 10, question |-> q, memory |-> m, history |-> h]
MCTurns == {Asks(FALSE, 5, 8, [i \in 1 .. 10 |-> 4]), Asks(TRUE, 10, 10, <<1, 3, 30, 2>>),
            Asks(FALSE, 40, 12, <<3, 1>>), Asks(FALSE, 80, 0, <<>>)}

\* A source retrieved across a publication, two sources, and a passage without its span.
Passage(s, g, o, w, n) ==
  [source |-> s, gen |-> g, index |-> 0, owned |-> o, words |-> w, numbers |-> n]
MCPassages == {<<Passage("s1", 1, TRUE, {"a", "b"}, {7}), Passage("s1", 2, TRUE, {"a", "b", "no"}, {1})>>,
               <<Passage("s1", 1, TRUE, {"a", "b"}, {}), Passage("s2", 1, TRUE, {"a", "no"}, {})>>,
               <<Passage("s1", 1, FALSE, {"a"}, {}), Passage("s2", 2, TRUE, {"a"}, {})>>}
MCQuotes == {[words |-> {"a", "b"}, numbers |-> n] : n \in {{}, {1}}}

W(w) == <<"word", w>>
MCDeltas == {<<W("a"), W("b")>>, <<W("a"), W("b"), <<"mark", 1>>>>, <<W("a"), W("no"), <<"mark", 2>>>>,
             <<Stop>>, <<Tick>>, <<Newline, Tick, Tick, Tick, Newline>>}

(* Two notebooks; the first has a source of two sibling chunks and one more. *)
Note(id) == [id |-> id, secret |-> FALSE]
Src(id, n) == [id |-> id, notebook |-> n, typed |-> TRUE, secret |-> FALSE]
Part(id, s, i, f, n, g) == [id |-> id, source |-> s, index |-> i, from |-> f, to |-> f + n, len |-> n,
                            group |-> g, blank |-> FALSE, secret |-> FALSE]
Expect(id, by) == [id |-> id, markers |-> {id}, by |-> by]
Case(id, k, sp, ks, ss, cs) ==
  [id |-> id, notebook |-> "n1", category |-> k, split |-> sp, answerable |-> ks # <<>>, complete |-> TRUE,
   blank |-> FALSE, secret |-> FALSE, chunks |-> ks, sources |-> ss, claims |-> cs, forbidden |-> {"t"}]
Good ==
  [manifest |-> [version |-> 1, changelog |-> {1}, total |-> 4, each |-> 1],
   notebooks |-> <<Note("n1"), Note("n2")>>,
   sources |-> <<Src("s", "n1"), Src("r", "n1"), Src("t", "n2")>>,
   chunks |-> <<Part("a", "s", 0, 0, 5, "g"), Part("b", "s", 1, 7, 3, "g"),
                Part("d", "r", 0, 0, 4, NoGroup), Part("x", "t", 0, 0, 4, NoGroup)>>,
   queries |-> <<Case("q1", "multi_hop", "train", <<"a", "b">>, <<"s">>, <<Expect("c1", {"a"}), Expect("c2", {"b"})>>),
                 Case("q2", "unanswerable", "train", <<>>, <<>>, <<>>),
                 Case("q3", "paraphrase", "holdout", <<"d">>, <<"r">>, <<Expect("c3", {"d"})>>),
                 Case("q4", "conflicting", "holdout", <<"a", "d">>, <<"s", "r">>, <<Expect("c1", {"a"})>>)>>]

(* One thing wrong with it each.                                            *)
Spoilt ==
  <<[Good EXCEPT !.manifest.version = 2], [Good EXCEPT !.manifest.total = 5], [Good EXCEPT !.manifest.each = 2],
   [Good EXCEPT !.notebooks[2].id = "n1"], [Good EXCEPT !.sources[2].id = "s"], [Good EXCEPT !.chunks[4].id = "a"],
   [Good EXCEPT !.sources[1].typed = FALSE], [Good EXCEPT !.chunks[2].index = 0],
   [Good EXCEPT !.chunks[2].from = 6], [Good EXCEPT !.chunks[2].to = 7], [Good EXCEPT !.chunks[3].blank = TRUE],
   [Good EXCEPT !.chunks[1].group = ""], [Good EXCEPT !.chunks[4].secret = TRUE]>>

Mislabelled ==
  LET g == Good.queries[1] IN
  <<[g EXCEPT !.complete = FALSE], [g EXCEPT !.id = "q2"], [g EXCEPT !.blank = TRUE], [g EXCEPT !.notebook = "n2"],
    [g EXCEPT !.notebook = "n3"], [g EXCEPT !.chunks = <<"a">>], [g EXCEPT !.chunks = <<"a", "x">>],
    [g EXCEPT !.chunks = <<>>], [g EXCEPT !.sources = <<>>], [g EXCEPT !.sources = <<"s", "u">>],
    [g EXCEPT !.forbidden = {"r"}], [g EXCEPT !.forbidden = {"s"}], [g EXCEPT !.forbidden = {"u"}],
    [g EXCEPT !.claims = <<>>], [g EXCEPT !.claims[2].id = "c1"], [g EXCEPT !.claims[1].markers = {}],
    [g EXCEPT !.claims[1].by = {}], [g EXCEPT !.claims[1].by = {"d"}], [g EXCEPT !.answerable = FALSE],
    [g EXCEPT !.category = "unanswerable"], [g EXCEPT !.category = "conflicting"], [g EXCEPT !.split = "holdout"]>>

MCFixtures ==
  <<Good>> \o Spoilt \o [k \in DOMAIN Mislabelled |-> [Good EXCEPT !.queries[1] = Mislabelled[k]]]
MCFound == {<<>>, <<"a">>, <<"a", "b">>, <<"b", "d">>, <<"x", "a">>}
Says(m) == <<"says", m>>
Cites(k) == <<"cites", k>>
MCWritten ==
  {<<<<"fallback">>>>, <<Says("c1")>>, <<Says("c1"), Cites(1)>>, <<Says("c1"), Cites(1), <<"mark">>, Cites(2)>>,
   <<Says("c1"), Cites(1), Says("c2"), Cites(2)>>,
   <<Says("c1"), Cites(3), Cites(1)>>}
Took(q, k, cur, t) == [query |-> q, kind |-> k, current |-> cur, sufficient |-> TRUE, text |-> t]
MCRecorded == {Took("q9", "answered", TRUE, <<Cites("x")>>), Took("q1", "answered", FALSE, <<Says("c1"), Cites("a")>>),
               Took("q2", "error", TRUE, <<>>), Took("q1", "answered", TRUE, <<Says("c1"), <<"misquotes", "a">>>>),
               Took("q3", "answered", TRUE, <<Says("c3"), Cites("x"), Cites("y"), <<"fallback">>>>),
               Took("q3", "answered", TRUE, <<Says("c3"), Cites("d"), Cites("x")>>)}

(* Approved before: nothing reached, everything reached, another corpus     *)
(* version, and a document without one of its metrics.                      *)
Reached(v) == [queries |-> 1, judged |-> 1, recall |-> v, ndcg |-> v, breaches |-> 0]
Grounded(v) == [cases |-> 1, precision |-> v, coverage |-> v, abstention |-> v, leaked |-> 0]
Document(version, v, ks) ==
  [header |-> [corpus |-> version, split |-> "train", limit |-> 2], absent |-> {},
   retrieval |-> [overall |-> Reached(v), by |-> [k \in ks |-> Reached(v)]],
   grounding |-> [overall |-> Grounded(v), by |-> [k \in ks |-> Grounded(v)]]]
MCApproved == {Document(1, 0, Categories), Document(1, 500, {"multi_hop"}), Document(2, 0, {}),
               [Document(1, 0, {}) EXCEPT !.absent = {"code_revision"}], Document(1, 0, {"retired"})}

\* Overlapping turns, a reader of the history, or what the owner and the clock do to it.
ConversationFocuses == {"sessions", "reader", "upkeep"}

MCInit ==
  /\ ContextInit /\ CiteInit /\ MemoryInit /\ ConversationInit /\ EvalInit
  /\ focus \in Focuses
  /\ focus # "citations" =>
       native /\ passages = (CHOOSE ps \in Passages : TRUE) /\ active = [s \in Cited |-> NoGen]
  /\ \A s \in Cited \ Named : active[s] = NoGen
  /\ focus # "context" =>
       turn = (CHOOSE t \in Turns : TRUE) /\ corpus = {} /\ ~embeddings /\ ~reformulator
  /\ focus \notin ConversationFocuses => messages = {}
  /\ focus # "evaluation" => revision = 1 /\ scoped

\* Bounds: rows created when it is the plan's limit or the decay that is looked at, and
\* no lost count with the former (decay has it); what the clock does to overlapping turns
\* once the history is cleared.
Rows(n) == nextId' <= n + 1

Alone ==
  /\ \A s \in Stores : store'[s].at = "idle"
  /\ \A x \in Extractions \ {CHOOSE y \in Extractions : TRUE} : extraction'[x].at = "idle"

MemoryPart ==
  \/ focus = "summaries" /\ ((\E s \in Stores : StoreStep(s)) \/ Erase \/ Restart)
  \/ focus = "limit" /\ ((\E x \in Extractions : ExtractionStep(x)) \/ Erase)
     /\ Rows(3) /\ ~quotaLost' /\ \A m \in memories' : m.salience = Full
  \/ focus = "fading" /\ MemoryNext /\ Alone /\ Rows(2)

OneTurn == TurnStepsOf(CHOOSE t \in ChatTurns : TRUE)

ConversationPart ==
  \/ focus = "sessions" /\ ((\E t \in ChatTurns : TurnStepsOf(t)) \/ ClearStep \/ MinutesPass)
     /\ (clears' > 0 => clock' <= 1)
  \/ focus = "reader" /\ (OneTurn \/ ClearStep \/ ReadStep)
  \/ focus = "upkeep"
     /\ (OneTurn \/ ClearStep \/ DeleteNotebook \/ RateAnswer \/ PurgeOldLogs \/ MinutesPass)

MCNext ==
  /\ UNCHANGED focus
  /\ \/ focus = "context" /\ ContextNext
        /\ UNCHANGED <<citeVars, memoryVars, conversationVars, evalVars>>
     \/ focus = "citations" /\ CiteNext
        /\ UNCHANGED <<contextVars, memoryVars, conversationVars, evalVars>>
     \/ MemoryPart /\ UNCHANGED <<contextVars, citeVars, conversationVars, evalVars>>
     \/ ConversationPart /\ UNCHANGED <<contextVars, citeVars, memoryVars, evalVars>>
     \/ focus = "evaluation" /\ EvalNext
        /\ UNCHANGED <<contextVars, citeVars, memoryVars, conversationVars>>

MCSpec == MCInit /\ [][MCNext]_mcVars
=============================================================================
