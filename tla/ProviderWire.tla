----------------------------- MODULE ProviderWire -----------------------------
(***************************************************************************)
(* A turn's request on its way to a provider and back: the router          *)
(* (clients/llm_router.rs) and the model it settles on, the body each      *)
(* client sends, the answer's status, and the bytes of the stream, cut     *)
(* anywhere, that SseFrameBuffer and process_chunk turn into an answer.    *)
(*                                                                         *)
(* A byte of the stream is a symbol: the prefix "data", a payload, an end  *)
(* of line.  Retries and the breaker are ResilientCall's; what happens to  *)
(* the answer is ChatTurn's.                                               *)
(***************************************************************************)
EXTENDS Integers, SequencesExt, Places

CONSTANTS
  Providers,          \* in the order of PROVIDER_PRIORITY
  Catalog,            \* provider -> its models with a declared window, its default first
  FallbackModel,      \* map_model_for_fallback
  Native,             \* providers that cite natively
  Scripts,            \* provider -> the streams of frames it may send
  Documents,          \* documents the turn may pass
  MaxResponse         \* MAX_RESPONSE_SIZE, in deltas and in symbols of a line

Named == ToSet(Providers)
Nobody == "nobody"
Models == (UNION {ToSet(Catalog[p]) : p \in Named}) \cup {"unlisted"}

\* What a provider may send: payloads of data lines, and lines of other kinds.
Frames ==
  {"text", "text_finish", "finish", "done", "error", "doc1", "doc2", "noise",
   "comment", "flood", "cut"}

ASSUME WireAssumption ==
  /\ Providers \in Seq(Named) /\ Nobody \notin Named /\ Native \subseteq Named
  /\ MaxResponse \in Nat \ {0} /\ Documents \subseteq Nat
  /\ \A p \in Named :
       /\ Catalog[p] \in Seq(Models) \ {<<>>} /\ FallbackModel[p] \in Models
       /\ Scripts[p] \subseteq Seq(Frames)

VARIABLES
  configured, up,     \* providers with a key; those whose breaker is not open
  wanted,             \* the provider and model the request names, or Nobody
  chosen,             \* ProviderSelection, with the model_id that is authorized and priced
  exchange,           \* where the exchange is
  body,               \* the request that was sent
  wire, unread,       \* the bytes of the stream; where the next read starts
  pending,            \* SseFrameBuffer
  reply               \* what the turn has of the answer

wireVars == <<configured, up, wanted, chosen, exchange, body, wire, unread, pending, reply>>

Unset == [provider |-> Nobody, override |-> Nobody, id |-> Nobody]
Unsent == [provider |-> Nobody, model |-> Nobody, messages |-> <<>>]
NoReply == [text |-> <<>>, numbers |-> <<>>, cites |-> <<>>, how |-> "open"]

WireInit ==
  /\ configured \in SUBSET Named /\ up = configured
  /\ wanted \in [provider : Named \cup {Nobody}, model : Models \cup {Nobody}]
  /\ chosen = Unset /\ exchange = "routing" /\ body = Unsent
  /\ wire = <<>> /\ unread = 1 /\ pending = <<>> /\ reply = NoReply

-----------------------------------------------------------------------------
(* LlmRouter *)
BreakerTurns ==
  /\ exchange = "routing"
  /\ \E p \in configured : up' = (up \ {p}) \cup ({p} \ up)
  /\ UNCHANGED <<configured, wanted, chosen, exchange, body, wire, unread, pending, reply>>

\* The first of them in the order of priority.
First(ps) ==
  Providers[CHOOSE i \in DOMAIN Providers :
              Providers[i] \in ps /\ \A j \in 1 .. i - 1 : Providers[j] \notin ps]

DefaultProvider == IF configured = {} THEN Nobody ELSE First(configured)
Asked == IF wanted.provider = Nobody THEN DefaultProvider ELSE wanted.provider

Choose(p, override) ==
  /\ chosen' = [provider |-> p, override |-> override,
                id |-> IF override # Nobody THEN override
                       ELSE IF wanted.model # Nobody THEN wanted.model ELSE Catalog[p][1]]
  /\ exchange' = "selected"

Refuse(why) == exchange' = why /\ UNCHANGED chosen

GetProvider ==
  /\ exchange = "routing"
  /\ CASE Asked \notin configured -> Refuse("not_configured")
       [] Asked \in up -> Choose(Asked, Nobody)
       [] Asked \in configured \ up /\ up # {} -> Choose(First(up), FallbackModel[First(up)])
       [] OTHER -> Refuse("throttled")
  /\ UNCHANGED <<configured, up, wanted, body, wire, unread, pending, reply>>

\* for_model: a model without a declared window is not sent.
Measured == chosen.id \in ToSet(Catalog[chosen.provider])

DropUnmeasured ==
  /\ exchange = "selected" /\ ~Measured
  /\ Refuse("unmeasurable")
  /\ UNCHANGED <<configured, up, wanted, body, wire, unread, pending, reply>>

-----------------------------------------------------------------------------
(* stream_chat *)
Histories == {<<>>, <<"assistant", "system">>}
Past(history) == [i \in DOMAIN history |-> [role |-> history[i], documents |-> 0]]
Question == [role |-> "user", documents |-> 0]

\* Anthropic takes the prompt apart from the messages, and documents with the last of them.
Assembled(p, messages, docs) ==
  IF p \in Native
  THEN LET said == Picked(messages, {i \in DOMAIN messages : messages[i].role # "system"})
       IN  IF docs = 0 THEN said
           ELSE Append(Front(said), [role |-> "user", documents |-> docs])
  ELSE <<[role |-> "system", documents |-> 0]>> \o messages

\* Mutant: the model the caller named is sent to the provider that stands in.
ModelNamed == IF wanted.model # Nobody THEN wanted.model ELSE Catalog[chosen.provider][1]

\* model_for_stream, or the client's default.
ModelForStream ==
  IF chosen.override # Nobody THEN chosen.override
  ELSE IF wanted.model # Nobody THEN wanted.model ELSE Catalog[chosen.provider][1]

StreamChat ==
  /\ exchange = "selected" /\ Measured
  /\ \E h \in Histories, docs \in IF chosen.provider \in Native THEN Documents ELSE {0} :
       body' = [provider |-> chosen.provider, model |-> ModelForStream,
                messages |-> Assembled(chosen.provider, Append(Past(h), Question), docs)]
  /\ exchange' = "sent"
  /\ UNCHANGED <<configured, up, wanted, chosen, wire, unread, pending, reply>>

\* A status after the last attempt.
AnswerRefused ==
  /\ exchange = "sent"
  /\ \E why \in {"throttled", "failed"} : Refuse(why)
  /\ UNCHANGED <<configured, up, wanted, body, wire, unread, pending, reply>>

\* A frame on the wire, and what ends a stream whose last frame was cut.
Bytes(frame) ==
  CASE frame = "comment" -> <<"event", "nl", "nl">>
    [] frame = "flood" -> [i \in 1 .. MaxResponse + 1 |-> "data"]
    [] frame = "cut" -> <<"data", "text">>
    [] OTHER -> <<"data", frame, "cr", "nl">>

Encoded(script) == FlattenSeq([i \in DOMAIN script |-> Bytes(script[i])])

HeadersArrive ==
  /\ exchange = "sent"
  /\ \E script \in Scripts[body.provider] : wire' = Encoded(script)
  /\ exchange' = "streaming"
  /\ UNCHANGED <<configured, up, wanted, chosen, body, unread, pending, reply>>

-----------------------------------------------------------------------------
(* SseFrameBuffer::push *)
Ends(bytes) == {i \in DOMAIN bytes : bytes[i] = "nl"}

\* Where the line starts that goes up to i.
Opens(bytes, i) ==
  CHOOSE k \in 1 .. i : /\ k = 1 \/ bytes[k - 1] = "nl"
                        /\ \A j \in k .. i - 1 : bytes[j] # "nl"

Line(bytes, i) ==
  LET line == SubSeq(bytes, Opens(bytes, i), i - 1)
  IN  IF line # <<>> /\ line[Len(line)] = "cr" THEN SubSeq(line, 1, Len(line) - 1) ELSE line

\* The lines that have the prefix, by their ends, and their payloads.
DataLines(bytes) ==
  {i \in Ends(bytes) : Line(bytes, i) # <<>> /\ Line(bytes, i)[1] = "data"}

Payload(line) == IF Len(line) = 2 THEN line[2] ELSE "noise"

Data(bytes) ==
  LET ends == DataLines(bytes)
  IN  [n \in 1 .. Cardinality(ends) |-> Payload(Line(bytes, Ascending(ends)[n]))]

\* Mutant: every read is parsed for itself.
RestForgotten(bytes) == <<>>

Rest(bytes) == SubSeq(bytes, Opens(bytes, Len(bytes) + 1), Len(bytes))

\* Refused before a line is cut only when there is none; afterwards, by what is left.
Overlong(bytes) == Len(Rest(bytes)) > MaxResponse

-----------------------------------------------------------------------------
(* parse_sse_data and process_chunk *)
\* Mutant: a chunk that says why it is the last says nothing else.
FinishFirst(p, payload) ==
  CASE payload \in {"done", "finish", "text_finish"} -> "done"
    [] payload = "text" -> "text"
    [] payload = "error" /\ p \in Native -> "error"
    [] payload \in {"doc1", "doc2"} /\ p \in Native -> payload
    [] OTHER -> "none"

\* An OpenAI chunk whose content comes with a finish reason is its content; [DONE] follows.
Parsed(p, payload) ==
  CASE payload \in {"done", "finish"} -> "done"
    [] payload \in {"text", "text_finish"} -> "text"
    [] payload = "error" /\ p \in Native -> "error"
    [] payload \in {"doc1", "doc2"} /\ p \in Native -> payload
    [] OTHER -> "none"

HasRoom(r) == Len(r.text) < MaxResponse
Over(r, how) == [r EXCEPT !.how = how]

\* A document gets its number when it is first cited; the marker is part of the text.
Cited(r, doc) ==
  LET numbers == IF Contains(r.numbers, doc) THEN r.numbers ELSE Append(r.numbers, doc)
      number == CHOOSE n \in DOMAIN numbers : numbers[n] = doc
  IN  IF HasRoom(r)
      THEN [r EXCEPT !.numbers = numbers, !.text = Append(@, number),
                     !.cites = Append(@, [doc |-> doc, at |-> Len(r.text) + 1])]
      ELSE Over([r EXCEPT !.numbers = numbers], "truncated")

Told(request, r, event) ==
  CASE r.how # "open" \/ event = "none" -> r
    [] event = "text" /\ r.how = "open" ->
         IF HasRoom(r) THEN [r EXCEPT !.text = Append(@, 0)] ELSE Over(r, "truncated")
    [] event \in {"doc1", "doc2"} /\ r.how = "open" ->
         IF request.messages[Len(request.messages)].documents > 0 THEN Cited(r, event) ELSE r
    [] OTHER -> Over(r, event)

Processed(request, r, payloads) ==
  LET after[n \in 0 .. Len(payloads)] ==
        IF n = 0 THEN r
        ELSE Told(request, after[n - 1], Parsed(request.provider, payloads[n]))
  IN  after[Len(payloads)]

\* Bound on the sizes of a read: single bytes, a few, or all that is left.
Sizes == {1, 2, 3, Len(wire) - unread + 1}

ProcessChunk ==
  /\ exchange = "streaming" /\ reply.how = "open"
  /\ \E n \in Sizes :
       /\ n > 0 /\ unread + n - 1 <= Len(wire)
       /\ LET bytes == pending \o SubSeq(wire, unread, unread + n - 1)
          IN  /\ pending' = Rest(bytes)
              /\ reply' = IF Overlong(bytes) THEN Over(reply, "error")
                         ELSE Processed(body, reply, Data(bytes))
       /\ unread' = unread + n
  /\ UNCHANGED <<configured, up, wanted, chosen, exchange, body, wire>>

Ended(how) ==
  /\ exchange = "streaming"
  /\ exchange' = how
  /\ UNCHANGED <<configured, up, wanted, chosen, body, wire, unread, pending, reply>>

AnswerDone == reply.how = "done" /\ Ended("answered")
AnswerTruncated == reply.how = "truncated" /\ Ended("truncated")
AnswerBreaks == reply.how \in {"open", "error"} /\ Ended("failed")

\* A stream that closes without its end marker is an answer all the same.
ConnectionCloses == reply.how = "open" /\ unread > Len(wire) /\ Ended("answered")

WireNext ==
  \/ BreakerTurns \/ GetProvider \/ DropUnmeasured \/ StreamChat \/ AnswerRefused
  \/ HeadersArrive \/ ProcessChunk \/ AnswerDone \/ AnswerTruncated \/ AnswerBreaks \/ ConnectionCloses

WireSpec == WireInit /\ [][WireNext]_wireVars

-----------------------------------------------------------------------------
WireTypeOK ==
  /\ configured \subseteq Named /\ up \subseteq configured
  /\ chosen.provider \in Named \cup {Nobody} /\ chosen.id \in Models \cup {Nobody}
  /\ reply.how \in {"open", "done", "truncated", "error"} /\ unread \in 1 .. Len(wire) + 1

\* What is authorized and priced is what is sent, and no provider, least of all one that
\* stands in for another, is sent a model it does not have.
PricedModelIsSent ==
  body.provider # Nobody
    => /\ body.provider = chosen.provider /\ body.model = chosen.id
       /\ body.model \in ToSet(Catalog[body.provider])

\* However the request is put together, the question is its last message, once, and
\* the documents are with it.
QuestionComesLast ==
  body.provider # Nobody
    => LET last == Len(body.messages)
       IN  /\ body.messages[last].role = "user"
           /\ \A i \in 1 .. last - 1 : body.messages[i].role # "user" /\ body.messages[i].documents = 0

\* The answer does not depend on where the network cut its bytes: it is what the lines
\* that have arrived say when they are read at once, up to the first that ends it.
CutsDoNotShow ==
  (exchange \in {"streaming", "answered", "truncated"} /\ reply.how # "error")
    => reply = Processed(body, NoReply, Data(SubSeq(wire, 1, unread - 1)))

\* An answer that is taken as complete has every word the provider sent before it ended,
\* also those that came with the reason to stop.
CompleteIsWhole ==
  exchange = "answered" =>
    LET data == Data(SubSeq(wire, 1, unread - 1))
    IN  Cardinality({i \in DOMAIN reply.text : reply.text[i] = 0})
          = Cardinality({i \in DOMAIN data :
              /\ data[i] \in {"text", "text_finish"}
              /\ \A j \in 1 .. i - 1 : data[j] \notin {"done", "finish"}})

\* Numbers name documents: the same number the same document, and a marker stands where
\* its citation says.
NumbersNameDocuments ==
  /\ IsInjective(reply.numbers)
  /\ \A i \in DOMAIN reply.cites :
       LET c == reply.cites[i]
       IN  reply.text[c.at] \in DOMAIN reply.numbers /\ reply.numbers[reply.text[c.at]] = c.doc

\* From the provider a request names to the words of its answer nothing is mixed up or lost.
WireInv ==
  /\ WireTypeOK /\ QuestionComesLast
  /\ CutsDoNotShow /\ CompleteIsWhole /\ NumbersNameDocuments
=============================================================================
