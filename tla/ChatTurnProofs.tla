--------------------------- MODULE ChatTurnProofs ---------------------------
(***************************************************************************)
(* Proofs about a chat exchange, for any channel of at least five events,  *)
(* any size limit and any provider: the events on the channel are those of *)
(* the protocol (ChatTurn refines ChatProtocol), a success the client was  *)
(* told of is in the history, and streamed text is not lost silently.      *)
(* And about its citations: what is leased is what is read and in service; *)
(* about its evidence: what a request carries, from retrieval through      *)
(* correction and the budget; and about the evaluation that measures all   *)
(* of it: what a score, a baseline and a release say is so.                *)
(***************************************************************************)
EXTENDS ChatTurn, Citations, TurnContext, EvalGate, PlacesProofs, SequenceTheorems,
        FiniteSetTheorems, TLAPS

Kinds == {"thinking", "chunk", "citation", "citations", "metrics", "suggestions"}

Events == Kinds \cup Terminal

FreePlaces == {"free", "freeCitations", "freeMetrics", "freeSave"}

Streaming == {"init", "loop", "events", "sending", "telling"}

Completing ==
  {"finish", "resolve", "persist", "citation", "enqueue", "commit", "citations",
   "metrics", "suggest", "done"}

StreamPlaces == Streaming \cup Completing \cup Markers \cup {"tooLong", "failing"}

(* The types TurnTypeOK leaves open.                                       *)
Typed ==
  /\ TurnTypeOK
  /\ at \in {"prepare", "ready"} \cup FreePlaces \cup StreamPlaces \cup Over
  /\ sent \in Seq(Events)
  /\ bytes \in Seq({"text", "marker", "done", "error"})

TerminalIsLast == \A i \in DOMAIN sent : sent[i] \in Terminal => i = Len(sent)

DoneSent == \E i \in DOMAIN sent : sent[i] = "done"

(* Where nothing but progress and text has been sent.                      *)
TextPlaces ==
  {"init", "loop", "events", "sending", "telling", "finish", "resolve", "persist", "citation",
   "citations", "freeCitations", "interrupted", "truncated", "tooLong"}

(* How far the events have come where the task stands: the refinement's    *)
(* invariant.  A metrics event is missing only when nobody listens.        *)
PhasesOK ==
  /\ at = "prepare" => sent = <<>> /\ read = 0
  /\ at \in {"ready", "free"} => Protocol!Reached <= 1
  /\ at \in TextPlaces => Protocol!Reached <= 2
  /\ at = "enqueue" => Protocol!Reached <= 3
  /\ at \in {"commit", "metrics", "failing", "freeMetrics"} => Protocol!Reached <= 4
  /\ at \in {"suggest", "freeSave"} => Protocol!Reached <= 5
  /\ at = "done" => Protocol!Reached <= 6
  /\ at \in {"suggest", "done", "freeSave"} /\ ~closed => Protocol!Reached >= 5
  /\ DoneSent => at = "ended"

(* A turn without a provider sends at most five events, so none waits.     *)
FreeFits ==
  /\ at \in {"ready", "free"} => Len(sent) <= 1
  /\ at = "freeCitations" => Len(sent) <= 2
  /\ at = "freeMetrics" => Len(sent) <= 3
  /\ at = "freeSave" => Len(sent) <= 4

(* What is stored where the task stands.                                   *)
StoredOK ==
  /\ at \in {"prepare", "ready"} => len = 0 /\ stored = "none"
  /\ at = "ready" => outcome \in {"stream", "answer", "failed"}
  /\ at \in FreePlaces => outcome \in {"answer", "failed"} /\ len = 0
  /\ at \in FreePlaces \ {"free"} => outcome = "answer"
  /\ at \in StreamPlaces => outcome = "stream"
  /\ at \in {"citations", "metrics", "suggest", "done"} => stored = "complete"
  /\ at = "tooLong" => stored # "none"

TurnIInv ==
  /\ Typed /\ TerminalIsLast /\ PhasesOK /\ FreeFits
  /\ StoredOK /\ DoneIsStored /\ TextIsKept

-----------------------------------------------------------------------------
(* The channel.                                                            *)

(* The phases in numbers.                                                  *)
LEMMA PhaseOf ==
  /\ Protocol!Phase("thinking") = 1 /\ Protocol!Phase("chunk") = 2
  /\ Protocol!Phase("citation") = 3 /\ Protocol!Phase("citations") = 4
  /\ Protocol!Phase("metrics") = 5 /\ Protocol!Phase("suggestions") = 6
  /\ \A e \in Terminal : Protocol!Phase(e) = 7
<1> DEFINE P == Protocol!Phases
<1>1. /\ DOMAIN P = 1 .. 6
      /\ P[1] = "thinking" /\ P[2] = "chunk" /\ P[3] = "citation" /\ P[4] = "citations"
      /\ P[5] = "metrics" /\ P[6] = "suggestions"
  BY DEF Protocol!Phases
<1> HIDE DEF P
<1>2. ASSUME NEW k \in 1 .. 6 PROVE (CHOOSE i \in DOMAIN P : P[i] = P[k]) = k
  <2>1. k \in DOMAIN P /\ P[k] = P[k]
    BY <1>1
  <2>2. (CHOOSE i \in DOMAIN P : P[i] = P[k]) \in DOMAIN P
        /\ P[CHOOSE i \in DOMAIN P : P[i] = P[k]] = P[k]
    BY <2>1
  <2> QED BY <1>1, <2>2
<1>3. \A k \in 1 .. 6 : P[k] \notin Protocol!Terminal
  BY <1>1 DEF Protocol!Terminal
<1>4. \A k \in 1 .. 6 : Protocol!Phase(P[k]) = k
  BY <1>2, <1>3 DEF Protocol!Phase, P
<1>5. \A e \in Terminal : Protocol!Phase(e) = 7
  BY DEF Protocol!Phase, Terminal, Protocol!Terminal
<1> QED BY <1>1, <1>4, <1>5

LEMMA ReachedType ==
  ASSUME sent \in Seq(Events)
  PROVE  /\ Protocol!Reached \in 0 .. 7
         /\ TerminalIsLast => (Terminated <=> Protocol!Reached = 7)
         /\ Protocol!Reached = 0 <=> sent = <<>>
<1>1. CASE sent = <<>>
  BY <1>1 DEF Protocol!Reached, Terminated
<1>2. CASE sent # <<>>
  <2>1. Len(sent) \in DOMAIN sent /\ sent[Len(sent)] \in Events
    BY <1>2
  <2>2. Protocol!Reached = Protocol!Phase(sent[Len(sent)])
    BY <1>2 DEF Protocol!Reached
  <2>3. /\ Protocol!Phase(sent[Len(sent)]) \in 1 .. 7
        /\ Protocol!Phase(sent[Len(sent)]) = 7 <=> sent[Len(sent)] \in Terminal
    BY <2>1, PhaseOf DEF Events, Kinds, Terminal
  <2> QED BY <1>2, <2>1, <2>2, <2>3 DEF TerminalIsLast, Terminated
<1> QED BY <1>1, <1>2

(* An emit keeps the order: the event is appended when the channel and the *)
(* stream's own state admit it, and otherwise nothing happens.             *)
LEMMA PutKeepsOrder ==
  ASSUME sent \in Seq(Events), TerminalIsLast, NEW e \in Events, Put(e),
         \/ Protocol!Phase(e) > Protocol!Reached
         \/ e \in {"thinking", "chunk", "citation"} /\ Protocol!Phase(e) = Protocol!Reached
         \/ Protocol!Reached = 7,
         e = "done" => closed \/ Protocol!Reached >= 5
  PROVE  /\ sent' \in Seq(Events) /\ TerminalIsLast'
         /\ [Protocol!ProtocolNext]_sent
         /\ Protocol!Reached' \in {Protocol!Reached, Protocol!Phase(e)}
         /\ Len(sent') \in {Len(sent), Len(sent) + 1}
         /\ DoneSent' => DoneSent \/ e = "done"
         /\ ~Refused(e) => Protocol!Reached' = Protocol!Phase(e)
<1>1. CASE Refused(e)
  BY <1>1 DEF Put, TerminalIsLast, Protocol!Reached, DoneSent
<1>2. CASE ~Refused(e)
  <2>1. sent' = Append(sent, e) /\ ~Terminated /\ ~closed
    BY <1>2 DEF Put, Refused
  <2>2. /\ sent' \in Seq(Events) /\ Len(sent') = Len(sent) + 1
        /\ sent'[Len(sent')] = e /\ sent' # <<>>
        /\ DOMAIN sent = 1 .. Len(sent) /\ DOMAIN sent' = 1 .. Len(sent')
        /\ \A i \in DOMAIN sent : sent'[i] = sent[i]
    BY <2>1
  <2>3. Protocol!Reached' = Protocol!Phase(e)
    BY <2>2 DEF Protocol!Reached
  <2>4. TerminalIsLast'
    BY <2>1, <2>2 DEF TerminalIsLast, Terminated
  <2>5. DoneSent' => DoneSent \/ e = "done"
    BY <2>2 DEF DoneSent
  <2>6. Protocol!Reached # 7
    BY <2>1, ReachedType
  <2>7. Protocol!Reached \in 0 .. 7 /\ Protocol!Phase(e) \in 1 .. 7
    BY ReachedType, PhaseOf DEF Events, Kinds
  <2>8. Protocol!MayFollow(e)
    BY <2>1, <2>6, <2>7 DEF Protocol!MayFollow
  <2>9. e \in {Protocol!Phases[i] : i \in DOMAIN Protocol!Phases} \cup Protocol!Terminal
    <3>1. CASE e \in Terminal
      BY <3>1 DEF Terminal, Protocol!Terminal
    <3>2. CASE e \in Kinds
      <4> DEFINE P == Protocol!Phases
      <4>1. /\ DOMAIN P = 1 .. 6
            /\ P[1] = "thinking" /\ P[2] = "chunk" /\ P[3] = "citation" /\ P[4] = "citations"
            /\ P[5] = "metrics" /\ P[6] = "suggestions"
        BY DEF Protocol!Phases
      <4> HIDE DEF P
      <4>2. \E i \in DOMAIN P : e = P[i]
        BY <3>2, <4>1 DEF Kinds
      <4> QED BY <4>2 DEF P
    <3> QED BY <3>1, <3>2 DEF Events
  <2>10. Protocol!ProtocolNext
    BY <2>1, <2>8, <2>9 DEF Protocol!ProtocolNext
  <2> QED BY <2>2, <2>3, <2>4, <2>5, <2>10
<1> QED BY <1>1, <1>2

LEMMA SentKept ==
  ASSUME UNCHANGED sent
  PROVE  /\ Protocol!Reached' = Protocol!Reached
         /\ DoneSent' <=> DoneSent
         /\ TerminalIsLast' <=> TerminalIsLast
BY DEF Protocol!Reached, DoneSent, TerminalIsLast

-----------------------------------------------------------------------------
(* The steps.                                                              *)

Keeps == TurnIInv' /\ [Protocol!ProtocolNext]_sent

(* The client, the server and the abort: none puts an event.               *)
LEMMA OutsideKeeps ==
  ASSUME TurnIInv, Leave \/ DropReceiver \/ Read \/ RequestShutdown \/ ForceAbort
  PROVE  Keeps
<1> USE DEF TurnIInv, Typed, TurnTypeOK, PhasesOK, FreeFits, StoredOK, DoneIsStored, TextIsKept,
            Keeps, control, clientSide, stream, answer
<1>0. UNCHANGED sent
  BY DEF Leave, DropReceiver, Read, RequestShutdown, ForceAbort
<1>1. /\ Protocol!Reached' = Protocol!Reached /\ (DoneSent' <=> DoneSent)
      /\ TerminalIsLast' /\ Len(sent) \in Nat
  BY <1>0, SentKept
<1>2. CASE Leave
  BY <1>0, <1>1, <1>2 DEF Leave
<1>3. CASE DropReceiver
  BY <1>0, <1>1, <1>3 DEF DropReceiver
<1>4. CASE Read
  BY <1>0, <1>1, <1>4, TurnAssumption DEF Read
<1>5. CASE RequestShutdown
  BY <1>0, <1>1, <1>5 DEF RequestShutdown
<1>6. CASE ForceAbort
  <2>1. DoneSent => FALSE
    BY <1>6 DEF ForceAbort, Over
  <2> QED BY <1>0, <1>1, <1>6, <2>1
          DEF ForceAbort, Over, StreamPlaces, FreePlaces, Streaming, Completing, Markers, DoneSent,
              TextPlaces
<1> QED BY <1>2, <1>3, <1>4, <1>5, <1>6

LEMMA DoneReads ==
  /\ DoneIsStored <=> (outcome = "stream" /\ DoneSent => stored = "complete")
  /\ DoneIsStored' <=> (outcome' = "stream" /\ DoneSent' => stored' = "complete")
BY DEF DoneIsStored, DoneSent

(* What an emit of the task comes to, once its place is known: at most one *)
(* event more, within the channel, in order.                               *)
LEMMA EmitEffect ==
  ASSUME TurnIInv, NEW e \in Events, Put(e) \/ TryPut(e), UNCHANGED read,
         \/ Protocol!Phase(e) > Protocol!Reached
         \/ e \in {"thinking", "chunk", "citation"} /\ Protocol!Phase(e) = Protocol!Reached,
         e = "done" => closed \/ Protocol!Reached >= 5,
         TryPut(e) \/ CanEmit(e) \/ Len(sent) <= 4,
         at # "ended"
  PROVE  /\ sent' \in Seq(Events) /\ TerminalIsLast' /\ [Protocol!ProtocolNext]_sent
         /\ Protocol!Reached' \in {Protocol!Reached, Protocol!Phase(e)}
         /\ Len(sent') \in {Len(sent), Len(sent) + 1}
         /\ read' \in 0 .. Len(sent') /\ Len(sent') - read' <= Capacity
         /\ DoneSent' => e = "done"
         /\ Put(e) /\ ~closed /\ e \notin {"chunk", "citation", "citations"}
              => Protocol!Reached' = Protocol!Phase(e)
<1> USE DEF TurnIInv, Typed, TurnTypeOK
<1>1. Len(sent) \in Nat /\ read \in 0 .. Len(sent) /\ Capacity \in Nat /\ Capacity >= 5
  BY TurnAssumption
<1>2. ~DoneSent
  BY DEF PhasesOK
<1>3. CASE UNCHANGED sent /\ TryPut(e) /\ ~Put(e)
  BY <1>1, <1>2, <1>3, SentKept
<1>4. CASE Put(e)
  <2>1. /\ sent' \in Seq(Events) /\ TerminalIsLast' /\ [Protocol!ProtocolNext]_sent
        /\ Protocol!Reached' \in {Protocol!Reached, Protocol!Phase(e)}
        /\ Len(sent') \in {Len(sent), Len(sent) + 1}
        /\ DoneSent' => DoneSent \/ e = "done"
        /\ ~Refused(e) => Protocol!Reached' = Protocol!Phase(e)
    BY <1>4, PutKeepsOrder
  <2>2. Refused(e) => sent' = sent
    BY <1>4 DEF Put
  <2>3. ~Refused(e) => Len(sent) <= 4 \/ Len(sent) - read < Capacity
    BY <1>1, <1>4 DEF CanEmit, Full, TryPut, Put
  <2>4. ~Terminated
    <3>1. Protocol!Reached # 7
      BY ReachedType, PhaseOf DEF Events, Kinds
    <3> QED BY <3>1, ReachedType
  <2>5. Refused(e) => closed \/ e \in {"chunk", "citation", "citations"}
    BY <2>4 DEF Refused
  <2> QED BY <1>1, <1>2, <2>1, <2>2, <2>3, <2>5
<1>5. TryPut(e) => Put(e) \/ UNCHANGED sent
  BY DEF TryPut, Put
<1> QED BY <1>3, <1>4, <1>5

(* A step that puts no event keeps the order if its place allows what has  *)
(* been sent.                                                              *)
Ordered == TerminalIsLast /\ PhasesOK /\ FreeFits /\ sent \in Seq(Events)

(* The facts about sent that the cases below start from.                   *)
LEMMA SentFacts ==
  ASSUME TurnIInv
  PROVE  /\ Len(sent) \in Nat /\ Protocol!Reached \in 0 .. 7
         /\ Capacity \in Nat /\ Capacity >= 5
         /\ at = "prepare" => Len(sent) = 0 /\ Protocol!Reached = 0
BY ReachedType, TurnAssumption DEF TurnIInv, Typed, PhasesOK

(* Where a step of the task leads and what it puts, as far as the order of *)
(* the events is concerned.                                                *)
QuietBefore ==
  \/ at = "prepare" /\ at' \in {"refused", "ready"}
  \/ at = "ready" /\ at' \in {"init", "free"}
  \/ at \in {"free", "freeSave"} /\ at' = "ended"

QuietStreaming ==
  \/ /\ at \in Streaming
     /\ at' \in {"init", "loop", "events", "sending", "telling", "interrupted", "ended", "failing",
                 "finish", "truncated"}
  \/ at \in Markers /\ at' = "ended"
  \/ at = "truncated" /\ at' = "tooLong"

QuietCompleting ==
  \/ at = "finish" /\ at' = "resolve"
  \/ at = "resolve" /\ at' = "persist"
  \/ at = "persist" /\ at' \in {"citation", "citations", "failing"}

QuietLeased ==
  \/ at = "citation" /\ at' = "enqueue"
  \/ at = "enqueue" /\ at' = "commit"
  \/ at = "commit" /\ at' \in {"metrics", "failing"}
  \/ at = "suggest" /\ at' = "done"

Quiet ==
  /\ UNCHANGED <<sent, read>> /\ (closed' <=> closed)
  /\ QuietBefore \/ QuietStreaming \/ QuietCompleting \/ QuietLeased

EmitsFree(e) ==
  \/ e = "thinking" /\ at = "prepare" /\ at' = "ready"
  \/ e = "shutdown" /\ at \in {"free", "freeSave"} /\ at' = "ended"
  \/ e = "chunk" /\ at = "free" /\ at' = "freeCitations"
  \/ e = "citations" /\ at = "freeCitations" /\ at' = "freeMetrics"
  \/ e = "metrics" /\ at = "freeMetrics" /\ at' = "freeSave"
  \/ e = "done" /\ at = "freeSave" /\ at' = "ended"
  \/ e = "error" /\ at = "free" /\ at' = "ended"

EmitsStreaming(e) ==
  \/ e = "shutdown" /\ at = "telling" /\ at' \in {"serverShutdown", "ended"}
  \/ e = "chunk" /\ at = "sending" /\ at' = "events"
  \/ e = "error" /\ at \in {"tooLong", "failing"} /\ at' = "ended"

EmitsCompleting(e) ==
  \/ e = "citation" /\ at = "citation" /\ at' = "enqueue"
  \/ e = "citations" /\ at = "enqueue" /\ at' = "commit"
  \/ e = "citations" /\ at = "citations" /\ at' = "metrics"
  \/ e = "metrics" /\ at = "metrics" /\ at' = "suggest"
  \/ e = "suggestions" /\ at = "suggest" /\ at' = "done"
  \/ e = "done" /\ at = "done" /\ at' = "ended"

Emits(e) ==
  /\ UNCHANGED read /\ (closed' <=> closed)
  /\ Put(e)
  /\ CanEmit(e) \/ at \in FreePlaces \cup {"prepare"} \/ TryPut(e)
  /\ EmitsFree(e) \/ EmitsStreaming(e) \/ EmitsCompleting(e)

OrderKept ==
  /\ Ordered' /\ [Protocol!ProtocolNext]_sent
  /\ read' \in 0 .. Len(sent') /\ Len(sent') - read' <= Capacity
  /\ DoneSent' => DoneSent \/ at \in {"done", "freeSave"}

LEMMA QuietOrder ==
  ASSUME TurnIInv, Quiet
  PROVE  OrderKept
<1>1. /\ Protocol!Reached' = Protocol!Reached /\ (DoneSent' <=> DoneSent) /\ TerminalIsLast'
      /\ sent' = sent /\ read' = read /\ (closed' <=> closed)
  BY SentKept DEF TurnIInv, Quiet
<1>2. sent' \in Seq(Events) /\ read' \in 0 .. Len(sent') /\ Len(sent') - read' <= Capacity
      /\ (DoneSent => at = "ended")
  BY <1>1 DEF TurnIInv, Typed, TurnTypeOK, PhasesOK
<1>3. /\ PhasesOK /\ FreeFits /\ Protocol!Reached \in 0 .. 7 /\ Len(sent) \in Nat
      /\ at = "prepare" => Len(sent) = 0 /\ Protocol!Reached = 0
  BY SentFacts DEF TurnIInv
<1>4. CASE QuietBefore
  <2>1. PhasesOK'
    BY <1>1, <1>3, <1>4 DEF QuietBefore, PhasesOK, TextPlaces
  <2>2. FreeFits'
    BY <1>1, <1>3, <1>4 DEF QuietBefore, FreeFits
  <2> QED BY <1>1, <1>2, <2>1, <2>2 DEF OrderKept, Ordered
<1>5. CASE QuietStreaming
  <2>1. PhasesOK'
    BY <1>1, <1>3, <1>5 DEF QuietStreaming, PhasesOK, TextPlaces, Streaming, Markers
  <2>2. FreeFits'
    BY <1>1, <1>3, <1>5 DEF QuietStreaming, FreeFits, Streaming
  <2> QED BY <1>1, <1>2, <2>1, <2>2 DEF OrderKept, Ordered
<1>6. CASE QuietCompleting
  <2>1. PhasesOK'
    BY <1>1, <1>3, <1>6 DEF QuietCompleting, PhasesOK, TextPlaces
  <2>2. FreeFits'
    BY <1>1, <1>3, <1>6 DEF QuietCompleting, FreeFits
  <2> QED BY <1>1, <1>2, <2>1, <2>2 DEF OrderKept, Ordered
<1>7. CASE QuietLeased
  <2>1. PhasesOK'
    BY <1>1, <1>3, <1>7 DEF QuietLeased, PhasesOK, TextPlaces
  <2>2. FreeFits'
    BY <1>1, <1>3, <1>7 DEF QuietLeased, FreeFits
  <2> QED BY <1>1, <1>2, <2>1, <2>2 DEF OrderKept, Ordered
<1> QED BY <1>4, <1>5, <1>6, <1>7 DEF Quiet

LEMMA EmitOrder ==
  ASSUME TurnIInv, NEW e \in Events, Emits(e)
  PROVE  OrderKept
<1>1. /\ Protocol!Phase("thinking") = 1 /\ Protocol!Phase("chunk") = 2
      /\ Protocol!Phase("citation") = 3 /\ Protocol!Phase("citations") = 4
      /\ Protocol!Phase("metrics") = 5 /\ Protocol!Phase("suggestions") = 6
      /\ Protocol!Phase("done") = 7 /\ Protocol!Phase("error") = 7 /\ Protocol!Phase("shutdown") = 7
  BY PhaseOf DEF Terminal
<1>2. /\ PhasesOK /\ FreeFits /\ Protocol!Reached \in 0 .. 7 /\ Len(sent) \in Nat
      /\ at = "prepare" => Len(sent) = 0 /\ Protocol!Reached = 0
  BY SentFacts DEF TurnIInv
<1>3. at \in FreePlaces \cup {"prepare"} => Len(sent) <= 4
  BY <1>2 DEF FreeFits, FreePlaces
<1>4. at # "ended" /\ UNCHANGED read /\ (closed' <=> closed)
  BY DEF Emits, EmitsFree, EmitsStreaming, EmitsCompleting
<1>5. ASSUME \/ Protocol!Phase(e) > Protocol!Reached
             \/ e = "chunk" /\ Protocol!Phase(e) = Protocol!Reached,
             e = "done" => closed \/ Protocol!Reached >= 5
      PROVE  /\ sent' \in Seq(Events) /\ TerminalIsLast' /\ [Protocol!ProtocolNext]_sent
             /\ Protocol!Reached' \in {Protocol!Reached, Protocol!Phase(e)}
             /\ Len(sent') \in {Len(sent), Len(sent) + 1}
             /\ read' \in 0 .. Len(sent') /\ Len(sent') - read' <= Capacity
             /\ DoneSent' => e = "done"
             /\ ~closed /\ e \notin {"chunk", "citation", "citations"}
                  => Protocol!Reached' = Protocol!Phase(e)
  BY <1>3, <1>4, <1>5, EmitEffect DEF Emits
<1>6. CASE EmitsFree(e)
  <2>1. /\ \/ Protocol!Phase(e) > Protocol!Reached
           \/ e = "chunk" /\ Protocol!Phase(e) = Protocol!Reached
        /\ e = "done" => closed \/ Protocol!Reached >= 5
    <3>1. Protocol!Phase(e) > Protocol!Reached
      BY <1>1, <1>2, <1>6 DEF EmitsFree, PhasesOK, TextPlaces
    <3>2. e = "done" => at = "freeSave"
      BY <1>6 DEF EmitsFree
    <3>3. at = "freeSave" => closed \/ Protocol!Reached >= 5
      BY <1>2 DEF PhasesOK
    <3> QED BY <3>1, <3>2, <3>3
  <2>2. PhasesOK'
    BY <1>1, <1>2, <1>4, <1>5, <1>6, <2>1 DEF EmitsFree, PhasesOK, TextPlaces
  <2>3. FreeFits'
    BY <1>2, <1>5, <1>6, <2>1 DEF EmitsFree, FreeFits
  <2>4. DoneSent' => at \in {"done", "freeSave"}
    BY <1>5, <1>6, <2>1 DEF EmitsFree
  <2> QED BY <1>5, <2>1, <2>2, <2>3, <2>4 DEF OrderKept, Ordered
<1>7. CASE EmitsStreaming(e)
  <2>1. Protocol!Phase(e) > Protocol!Reached \/ (e = "chunk" /\ Protocol!Phase(e) = Protocol!Reached)
    BY <1>1, <1>2, <1>7 DEF EmitsStreaming, PhasesOK, TextPlaces
  <2>2. e # "done"
    BY <1>7 DEF EmitsStreaming
  <2>3. PhasesOK'
    BY <1>1, <1>2, <1>4, <1>5, <1>7, <2>1, <2>2 DEF EmitsStreaming, PhasesOK, TextPlaces
  <2>4. FreeFits'
    BY <1>7 DEF EmitsStreaming, FreeFits
  <2> QED BY <1>5, <2>1, <2>2, <2>3, <2>4 DEF OrderKept, Ordered
<1>8. CASE EmitsCompleting(e)
  <2>1. /\ Protocol!Phase(e) > Protocol!Reached
        /\ e = "done" => closed \/ Protocol!Reached >= 5
    BY <1>1, <1>2, <1>8 DEF EmitsCompleting, PhasesOK, TextPlaces
  <2>2. PhasesOK'
    BY <1>1, <1>2, <1>4, <1>5, <1>8, <2>1 DEF EmitsCompleting, PhasesOK, TextPlaces
  <2>3. FreeFits'
    BY <1>8 DEF EmitsCompleting, FreeFits
  <2>4. DoneSent' => at \in {"done", "freeSave"}
    BY <1>5, <1>8, <2>1 DEF EmitsCompleting
  <2> QED BY <1>5, <2>1, <2>2, <2>3, <2>4 DEF OrderKept, Ordered
<1> QED BY <1>6, <1>7, <1>8 DEF Emits

-----------------------------------------------------------------------------
(* The steps of the task.                                                  *)

(* The invariant without the channel.                                      *)
Account ==
  /\ at \in {"prepare", "ready"} \cup FreePlaces \cup StreamPlaces \cup Over
  /\ outcome \in {"none", "stream", "answer", "failed"}
  /\ client \in {"asking", "reading", "gone"}
  /\ \A v \in {cancelled, closed, shutdown, finished, ended, counted, leased, question, failed} : v \in BOOLEAN
  /\ len \in 0 .. MaxLen
  /\ bytes \in Seq({"text", "marker", "done", "error"}) /\ Len(bytes) <= MaxRead
  /\ stored \in {"none", "complete", "fallback", "lost"} \cup Markers
  /\ StoredOK /\ TextIsKept

Moves == Quiet \/ \E e \in Events : Emits(e)

(* What a step of the task comes to.                                       *)
Advances ==
  /\ Moves /\ Account' /\ at # "ended"
  /\ at \in {"done", "freeSave"} /\ outcome' = "stream" => stored' = "complete"

LEMMA InvAccount == TurnIInv => Account
BY DEF TurnIInv, Typed, TurnTypeOK, Account

LEMMA AdvancesKeeps ==
  ASSUME TurnIInv, Advances
  PROVE  Keeps
<1>1. OrderKept
  BY QuietOrder, EmitOrder DEF Advances, Moves
<1>2. DoneSent => at = "ended"
  BY DEF TurnIInv, PhasesOK
<1>3. DoneIsStored'
  BY <1>1, <1>2, DoneReads DEF OrderKept, Advances
<1>4. Typed'
  BY <1>1 DEF Typed, TurnTypeOK, OrderKept, Ordered, Advances, Account
<1> QED BY <1>1, <1>3, <1>4 DEF Keeps, TurnIInv, OrderKept, Ordered, Advances, Account

LEMMA BeginAdvances ==
  ASSUME TurnIInv, Prepare \/ Ready
  PROVE  Advances
<1> USE DEF Account, StoredOK, TextIsKept, Advances, Moves, control, clientSide, stream, answer,
            FreePlaces, StreamPlaces, Streaming, Completing, Markers, Over
<1>0. Account
  BY InvAccount
<1>1. CASE Prepare
  <2>1. Moves
    BY <1>1 DEF Prepare, Quiet, QuietBefore, Emits, EmitsFree, Events, Kinds
  <2>2. Account'
    BY <1>0, <1>1 DEF Prepare
  <2> QED BY <1>1, <2>1, <2>2 DEF Prepare
<1>2. CASE Ready
  <2>1. Moves
    BY <1>2 DEF Ready, Quiet, QuietBefore
  <2>2. Account'
    BY <1>0, <1>2 DEF Ready
  <2> QED BY <1>2, <2>1, <2>2 DEF Ready
<1> QED BY <1>1, <1>2

LEMMA FreeAdvances ==
  ASSUME TurnIInv, Free
  PROVE  Advances
<1> USE DEF Account, StoredOK, TextIsKept, FreeRest, control, clientSide, stream, answer,
            FreePlaces, StreamPlaces, Streaming, Completing, Markers, Over
<1>0. Account
  BY InvAccount
<1>1. CASE StopFree
  <2>1. Moves
    BY <1>1 DEF StopFree, Moves, Quiet, QuietBefore, Emits, EmitsFree, Events, Terminal
  <2>2. Account'
    BY <1>0, <1>1 DEF StopFree
  <2> QED BY <1>0, <1>1, <2>1, <2>2 DEF StopFree, Advances
<1>2. CASE StreamGroundedFallback
  <2>1. Moves
    BY <1>2 DEF StreamGroundedFallback, Moves, Emits, EmitsFree, Events, Kinds
  <2>2. Account'
    BY <1>0, <1>2, ZenonT(40) DEF StreamGroundedFallback
  <2> QED BY <1>0, <1>2, <2>1, <2>2 DEF StreamGroundedFallback, Advances
<1>3. CASE FinishFallback
  <2>1. Moves
    BY <1>3 DEF FinishFallback, Moves, Emits, EmitsFree, Events, Terminal
  <2>2. Account'
    BY <1>0, <1>3 DEF FinishFallback
  <2> QED BY <1>0, <1>3, <2>1, <2>2 DEF FinishFallback, Advances
<1>4. CASE StreamTurnFailure
  <2>1. Moves
    BY <1>4 DEF StreamTurnFailure, Moves, Emits, EmitsFree, Events, Terminal
  <2>2. Account'
    BY <1>0, <1>4 DEF StreamTurnFailure
  <2> QED BY <1>0, <1>4, <2>1, <2>2 DEF StreamTurnFailure, Advances
<1> QED BY <1>1, <1>2, <1>3, <1>4 DEF Free

LEMMA WaitAdvances ==
  ASSUME TurnIInv, Wait
  PROVE  Advances
<1> USE DEF Account, StoredOK, TextIsKept, Go, control, clientSide, stream, answer,
            FreePlaces, StreamPlaces, Streaming, Completing, Markers, Over
<1>0. Account
  BY InvAccount
<1>1. CASE StopForShutdown \/ StopForClient \/ StreamStarts \/ ProviderFails
  <2>1. Moves
    BY <1>1 DEF StopForShutdown, StopForClient, StreamStarts, ProviderFails, Moves, Quiet, QuietStreaming
  <2>2. Account'
    BY <1>0, <1>1 DEF StopForShutdown, StopForClient, StreamStarts, ProviderFails
  <2> QED BY <1>0, <1>1, <2>1, <2>2
          DEF StopForShutdown, StopForClient, StreamStarts, ProviderFails, Advances
<1>2. CASE TellShutdown
  <2>1. Moves
    BY <1>2 DEF TellShutdown, Moves, Emits, EmitsStreaming, Events, Terminal
  <2>2. Account'
    BY <1>0, <1>2 DEF TellShutdown
  <2> QED BY <1>0, <1>2, <2>1, <2>2 DEF TellShutdown, Advances
<1>3. CASE TakeBytes
  <2>1. Moves
    BY <1>3 DEF TakeBytes, Moves, Quiet, QuietStreaming
  <2>2. bytes' \in Seq({"text", "marker", "done", "error"}) /\ Len(bytes') <= MaxRead
    <3>1. PICK n \in 1 .. MaxRead, last \in {"text", "marker", "done", "error"} :
                 bytes' = [i \in 1 .. n |-> IF i = n THEN last ELSE "text"]
      BY <1>3 DEF TakeBytes
    <3>2. n \in Nat /\ n <= MaxRead
      BY TurnAssumption
    <3>3. bytes' \in [1 .. n -> {"text", "marker", "done", "error"}]
      BY <3>1
    <3> QED BY <3>2, <3>3
  <2>3. Account'
    BY <1>0, <1>3, <2>2 DEF TakeBytes
  <2> QED BY <1>3, <2>1, <2>3 DEF TakeBytes, Advances
<1>4. CASE StreamIsOver
  <2>1. Moves
    BY <1>4 DEF StreamIsOver, Moves, Quiet, QuietStreaming
  <2>2. Account'
    BY <1>0, <1>4 DEF StreamIsOver
  <2> QED BY <1>4, <2>1, <2>2 DEF StreamIsOver, Advances
<1> QED BY <1>1, <1>2, <1>3, <1>4 DEF Wait

LEMMA ProcessAdvances ==
  ASSUME TurnIInv, ProcessChunk
  PROVE  Advances
<1> USE DEF Account, StoredOK, TextIsKept, Go, control, clientSide, stream, answer,
            FreePlaces, StreamPlaces, Streaming, Completing, Markers, Over
<1>0. Account
  BY InvAccount
<1>1. CASE TextDelta \/ NativeCitation \/ ProviderDone \/ ProviderError
  <2>1. Moves
    BY <1>1 DEF TextDelta, NativeCitation, ProviderDone, ProviderError, Processing, Moves, Quiet, QuietStreaming
  <2>2. bytes' \in Seq({"text", "marker", "done", "error"}) /\ Len(bytes') <= MaxRead
    <3>1. bytes # <<>> /\ (bytes' = <<>> \/ bytes' = Tail(bytes))
      BY <1>1 DEF TextDelta, NativeCitation, ProviderDone, ProviderError, Processing
    <3>2. bytes \in Seq({"text", "marker", "done", "error"}) /\ Len(bytes) <= MaxRead
      BY <1>0
    <3> DEFINE S == {"text", "marker", "done", "error"}
    <3> HIDE DEF S, Account
    <3>3. bytes \in Seq(S) /\ Len(bytes) \in Nat /\ Len(bytes) <= MaxRead /\ MaxRead \in Nat
      BY <3>2, TurnAssumption DEF S
    <3>4. Tail(bytes) \in Seq(S) /\ Len(Tail(bytes)) = Len(bytes) - 1
      BY <3>1, <3>3
    <3>5. <<>> \in Seq(S) /\ Len(<<>>) = 0
      OBVIOUS
    <3>6. bytes' \in Seq(S) /\ Len(bytes') <= MaxRead
      <4>1. CASE bytes' = <<>>
        <5>1. Len(bytes') = 0
          BY <4>1, <3>5
        <5> QED BY <5>1, <4>1, <3>3, <3>5
      <4>2. CASE bytes' = Tail(bytes)
        <5>1. Len(bytes') = Len(bytes) - 1
          BY <4>2, <3>4
        <5> QED BY <5>1, <4>2, <3>3, <3>4
      <4> QED BY <3>1, <4>1, <4>2
    <3> QED BY <3>6 DEF S
  <2>3. len' \in 0 .. MaxLen
    BY <1>0, <1>1, TurnAssumption DEF TextDelta, NativeCitation, ProviderDone, ProviderError, EventRest
  <2>4. Account'
    BY <1>0, <1>1, <2>2, <2>3
       DEF TextDelta, NativeCitation, ProviderDone, ProviderError, Processing, EventRest
  <2> QED BY <1>1, <2>1, <2>4
          DEF TextDelta, NativeCitation, ProviderDone, ProviderError, Processing, Advances
<1>2. CASE SendChunk
  <2>1. Moves
    BY <1>2 DEF SendChunk, Moves, Emits, EmitsStreaming, Events, Kinds
  <2>2. Account'
    BY <1>0, <1>2 DEF SendChunk
  <2> QED BY <1>2, <2>1, <2>2 DEF SendChunk, Advances
<1>3. CASE Continue
  <2>1. Moves
    BY <1>3 DEF Continue, Moves, Quiet, QuietStreaming
  <2>2. Account'
    BY <1>0, <1>3 DEF Continue
  <2> QED BY <1>3, <2>1, <2>2 DEF Continue, Advances
<1> QED BY <1>1, <1>2, <1>3 DEF ProcessChunk

LEMMA EndingAdvances ==
  ASSUME TurnIInv, SavePartialResponse \/ TellTooLong \/ Fail
  PROVE  Advances
<1> USE DEF Account, StoredOK, TextIsKept, Go, control, clientSide, stream, answer,
            FreePlaces, StreamPlaces, Streaming, Completing, Markers, Over
<1>0. Account
  BY InvAccount
<1>1. CASE SavePartialResponse
  <2>1. Moves
    BY <1>1 DEF SavePartialResponse, Moves, Quiet, QuietStreaming
  <2>2. Account'
    BY <1>0, <1>1 DEF SavePartialResponse
  <2> QED BY <1>1, <2>1, <2>2 DEF SavePartialResponse, Advances
<1>2. CASE TellTooLong
  <2>1. Moves
    BY <1>2 DEF TellTooLong, Moves, Emits, EmitsStreaming, Events, Terminal
  <2>2. Account'
    BY <1>0, <1>2 DEF TellTooLong
  <2> QED BY <1>2, <2>1, <2>2 DEF TellTooLong, Advances
<1>3. CASE Fail
  <2>1. Moves
    BY <1>3 DEF Fail, Moves, Emits, EmitsStreaming, Events, Terminal
  <2>2. Account'
    BY <1>0, <1>3 DEF Fail
  <2> QED BY <1>3, <2>1, <2>2 DEF Fail, Advances
<1> QED BY <1>1, <1>2, <1>3

LEMMA CompleteAdvances ==
  ASSUME TurnIInv, Complete
  PROVE  Advances
<1> USE DEF Account, StoredOK, TextIsKept, Go, CompleteRest, control, clientSide, stream, answer,
            FreePlaces, StreamPlaces, Streaming, Completing, Markers, Over
<1>0. Account
  BY InvAccount
<1>1. CASE FinishGeneration \/ ResolveCitations \/ Persist
  <2>1. Moves
    BY <1>1 DEF FinishGeneration, ResolveCitations, Persist, Moves, Quiet, QuietCompleting
  <2>2. Account'
    BY <1>0, <1>1 DEF FinishGeneration, ResolveCitations, Persist
  <2> QED BY <1>1, <2>1, <2>2 DEF FinishGeneration, ResolveCitations, Persist, Advances
<1>2. CASE EnqueueCitations
  <2>1. PICK e \in {"citation", "citations"} :
          /\ TryPut(e)
          /\ \/ e = "citation" /\ at = "citation" /\ at' = "enqueue"
             \/ e = "citations" /\ at = "enqueue" /\ at' = "commit"
    BY <1>2 DEF EnqueueCitations
  <2>2. Put(e) \/ UNCHANGED sent
    BY <2>1 DEF TryPut, Put
  <2>3. UNCHANGED read /\ (closed' <=> closed)
    BY <1>2 DEF EnqueueCitations
  <2>4. Moves
    BY <2>1, <2>2, <2>3 DEF Moves, Quiet, QuietLeased, Emits, EmitsCompleting, Events, Kinds
  <2>5. Account'
    BY <1>0, <1>2 DEF EnqueueCitations
  <2> QED BY <1>2, <2>4, <2>5 DEF EnqueueCitations, Advances
<1>3. CASE Release
  <2>1. Moves
    BY <1>3 DEF Release, Moves, Quiet, QuietLeased
  <2>2. Account'
    BY <1>0, <1>3 DEF Release
  <2> QED BY <1>3, <2>1, <2>2 DEF Release, Advances
<1>4. CASE EmitCitations \/ EmitMetrics
  <2>1. Moves
    BY <1>4 DEF EmitCitations, EmitMetrics, Moves, Emits, EmitsCompleting, Events, Kinds
  <2>2. Account'
    BY <1>0, <1>4 DEF EmitCitations, EmitMetrics
  <2> QED BY <1>4, <2>1, <2>2 DEF EmitCitations, EmitMetrics, Advances
<1>5. CASE GenerateFollowUpSuggestions
  <2>1. Moves
    BY <1>5 DEF GenerateFollowUpSuggestions, Moves, Quiet, QuietLeased, Emits, EmitsCompleting, Events, Kinds
  <2>2. Account'
    BY <1>0, <1>5 DEF GenerateFollowUpSuggestions
  <2> QED BY <1>5, <2>1, <2>2 DEF GenerateFollowUpSuggestions, Advances
<1>6. CASE Done
  <2>1. Moves
    BY <1>6 DEF Done, Moves, Emits, EmitsCompleting, Events, Terminal
  <2>2. Account'
    BY <1>0, <1>6 DEF Done
  <2> QED BY <1>0, <1>6, <2>1, <2>2 DEF Done, Advances
<1> QED BY <1>1, <1>2, <1>3, <1>4, <1>5, <1>6 DEF Complete

-----------------------------------------------------------------------------
LEMMA TurnStarts == TurnInit => TurnIInv
<1> SUFFICES ASSUME TurnInit PROVE TurnIInv
  OBVIOUS
<1>1. sent = <<>> /\ Protocol!Reached = 0 /\ ~DoneSent
  BY DEF TurnInit, Protocol!Reached, DoneSent
<1>2. Typed
  <2>1. <<>> \in Seq(Events) /\ <<>> \in Seq({"text", "marker", "done", "error"}) /\ Len(<<>>) = 0
    OBVIOUS
  <2>2. TurnTypeOK
    <3>1. Len(sent) = 0 /\ Len(bytes) = 0
      BY <2>1 DEF TurnInit
    <3>2. /\ Capacity \in Nat /\ MaxLen \in Nat /\ MaxRead \in Nat
          /\ read = 0 /\ len = 0
      BY TurnAssumption DEF TurnInit
    <3>3. /\ read \in 0 .. Len(sent) /\ len \in 0 .. MaxLen /\ Len(bytes) <= MaxRead
          /\ Len(sent) - read <= Capacity
      BY <3>1, <3>2
    <3> QED BY <3>3 DEF TurnInit, TurnTypeOK
  <2> QED BY <2>1, <2>2 DEF TurnInit, Typed
<1>3. TerminalIsLast /\ PhasesOK /\ DoneIsStored
  BY <1>1, DoneReads DEF TurnInit, TerminalIsLast, PhasesOK, TextPlaces
<1> QED BY <1>2, <1>3
        DEF TurnInit, TurnIInv, FreeFits, StoredOK, TextIsKept, FreePlaces, StreamPlaces, Streaming,
            Completing, Markers

(* Every step keeps the invariant, and adds at most one event to the       *)
(* channel, one that the protocol allows there.                            *)
LEMMA TurnStep == TurnIInv /\ [TurnNext]_turnVars => Keeps
<1> SUFFICES ASSUME TurnIInv, [TurnNext]_turnVars PROVE Keeps
  OBVIOUS
<1>1. CASE TaskStep
  BY <1>1, AdvancesKeeps, BeginAdvances, FreeAdvances, WaitAdvances, ProcessAdvances,
     EndingAdvances, CompleteAdvances DEF TaskStep
<1>2. CASE Leave \/ DropReceiver \/ Read \/ RequestShutdown \/ ForceAbort
  BY <1>2, OutsideKeeps
<1>3. CASE UNCHANGED turnVars
  BY <1>3 DEF Keeps, TurnIInv, Typed, TurnTypeOK, TerminalIsLast, PhasesOK, FreeFits, StoredOK,
              DoneIsStored, TextIsKept, DoneSent, Protocol!Reached,
              turnVars, control, clientSide, stream, answer
<1> QED BY <1>1, <1>2, <1>3 DEF TurnNext

(* Whatever the provider answers, whoever leaves and whenever the server   *)
(* stops: a success the client was told of is in the history, and text     *)
(* that was streamed is stored, or the client was told of the failure      *)
(* (stream_llm_response, save_partial_response).                           *)
THEOREM TurnKeepsItsWord == TurnSpec => []TurnInv
<1>1. TurnIInv => TurnInv
  BY DEF TurnIInv, Typed, TurnInv
<1>2. TurnIInv /\ [TurnNext]_turnVars => TurnIInv'
  BY TurnStep DEF Keeps
<1> QED BY <1>1, <1>2, TurnStarts, PTL DEF TurnSpec

(* The exchange implements the protocol the client relies on: its events   *)
(* come in phases, one terminal event ends them, and done follows the      *)
(* metrics (ChatEventStream).                                              *)
THEOREM TurnImplementsProtocol == TurnSpec => ImplementsProtocol
<1>1. TurnInit => Protocol!ProtocolInit
  BY DEF TurnInit, Protocol!ProtocolInit
<1>2. TurnIInv /\ [TurnNext]_turnVars => TurnIInv'
  BY TurnStep DEF Keeps
<1>3. TurnIInv /\ [TurnNext]_turnVars => [Protocol!ProtocolNext]_sent
  BY TurnStep DEF Keeps
<1> QED BY <1>1, <1>2, <1>3, TurnStarts, PTL DEF TurnSpec, ImplementsProtocol, Protocol!ProtocolSpec

-----------------------------------------------------------------------------
(* Citations: from the marker in an answer to the event that is sent.      *)

Piece == Streamed \cup {<<"mark", n>> : n \in Nat}

Located == [doc : Nat, quote : Quotes, at : Nat]

CiteTyped ==
  /\ passages \in Passages /\ native \in BOOLEAN
  /\ text \in Seq(Piece) /\ located \in Seq(Located) /\ numbered \in Seq(Nat)
  /\ active \in [Cited -> Generations]
  /\ resolution \in {"generating", "looking", "extracting", "leasing", "leased", "resolved"}
  /\ rejected \in Nat
  /\ lent \subseteq Cited /\ (lent # {} => resolution = "leased")

(* The marker of a native citation carries the number of its document.     *)
MarkersStand ==
  /\ \A k \in DOMAIN located :
       /\ located[k].at \in Marks(text)
       /\ text[located[k].at][2] \in DOMAIN numbered
       /\ numbered[text[located[k].at][2]] = located[k].doc
  /\ \A m, n \in DOMAIN numbered : numbered[m] = numbered[n] => m = n

NoNewer(g, h) == g # NoGen /\ h # NoGen => g <= h

(* A pointer only moves on: what was retrieved is no newer than what is    *)
(* looked up, and that no newer than what is leased.                       *)
PointersAdvance ==
  /\ \A i \in DOMAIN passages : NoNewer(passages[i].gen, active[passages[i].source])
  /\ \A s \in DOMAIN looked :
       s \in Cited /\ looked[s] \in Generations /\ NoNewer(looked[s], active[s])
  /\ \A i \in DOMAIN passages :
       passages[i].source \in DOMAIN looked => NoNewer(passages[i].gen, looked[passages[i].source])
  /\ resolution \notin {"generating", "looking"} => Named \subseteq DOMAIN looked

ReadFor(c) ==
  \E m \in Marks(text) :
    /\ text[m][2] = c.event /\ ~InCode(text, m) /\ Supported(text, m, passages[c.cites])

(* Found again in an older generation than the one looked up.              *)
OutOfDate(c) ==
  \/ c.gen = NoGen
  \/ c.source \in DOMAIN looked /\ looked[c.source] # NoGen /\ c.gen < looked[c.source]

(* A candidate is read for what it cites, or the lease will refuse it.     *)
CandidateFits(c) ==
  /\ c.cites \in DOMAIN passages /\ c.source = passages[c.cites].source
  /\ c.gen \in Generations
  /\ OutOfDate(c) \/ (c.gen = passages[c.cites].gen /\ ReadFor(c))

LeaseHolds(c) ==
  /\ c.cites \in DOMAIN passages /\ c.source \in lent
  /\ c.source = passages[c.cites].source /\ c.gen = passages[c.cites].gen
  /\ active[c.source] = c.gen

Marked ==
  IF UsesNative THEN {located[i].doc : i \in DOMAIN located}
  ELSE {text[m][2] : m \in Marks(text)}

CitesOf(S) == {c.cites : c \in S}

RefusalsFit ==
  /\ IsFiniteSet(candidates) /\ IsFiniteSet(Marked \ CitesOf(candidates))
  /\ Cardinality(Marked \ CitesOf(candidates)) <= rejected

CiteIInv ==
  /\ CiteTyped /\ MarkersStand /\ PointersAdvance
  /\ resolution = "leasing" => \A c \in candidates : CandidateFits(c)
  /\ resolution \in {"leased", "resolved"} => \A c \in candidates : ReadFor(c)
  /\ resolution = "leased" => \A c \in candidates : LeaseHolds(c)
  /\ resolution \in {"leasing", "leased", "resolved"} => RefusalsFit

(* The image of a finite set is no larger.                                 *)
LEMMA ImageIsNoLarger ==
  ASSUME NEW S, IsFiniteSet(S), NEW T, NEW f \in [S -> T], \A t \in T : \E s \in S : f[s] = t
  PROVE  IsFiniteSet(T) /\ Cardinality(T) <= Cardinality(S)
<1>1. f \in Surjection(S, T)
  BY DEF Surjection
<1> QED
  BY <1>1, FS_Surjection

LEMMA PassageTypes ==
  ASSUME passages \in Passages
  PROVE  /\ DOMAIN passages = 1 .. Len(passages) /\ Len(passages) \in Nat
         /\ \A i \in DOMAIN passages : passages[i].source \in Cited /\ passages[i].gen \in Generations
         /\ Named \subseteq Cited
<1>1. passages \in Seq(AnyPassage)
  BY CitationsAssumption
<1>2. \A i \in DOMAIN passages : passages[i] \in AnyPassage
  BY <1>1
<1>3. \A p \in AnyPassage : p.source \in Cited /\ p.gen \in Generations
  BY CitationsAssumption
<1>4. \A i \in DOMAIN passages : passages[i].source \in Cited /\ passages[i].gen \in Generations
  BY <1>2, <1>3
<1> QED
  BY <1>1, <1>4 DEF Named

(* Evidence that holds the words and numbers of another supports what that *)
(* does.                                                                   *)
LEMMA MoreSupportsMore ==
  ASSUME NEW t, NEW m \in Nat, NEW e, NEW f,
         e.words \subseteq f.words, e.numbers \subseteq f.numbers, Supported(t, m, e)
  PROVE  Supported(t, m, f)
<1> DEFINE words == {i \in Claim(t, m) : Kind(t, i, "word")}
           few == {i \in words : t[i][2] \in e.words}
           more == {i \in words : t[i][2] \in f.words}
<1>1. /\ \A i \in Claim(t, m) : Kind(t, i, "number") \/ Kind(t, i, "mark") => t[i][2] \in e.numbers
      /\ words # {}
      /\ \A i \in words : t[i][2] \in Polarity => i \in few
      /\ 3 * Cardinality(few) >= 2 * Cardinality(words)
  BY DEF Supported
<1>2. few \in SUBSET more /\ more \in SUBSET words /\ words \subseteq 1 .. m - 1
  BY DEF Claim
<1>3. IsFiniteSet(1 .. m - 1)
  BY FS_Interval
<1>4. \A i \in Claim(t, m) : Kind(t, i, "number") \/ Kind(t, i, "mark") => t[i][2] \in f.numbers
  BY <1>1
<1>5. \A i \in words : t[i][2] \in Polarity => i \in more
  BY <1>1, <1>2
<1>6. 3 * Cardinality(more) >= 2 * Cardinality(words)
  <2> HIDE DEF words, few, more
  <2>1. words \in SUBSET (1 .. m - 1)
    BY <1>2
  <2>2. IsFiniteSet(words)
    BY <1>3, <2>1, FS_Subset
  <2>3. IsFiniteSet(more) /\ Cardinality(more) \in Nat
    BY <1>2, <2>2, FS_Subset, FS_CardinalityType
  <2>4. Cardinality(few) <= Cardinality(more) /\ Cardinality(few) \in Nat /\ Cardinality(words) \in Nat
    BY <1>2, <2>2, <2>3, FS_Subset, FS_CardinalityType
  <2> QED
    BY <1>1, <2>3, <2>4
<1> QED
  BY <1>1, <1>4, <1>5, <1>6 DEF Supported

(* The passage that is found again is one of the same source and position, *)
(* and the same one when its generation is.                                *)
LEMMA FoundAgainFits ==
  ASSUME passages \in Passages, NEW n \in DOMAIN passages
  PROVE  /\ FoundAgain(n) \in DOMAIN passages
         /\ passages[FoundAgain(n)].source = passages[n].source
         /\ passages[FoundAgain(n)].index = passages[n].index
<1> DEFINE same == {i \in DOMAIN passages :
                      passages[i].source = passages[n].source /\ passages[i].index = passages[n].index}
           IsFirst(i) == /\ passages[i].source = passages[n].source /\ passages[i].index = passages[n].index
                         /\ \A j \in 1 .. i - 1 : ~(/\ passages[j].source = passages[n].source
                                                    /\ passages[j].index = passages[n].index)
<1>1. DOMAIN passages = 1 .. Len(passages) /\ Len(passages) \in Nat
  BY PassageTypes
<1>2. same \subseteq Nat /\ same # {}
  BY <1>1
<1>3. PICK i \in same : \A j \in same : i <= j
  <2> HIDE DEF same
  <2> QED
    BY <1>2, LeastOf
<1>4. IsFirst(i)
  BY <1>1, <1>3
<1>5. \E k \in DOMAIN passages : IsFirst(k)
  BY <1>3, <1>4
<1>6. FoundAgain(n) = CHOOSE k \in DOMAIN passages : IsFirst(k)
  BY DEF FoundAgain
<1>7. FoundAgain(n) \in DOMAIN passages /\ IsFirst(FoundAgain(n))
  <2> HIDE DEF IsFirst
  <2> QED
    BY <1>5, <1>6
<1> QED
  BY <1>7

LEMMA TextTypes ==
  ASSUME CiteTyped
  PROVE  /\ DOMAIN text = 1 .. Len(text) /\ Len(text) \in Nat
         /\ Marks(text) \subseteq 1 .. Len(text) /\ IsFiniteSet(Marks(text))
         /\ \A i \in DOMAIN text : text[i] \in Piece
<1>1. text \in Seq(Piece)
  BY DEF CiteTyped
<1>2. DOMAIN text = 1 .. Len(text) /\ Len(text) \in Nat /\ \A i \in DOMAIN text : text[i] \in Piece
  BY <1>1
<1>3. Marks(text) \in SUBSET (1 .. Len(text))
  BY <1>2 DEF Marks
<1>4. IsFiniteSet(1 .. Len(text))
  BY <1>2, FS_Interval
<1>5. IsFiniteSet(Marks(text))
  BY <1>3, <1>4, FS_Subset
<1> QED
  BY <1>2, <1>3, <1>5

LEMMA PromptedFits ==
  ASSUME CiteTyped, PointersAdvance, Named \subseteq DOMAIN looked, NEW c \in FromMarks
  PROVE  CandidateFits(c)
<1>1. PICK m \in Marks(text) :
        /\ MarkEarns(m)
        /\ c = Candidate(text[m][2], FoundAgain(text[m][2]), FoundAgain(text[m][2]))
  BY DEF FromMarks
<1> DEFINE n == text[m][2]
           k == FoundAgain(n)
<1>2. /\ ~InCode(text, m) /\ n \in DOMAIN passages
      /\ passages[n].gen # NoGen /\ looked[passages[n].source] = passages[n].gen
      /\ Supported(text, m, passages[n])
  BY <1>1 DEF MarkEarns
<1>3. passages \in Passages
  BY DEF CiteTyped
<1>4. k \in DOMAIN passages /\ passages[k].source = passages[n].source /\ passages[k].index = passages[n].index
  BY <1>2, <1>3, FoundAgainFits
<1>5. c.cites = n /\ c.event = k /\ c.source = passages[k].source /\ c.gen = passages[k].gen
  BY <1>1 DEF Candidate
<1> HIDE DEF k
<1>6. passages[k].gen \in Generations /\ passages[n].gen \in Generations /\ passages[n].source \in DOMAIN looked
  BY <1>2, <1>3, <1>4, PassageTypes DEF Named
<1>7. CASE passages[k].gen = passages[n].gen
  <2>1. k = n
    BY <1>2, <1>3, <1>4, <1>7, CitationsAssumption
  <2>2. ReadFor(c)
    BY <1>1, <1>2, <1>5, <2>1 DEF ReadFor
  <2> QED
    BY <1>2, <1>4, <1>5, <1>6, <1>7, <2>2 DEF CandidateFits
<1>8. CASE passages[k].gen # passages[n].gen
  <2>1. NoNewer(passages[k].gen, looked[passages[k].source])
    BY <1>4, <1>6 DEF PointersAdvance
  <2>2. OutOfDate(c)
    BY <1>2, <1>4, <1>5, <1>6, <1>8, <2>1, CitationsAssumption DEF OutOfDate, NoNewer, Generations
  <2> QED
    BY <1>2, <1>4, <1>5, <1>6, <2>2 DEF CandidateFits
<1> QED
  BY <1>7, <1>8

LEMMA NativeFits ==
  ASSUME CiteTyped, MarkersStand, NEW c \in FromNative
  PROVE  CandidateFits(c)
<1>1. PICK i \in DOMAIN located :
        /\ NativeEarns(located[i])
        /\ c = Candidate(located[i].doc, Number(located[i].doc), located[i].doc)
  BY DEF FromNative
<1> DEFINE doc == located[i].doc
           m == located[i].at
           n == text[m][2]
<1>2. /\ doc \in DOMAIN passages /\ QuoteBelongs(passages[doc], located[i].quote)
      /\ Supported(text, m, located[i].quote) /\ ~InCode(text, m)
  BY <1>1 DEF NativeEarns
<1>3. m \in Marks(text) /\ n \in DOMAIN numbered /\ numbered[n] = doc
  BY DEF MarkersStand
<1>4. Number(doc) = n
  BY <1>3 DEF Number, MarkersStand
<1>5. m \in Nat
  BY <1>3, TextTypes
<1>6. Supported(text, m, passages[doc])
  <2> HIDE DEF m
  <2> QED
    BY <1>2, <1>5, MoreSupportsMore DEF QuoteBelongs
<1>7. c.cites = doc /\ c.event = n /\ c.source = passages[doc].source /\ c.gen = passages[doc].gen
  BY <1>1, <1>4 DEF Candidate
<1>8. ReadFor(c)
  BY <1>2, <1>3, <1>6, <1>7 DEF ReadFor
<1>9. passages[doc].gen \in Generations
  BY <1>2, PassageTypes DEF CiteTyped
<1> QED
  BY <1>2, <1>7, <1>8, <1>9 DEF CandidateFits

(* Counting the refused.                                                   *)
LEMMA NativeRefusals ==
  ASSUME CiteTyped, UsesNative
  PROVE  LET refused == {i \in DOMAIN located : ~NativeEarns(located[i])}
         IN /\ IsFiniteSet(FromNative) /\ IsFiniteSet(Marked \ CitesOf(FromNative))
            /\ Cardinality(refused) \in Nat
            /\ Cardinality(Marked \ CitesOf(FromNative)) <= Cardinality(refused)
<1> DEFINE refused == {i \in DOMAIN located : ~NativeEarns(located[i])}
           earned == {i \in DOMAIN located : NativeEarns(located[i])}
           documents == {located[i].doc : i \in refused}
           turnInto(i) == Candidate(located[i].doc, Number(located[i].doc), located[i].doc)
           turned == [i \in earned |-> turnInto(i)]
           named == [i \in refused |-> located[i].doc]
<1>1. DOMAIN located = 1 .. Len(located) /\ Len(located) \in Nat
  BY DEF CiteTyped
<1>2. IsFiniteSet(DOMAIN located)
  BY <1>1, FS_Interval
<1>3. refused \in SUBSET DOMAIN located /\ earned \in SUBSET DOMAIN located
  OBVIOUS
<1>4. IsFiniteSet(refused) /\ IsFiniteSet(earned) /\ Cardinality(refused) \in Nat
  <2> HIDE DEF refused, earned
  <2> QED
    BY <1>2, <1>3, FS_Subset, FS_CardinalityType
<1>5. turned \in [earned -> FromNative] /\ \A c \in FromNative : \E i \in earned : turned[i] = c
  BY DEF FromNative
<1>6. named \in [refused -> documents] /\ \A d \in documents : \E i \in refused : named[i] = d
  OBVIOUS
<1>7. Marked \ CitesOf(FromNative) \in SUBSET documents
  <2> SUFFICES ASSUME NEW d \in Marked, d \notin CitesOf(FromNative)
               PROVE  d \in documents
    OBVIOUS
  <2>1. PICK i \in DOMAIN located : d = located[i].doc
    BY DEF Marked
  <2>2. CASE i \in earned
    <3>1. turnInto(i) \in FromNative
      BY <2>2, <1>5
    <3>2. turnInto(i).cites = d
      BY <2>1 DEF Candidate
    <3> QED
      BY <3>1, <3>2 DEF CitesOf
  <2> QED
    BY <2>1, <2>2
<1> HIDE DEF refused, earned, documents, turned, named
<1>8. IsFiniteSet(FromNative)
  BY <1>4, <1>5, ImageIsNoLarger
<1>9. IsFiniteSet(documents) /\ Cardinality(documents) <= Cardinality(refused)
  BY <1>4, <1>6, ImageIsNoLarger
<1>10. /\ IsFiniteSet(Marked \ CitesOf(FromNative))
       /\ Cardinality(Marked \ CitesOf(FromNative)) <= Cardinality(documents)
       /\ Cardinality(Marked \ CitesOf(FromNative)) \in Nat /\ Cardinality(documents) \in Nat
  BY <1>7, <1>9, FS_Subset, FS_CardinalityType
<1> QED
  BY <1>4, <1>8, <1>9, <1>10 DEF refused

LEMMA PromptedRefusals ==
  ASSUME CiteTyped, ~UsesNative
  PROVE  LET refused == {m \in Marks(text) : ~MarkEarns(m)}
         IN /\ IsFiniteSet(FromMarks) /\ IsFiniteSet(Marked \ CitesOf(FromMarks))
            /\ Cardinality(refused) \in Nat
            /\ Cardinality(Marked \ CitesOf(FromMarks)) <= Cardinality(refused)
<1> DEFINE refused == {m \in Marks(text) : ~MarkEarns(m)}
           earned == {m \in Marks(text) : MarkEarns(m)}
           numbers == {text[m][2] : m \in refused}
           turnInto(m) == Candidate(text[m][2], FoundAgain(text[m][2]), FoundAgain(text[m][2]))
           turned == [m \in earned |-> turnInto(m)]
           named == [m \in refused |-> text[m][2]]
<1>1. IsFiniteSet(Marks(text))
  BY TextTypes
<1>2. refused \in SUBSET Marks(text) /\ earned \in SUBSET Marks(text)
  OBVIOUS
<1>3. IsFiniteSet(refused) /\ IsFiniteSet(earned) /\ Cardinality(refused) \in Nat
  <2> HIDE DEF refused, earned
  <2> QED
    BY <1>1, <1>2, FS_Subset, FS_CardinalityType
<1>4. turned \in [earned -> FromMarks] /\ \A c \in FromMarks : \E m \in earned : turned[m] = c
  BY DEF FromMarks
<1>5. named \in [refused -> numbers] /\ \A n \in numbers : \E m \in refused : named[m] = n
  OBVIOUS
<1>6. Marked \ CitesOf(FromMarks) \in SUBSET numbers
  <2> SUFFICES ASSUME NEW n \in Marked, n \notin CitesOf(FromMarks)
               PROVE  n \in numbers
    OBVIOUS
  <2>1. PICK m \in Marks(text) : n = text[m][2]
    BY DEF Marked
  <2>2. CASE m \in earned
    <3>1. turnInto(m) \in FromMarks
      BY <2>2, <1>4
    <3>2. turnInto(m).cites = n
      BY <2>1 DEF Candidate
    <3> QED
      BY <3>1, <3>2 DEF CitesOf
  <2> QED
    BY <2>1, <2>2
<1> HIDE DEF refused, earned, numbers, turned, named
<1>7. IsFiniteSet(FromMarks)
  BY <1>3, <1>4, ImageIsNoLarger
<1>8. IsFiniteSet(numbers) /\ Cardinality(numbers) <= Cardinality(refused)
  BY <1>3, <1>5, ImageIsNoLarger
<1>9. /\ IsFiniteSet(Marked \ CitesOf(FromMarks))
      /\ Cardinality(Marked \ CitesOf(FromMarks)) <= Cardinality(numbers)
      /\ Cardinality(Marked \ CitesOf(FromMarks)) \in Nat /\ Cardinality(numbers) \in Nat
  BY <1>6, <1>8, FS_Subset, FS_CardinalityType
<1> QED
  BY <1>3, <1>7, <1>8, <1>9 DEF refused

(* Candidates given up later are counted one by one.                       *)
LEMMA RefusedLater ==
  ASSUME NEW M, NEW C, NEW P \in SUBSET C, IsFiniteSet(C), IsFiniteSet(M \ CitesOf(C))
  PROVE  /\ IsFiniteSet(P) /\ IsFiniteSet(M \ CitesOf(P)) /\ Cardinality(C \ P) \in Nat
         /\ Cardinality(M \ CitesOf(C)) \in Nat
         /\ Cardinality(M \ CitesOf(P)) <= Cardinality(M \ CitesOf(C)) + Cardinality(C \ P)
<1> DEFINE before == M \ CitesOf(C)
           given == CitesOf(C \ P)
           after == M \ CitesOf(P)
           named == [c \in C \ P |-> c.cites]
<1>1. IsFiniteSet(P) /\ IsFiniteSet(C \ P) /\ Cardinality(C \ P) \in Nat
  BY FS_Subset, FS_Difference, FS_CardinalityType
<1>2. named \in [C \ P -> given] /\ \A n \in given : \E c \in C \ P : named[c] = n
  BY DEF CitesOf
<1>3. after \in SUBSET (before \cup given)
  BY DEF CitesOf
<1> HIDE DEF before, given, after, named
<1>4. IsFiniteSet(given) /\ Cardinality(given) <= Cardinality(C \ P)
  BY <1>1, <1>2, ImageIsNoLarger
<1>5. IsFiniteSet(before)
  BY DEF before
<1>6. /\ IsFiniteSet(before \cup given)
      /\ Cardinality(before \cup given) = Cardinality(before) + Cardinality(given) - Cardinality(before \cap given)
  BY <1>4, <1>5, FS_Union
<1>7. IsFiniteSet(before \cap given)
  BY <1>5, FS_Intersection
<1>8. /\ Cardinality(before) \in Nat /\ Cardinality(given) \in Nat
      /\ Cardinality(before \cap given) \in Nat /\ Cardinality(before \cup given) \in Nat
  BY <1>4, <1>5, <1>6, <1>7, FS_CardinalityType
<1>9. IsFiniteSet(after) /\ Cardinality(after) <= Cardinality(before \cup given) /\ Cardinality(after) \in Nat
  BY <1>3, <1>6, FS_Subset, FS_CardinalityType
<1>10. Cardinality(after) <= Cardinality(before) + Cardinality(C \ P)
  BY <1>1, <1>4, <1>6, <1>8, <1>9
<1> QED
  BY <1>1, <1>8, <1>9, <1>10 DEF before, after

-----------------------------------------------------------------------------
LEMMA CiteStarts == CiteInit => CiteIInv
<1> SUFFICES ASSUME CiteInit PROVE CiteIInv
  OBVIOUS
<1>1. CiteTyped
  BY DEF CiteInit, CiteTyped
<1>2. MarkersStand
  BY DEF CiteInit, MarkersStand
<1>3. PointersAdvance
  BY DEF CiteInit, PointersAdvance, NoNewer
<1> QED
  BY <1>1, <1>2, <1>3 DEF CiteInit, CiteIInv

(* The answer grows: what was marked keeps its place.                      *)
LEMMA MarksGrow ==
  ASSUME CiteTyped, CiteTyped',
         Len(text) <= Len(text'), \A i \in DOMAIN text : text'[i] = text[i]
  PROVE  \A m \in Marks(text) : m \in Marks(text') /\ text'[m] = text[m]
<1>1. /\ DOMAIN text = 1 .. Len(text) /\ Len(text) \in Nat
      /\ DOMAIN text' = 1 .. Len(text') /\ Len(text') \in Nat
  BY DEF CiteTyped
<1> QED
  BY <1>1 DEF Marks, Kind

LEMMA WriteTextKeepsCitations ==
  ASSUME CiteIInv, WriteText
  PROVE  CiteIInv'
<1>1. PICK d \in Deltas : text' = text \o d
  BY DEF WriteText
<1>2. /\ passages' = passages /\ native' = native /\ located' = located /\ numbered' = numbered
      /\ active' = active /\ resolution' = resolution /\ looked' = looked
      /\ candidates' = candidates /\ rejected' = rejected /\ lent' = lent
      /\ resolution = "generating"
  BY DEF WriteText
<1>3. CiteTyped /\ MarkersStand /\ PointersAdvance
  BY DEF CiteIInv
<1>4. text \in Seq(Piece) /\ d \in Seq(Piece)
  <2>1. d \in Seq(Streamed)
    BY CitationsAssumption
  <2>2. Streamed \subseteq Piece
    BY DEF Piece
  <2>3. d \in Seq(Piece)
    <3> HIDE DEF Piece
    <3> QED
      BY <2>1, <2>2
  <2> QED
    BY <1>3, <2>3 DEF CiteTyped
<1>5. /\ text' \in Seq(Piece) /\ Len(text) <= Len(text')
      /\ \A i \in DOMAIN text : text'[i] = text[i]
  BY <1>1, <1>4
<1>6. CiteTyped'
  BY <1>2, <1>3, <1>5 DEF CiteTyped
<1>7. \A m \in Marks(text) : m \in Marks(text') /\ text'[m] = text[m]
  BY <1>3, <1>5, <1>6, MarksGrow
<1>8. MarkersStand'
  BY <1>2, <1>3, <1>7 DEF MarkersStand
<1>9. PointersAdvance'
  BY <1>2, <1>3 DEF PointersAdvance, Named
<1> QED
  BY <1>2, <1>6, <1>8, <1>9 DEF CiteIInv

LEMMA CiteNativelyKeepsCitations ==
  ASSUME CiteIInv, CiteNatively
  PROVE  CiteIInv'
<1>1. /\ passages' = passages /\ native' = native
      /\ active' = active /\ resolution' = resolution /\ looked' = looked
      /\ candidates' = candidates /\ rejected' = rejected /\ lent' = lent
      /\ resolution = "generating"
  BY DEF CiteNatively
<1>2. CiteTyped /\ MarkersStand /\ PointersAdvance
  BY DEF CiteIInv
<1> DEFINE seenAt(doc) == \E n \in DOMAIN numbered : numbered[n] = doc
           numberOf(doc) == IF seenAt(doc) THEN Number(doc) ELSE Len(numbered) + 1
<1>3. PICK doc \in 1 .. Len(passages) + 1, q \in Quotes :
        /\ numbered' = IF seenAt(doc) THEN numbered ELSE Append(numbered, doc)
        /\ located' = Append(located, [doc |-> doc, quote |-> q, at |-> Len(text) + 1])
        /\ text' = Append(text, <<"mark", numberOf(doc)>>)
  BY DEF CiteNatively
<1> DEFINE num == numberOf(doc)
           new == [doc |-> doc, quote |-> q, at |-> Len(text) + 1]
<1>4. /\ text \in Seq(Piece) /\ Len(text) \in Nat /\ numbered \in Seq(Nat) /\ Len(numbered) \in Nat
      /\ located \in Seq(Located) /\ Len(located) \in Nat /\ doc \in Nat
  <2>1. Len(passages) \in Nat
    BY <1>2, PassageTypes DEF CiteTyped
  <2> QED
    BY <1>2, <2>1 DEF CiteTyped
<1>5. /\ numbered' \in Seq(Nat) /\ num \in DOMAIN numbered' /\ numbered'[num] = doc
      /\ \A n \in DOMAIN numbered : n \in DOMAIN numbered' /\ numbered'[n] = numbered[n]
      /\ \A m, n \in DOMAIN numbered' : numbered'[m] = numbered'[n] => m = n
  <2>1. CASE seenAt(doc)
    <3>1. num \in DOMAIN numbered /\ numbered[num] = doc
      BY <2>1 DEF Number
    <3> QED
      BY <1>2, <1>3, <1>4, <2>1, <3>1 DEF MarkersStand
  <2>2. CASE ~seenAt(doc)
    <3>1. num = Len(numbered) + 1 /\ numbered' = Append(numbered, doc)
      BY <1>3, <2>2
    <3>2. /\ DOMAIN numbered = 1 .. Len(numbered) /\ DOMAIN numbered' = 1 .. Len(numbered) + 1
          /\ \A n \in DOMAIN numbered : numbered'[n] = numbered[n]
          /\ numbered'[Len(numbered) + 1] = doc /\ numbered' \in Seq(Nat)
      BY <1>4, <3>1
    <3>3. ASSUME NEW m \in DOMAIN numbered', NEW n \in DOMAIN numbered', numbered'[m] = numbered'[n]
          PROVE  m = n
      <4>1. CASE m \in DOMAIN numbered /\ n \in DOMAIN numbered
        BY <1>2, <3>2, <3>3, <4>1 DEF MarkersStand
      <4>2. CASE m \notin DOMAIN numbered \/ n \notin DOMAIN numbered
        BY <1>4, <2>2, <3>2, <3>3, <4>2
      <4> QED
        BY <4>1, <4>2
    <3> HIDE DEF num
    <3> QED
      BY <1>4, <3>1, <3>2, <3>3
  <2> QED
    BY <2>1, <2>2
<1>6. num \in Nat /\ <<"mark", num>> \in Piece
  <2>1. num \in Nat
    <3> HIDE DEF num
    <3> QED
      BY <1>5
  <2> HIDE DEF num
  <2> QED
    BY <2>1 DEF Piece
<1> HIDE DEF num
<1>7. text' = Append(text, <<"mark", num>>)
  BY <1>3 DEF num
<1>8. /\ text' \in Seq(Piece) /\ Len(text') = Len(text) + 1 /\ text'[Len(text) + 1] = <<"mark", num>>
      /\ Len(text) + 1 \in DOMAIN text' /\ \A i \in DOMAIN text : text'[i] = text[i]
  <2> HIDE DEF Piece
  <2> DEFINE mark == <<"mark", num>>
  <2>1. mark \in Piece /\ text' = Append(text, mark)
    BY <1>6, <1>7
  <2> HIDE DEF mark
  <2>2. /\ text' \in Seq(Piece) /\ Len(text') = Len(text) + 1 /\ text'[Len(text) + 1] = mark
        /\ Len(text) + 1 \in DOMAIN text' /\ \A i \in DOMAIN text : text'[i] = text[i]
    BY <1>4, <2>1
  <2> QED
    BY <2>2 DEF mark
<1>9. /\ new \in Located /\ located' \in Seq(Located)
      /\ new.doc = doc /\ new.at = Len(text) + 1
  <2>1. new \in Located
    BY <1>4 DEF Located
  <2> HIDE DEF Located
  <2>2. located' \in Seq(Located)
    BY <1>3, <1>4, <2>1
  <2> QED
    BY <2>1, <2>2
<1>10. \A k \in DOMAIN located' : IF k \in DOMAIN located THEN located'[k] = located[k] ELSE located'[k] = new
  <2> HIDE DEF new
  <2>1. located' = Append(located, new)
    BY <1>3 DEF new
  <2> QED
    BY <1>4, <2>1
<1> HIDE DEF new
<1>11. CiteTyped'
  BY <1>1, <1>2, <1>5, <1>8, <1>9 DEF CiteTyped
<1>12. \A m \in Marks(text) : m \in Marks(text') /\ text'[m] = text[m]
  BY <1>2, <1>4, <1>8, <1>11, MarksGrow
<1>13. ASSUME NEW k \in DOMAIN located'
       PROVE  /\ located'[k].at \in Marks(text')
              /\ text'[located'[k].at][2] \in DOMAIN numbered'
              /\ numbered'[text'[located'[k].at][2]] = located'[k].doc
  <2>1. CASE k \in DOMAIN located
    <3>1. located'[k] = located[k]
      BY <1>10, <2>1
    <3>2. /\ located[k].at \in Marks(text) /\ text[located[k].at][2] \in DOMAIN numbered
          /\ numbered[text[located[k].at][2]] = located[k].doc
      BY <1>2, <2>1 DEF MarkersStand
    <3> QED
      BY <1>5, <1>12, <3>1, <3>2
  <2>2. CASE k \notin DOMAIN located
    <3>1. located'[k].at = Len(text) + 1 /\ located'[k].doc = doc
      BY <1>9, <1>10, <2>2
    <3>2. text'[Len(text) + 1][1] = "mark" /\ text'[Len(text) + 1][2] = num
      BY <1>8
    <3>3. Len(text) + 1 \in Marks(text')
      BY <1>8, <3>2 DEF Marks, Kind
    <3> QED
      BY <1>5, <3>1, <3>2, <3>3
  <2> QED
    BY <2>1, <2>2
<1>14. MarkersStand'
  BY <1>5, <1>13 DEF MarkersStand
<1>15. PointersAdvance'
  BY <1>1, <1>2 DEF PointersAdvance, Named
<1> QED
  BY <1>1, <1>11, <1>14, <1>15 DEF CiteIInv

LEMMA FinishAnswerKeepsCitations ==
  ASSUME CiteIInv, FinishAnswer
  PROVE  CiteIInv'
BY DEF CiteIInv, FinishAnswer, CiteTyped, MarkersStand, PointersAdvance, Named

LEMMA LookUpKeepsCitations ==
  ASSUME CiteIInv, LookUp
  PROVE  CiteIInv'
<1>1. /\ passages' = passages /\ native' = native /\ text' = text /\ located' = located
      /\ numbered' = numbered /\ active' = active /\ candidates' = candidates
      /\ rejected' = rejected /\ lent' = lent /\ resolution = "looking"
  BY DEF LookUp
<1>2. CiteTyped /\ MarkersStand /\ PointersAdvance
  BY DEF CiteIInv
<1>3. Named' = Named
  BY <1>1 DEF Named
<1>4. MarkersStand'
  BY <1>1, <1>2 DEF MarkersStand
<1>5. CASE Named \subseteq DOMAIN looked
  <2>1. resolution' = "extracting" /\ looked' = looked
    BY <1>5 DEF LookUp
  <2>2. CiteTyped'
    BY <1>1, <1>2, <2>1 DEF CiteTyped
  <2>3. PointersAdvance'
    BY <1>1, <1>2, <1>3, <1>5, <2>1 DEF PointersAdvance
  <2> QED
    BY <1>4, <2>1, <2>2, <2>3 DEF CiteIInv
<1>6. CASE ~(Named \subseteq DOMAIN looked)
  <2>1. resolution' = resolution
    BY <1>6 DEF LookUp
  <2> DEFINE entered(s, g) == looked' = [r \in DOMAIN looked \cup {s} |-> IF r = s THEN g ELSE looked[r]]
  <2>2. PICK s \in Named \ DOMAIN looked : \E g \in {active[s], NoGen} : entered(s, g)
    BY <1>6 DEF LookUp
  <2>3. PICK g \in {active[s], NoGen} : entered(s, g)
    BY <2>2
  <2>4. CiteTyped'
    BY <1>1, <1>2, <2>1 DEF CiteTyped
  <2>5. s \in Cited /\ active[s] \in Generations /\ g \in Generations
    BY <1>2, <2>3, PassageTypes DEF CiteTyped, Generations
  <2>6. NoNewer(g, active[s]) /\ \A i \in DOMAIN passages :
          passages[i].source = s => NoNewer(passages[i].gen, g)
    BY <1>2, <2>3, <2>5, CitationsAssumption DEF NoNewer, Generations, PointersAdvance
  <2>7. /\ DOMAIN looked' = DOMAIN looked \cup {s} /\ looked'[s] = g
        /\ \A r \in DOMAIN looked : looked'[r] = looked[r]
    BY <2>3
  <2>8. PointersAdvance'
    BY <1>1, <1>2, <2>1, <2>5, <2>6, <2>7 DEF PointersAdvance
  <2> QED
    BY <1>1, <1>4, <2>1, <2>4, <2>8 DEF CiteIInv
<1> QED
  BY <1>5, <1>6

LEMMA ExtractKeepsCitations ==
  ASSUME CiteIInv, Extract
  PROVE  CiteIInv'
<1>1. /\ passages' = passages /\ native' = native /\ text' = text /\ located' = located
      /\ numbered' = numbered /\ active' = active /\ looked' = looked
      /\ lent' = lent /\ resolution = "extracting"
      /\ resolution' = (IF candidates' = {} THEN "resolved" ELSE "leasing")
  BY DEF Extract
<1>2. CiteTyped /\ MarkersStand /\ PointersAdvance /\ Named \subseteq DOMAIN looked
  BY <1>1 DEF CiteIInv, PointersAdvance
<1>3. /\ \A c \in candidates' : CandidateFits(c)
      /\ IsFiniteSet(candidates') /\ IsFiniteSet(Marked \ CitesOf(candidates'))
      /\ rejected' \in Nat /\ Cardinality(Marked \ CitesOf(candidates')) <= rejected'
  <2>1. CASE UsesNative
    <3>1. candidates' = FromNative /\ rejected' = Cardinality({i \in DOMAIN located : ~NativeEarns(located[i])})
      BY <2>1 DEF Extract
    <3>2. \A c \in FromNative : CandidateFits(c)
      BY <1>2, NativeFits
    <3> QED
      BY <1>2, <2>1, <3>1, <3>2, NativeRefusals
  <2>2. CASE ~UsesNative
    <3>1. candidates' = FromMarks /\ rejected' = Cardinality({m \in Marks(text) : ~MarkEarns(m)})
      BY <2>2 DEF Extract
    <3>2. \A c \in FromMarks : CandidateFits(c)
      BY <1>2, PromptedFits
    <3> QED
      BY <1>2, <2>2, <3>1, <3>2, PromptedRefusals
  <2> QED
    BY <2>1, <2>2
<1>4. CiteTyped'
  BY <1>1, <1>2, <1>3 DEF CiteTyped
<1>5. MarkersStand' /\ PointersAdvance'
  BY <1>1, <1>2 DEF MarkersStand, PointersAdvance, Named
<1>6. RefusalsFit'
  BY <1>1, <1>3 DEF RefusalsFit, Marked, UsesNative, CitesOf
<1>7. resolution' = "leasing" => (\A c \in candidates : CandidateFits(c))'
  BY <1>1, <1>3 DEF CandidateFits, OutOfDate, ReadFor
<1>8. resolution' \in {"leased", "resolved"} => candidates' = {}
  BY <1>1
<1>9. resolution' # "leased"
  BY <1>1
<1> QED
  BY <1>4, <1>5, <1>6, <1>7, <1>8, <1>9 DEF CiteIInv

(* The lease refuses the candidate that was found again in an older         *)
(* generation: the pointer had moved past it before it was looked up.       *)
LEMMA PinnedStands ==
  ASSUME CiteTyped, PointersAdvance, NEW c, CandidateFits(c), StillActive(c)
  PROVE  c.gen = passages[c.cites].gen /\ ReadFor(c)
<1>1. c.gen # NoGen /\ active[c.source] = c.gen
  BY DEF StillActive
<1>2. ~OutOfDate(c)
  <2> SUFFICES ASSUME c.source \in DOMAIN looked, looked[c.source] # NoGen, c.gen < looked[c.source]
               PROVE  FALSE
    BY <1>1 DEF OutOfDate
  <2>1. looked[c.source] <= c.gen /\ looked[c.source] \in Generations
    BY <1>1 DEF PointersAdvance, NoNewer
  <2>2. c.gen \in Nat /\ looked[c.source] \in Nat
    BY <1>1, <2>1, CitationsAssumption DEF CandidateFits, Generations
  <2> QED
    BY <2>1, <2>2
<1> QED
  BY <1>2 DEF CandidateFits

LEMMA LeaseKeepsCitations ==
  ASSUME CiteIInv, Lease
  PROVE  CiteIInv'
<1>1. /\ passages' = passages /\ native' = native /\ text' = text /\ located' = located
      /\ numbered' = numbered /\ active' = active /\ looked' = looked
      /\ resolution = "leasing" /\ candidates' = Pinned
      /\ rejected' = rejected + Cardinality(candidates \ Pinned)
      /\ lent' = {c.source : c \in Pinned}
      /\ resolution' = (IF Pinned = {} THEN "resolved" ELSE "leased")
  BY DEF Lease
<1>2. /\ CiteTyped /\ MarkersStand /\ PointersAdvance /\ RefusalsFit
      /\ \A c \in candidates : CandidateFits(c)
  BY <1>1 DEF CiteIInv
<1>3. ASSUME NEW c \in Pinned
      PROVE  /\ ReadFor(c) /\ c.cites \in DOMAIN passages
             /\ c.source = passages[c.cites].source /\ c.gen = passages[c.cites].gen
             /\ active[c.source] = c.gen /\ c.source \in Cited
  <2>1. CandidateFits(c) /\ StillActive(c)
    BY <1>2, <1>3 DEF Pinned
  <2>2. c.gen = passages[c.cites].gen /\ ReadFor(c)
    BY <1>2, <2>1, PinnedStands
  <2>3. c.cites \in DOMAIN passages /\ c.source = passages[c.cites].source
    BY <2>1 DEF CandidateFits
  <2>4. passages[c.cites].source \in Cited
    BY <1>2, <2>3, PassageTypes DEF CiteTyped
  <2> QED
    BY <2>1, <2>2, <2>3, <2>4 DEF StillActive
<1>4. /\ IsFiniteSet(Pinned) /\ IsFiniteSet(Marked \ CitesOf(Pinned)) /\ rejected' \in Nat
      /\ Cardinality(Marked \ CitesOf(Pinned)) <= rejected'
  <2> DEFINE M == Marked
             P == Pinned
             C == candidates
  <2>1. P \in SUBSET C
    BY DEF Pinned
  <2>2. /\ IsFiniteSet(C) /\ IsFiniteSet(M \ CitesOf(C)) /\ rejected \in Nat
        /\ Cardinality(M \ CitesOf(C)) <= rejected
        /\ rejected' = rejected + Cardinality(C \ P)
    BY <1>1, <1>2 DEF RefusalsFit, CiteTyped
  <2> HIDE DEF M, P, C
  <2>3. /\ IsFiniteSet(P) /\ IsFiniteSet(M \ CitesOf(P)) /\ Cardinality(C \ P) \in Nat
        /\ Cardinality(M \ CitesOf(C)) \in Nat
        /\ Cardinality(M \ CitesOf(P)) <= Cardinality(M \ CitesOf(C)) + Cardinality(C \ P)
    BY <2>1, <2>2, RefusedLater
  <2>4. Cardinality(M \ CitesOf(P)) \in Nat
    BY <2>3, FS_CardinalityType
  <2>5. rejected' \in Nat /\ Cardinality(M \ CitesOf(P)) <= rejected'
    BY <2>2, <2>3, <2>4
  <2> QED
    BY <2>3, <2>5 DEF M, P
<1>5. RefusalsFit'
  BY <1>1, <1>4 DEF RefusalsFit, Marked, UsesNative, CitesOf
<1>6. CiteTyped'
  <2>1. lent' \subseteq Cited /\ (lent' # {} => resolution' = "leased")
    BY <1>1, <1>3
  <2> QED
    BY <1>1, <1>2, <1>4, <2>1 DEF CiteTyped
<1>7. MarkersStand' /\ PointersAdvance'
  BY <1>1, <1>2 DEF MarkersStand, PointersAdvance, Named
<1>8. (\A c \in candidates : ReadFor(c))'
  BY <1>1, <1>3 DEF ReadFor
<1>9. (\A c \in candidates : LeaseHolds(c))'
  BY <1>1, <1>3 DEF LeaseHolds
<1>10. resolution' # "leasing"
  BY <1>1
<1> QED
  BY <1>5, <1>6, <1>7, <1>8, <1>9, <1>10 DEF CiteIInv

LEMMA LeaseFailsKeepsCitations ==
  ASSUME CiteIInv, LeaseFails
  PROVE  CiteIInv'
<1>1. /\ passages' = passages /\ native' = native /\ text' = text /\ located' = located
      /\ numbered' = numbered /\ active' = active /\ looked' = looked /\ lent' = lent
      /\ resolution = "leasing" /\ candidates' = {} /\ resolution' = "resolved"
      /\ rejected' = rejected + Cardinality(candidates)
  BY DEF LeaseFails
<1>2. CiteTyped /\ MarkersStand /\ PointersAdvance /\ RefusalsFit
  BY <1>1 DEF CiteIInv
<1>3. /\ IsFiniteSet({}) /\ IsFiniteSet(Marked \ CitesOf({})) /\ rejected' \in Nat
      /\ Cardinality(Marked \ CitesOf({})) <= rejected'
  <2> DEFINE M == Marked
             C == candidates
             P == {}
  <2>1. /\ IsFiniteSet(C) /\ IsFiniteSet(M \ CitesOf(C)) /\ rejected \in Nat
        /\ Cardinality(M \ CitesOf(C)) <= rejected
        /\ rejected' = rejected + Cardinality(C \ P) /\ P \in SUBSET C
    <3>1. C \ P = C /\ P \in SUBSET C
      OBVIOUS
    <3> QED
      BY <1>1, <1>2, <3>1 DEF RefusalsFit, CiteTyped
  <2> HIDE DEF M, C, P
  <2>2. /\ IsFiniteSet(P) /\ IsFiniteSet(M \ CitesOf(P)) /\ Cardinality(C \ P) \in Nat
        /\ Cardinality(M \ CitesOf(C)) \in Nat
        /\ Cardinality(M \ CitesOf(P)) <= Cardinality(M \ CitesOf(C)) + Cardinality(C \ P)
    BY <2>1, RefusedLater
  <2>3. Cardinality(M \ CitesOf(P)) \in Nat
    BY <2>2, FS_CardinalityType
  <2>4. rejected' \in Nat /\ Cardinality(M \ CitesOf(P)) <= rejected'
    BY <2>1, <2>2, <2>3
  <2> QED
    BY <2>2, <2>4 DEF M, P
<1>4. RefusalsFit'
  BY <1>1, <1>3 DEF RefusalsFit, Marked, UsesNative, CitesOf
<1>5. CiteTyped'
  BY <1>1, <1>2, <1>3 DEF CiteTyped
<1>6. MarkersStand' /\ PointersAdvance'
  BY <1>1, <1>2 DEF MarkersStand, PointersAdvance, Named
<1> QED
  BY <1>1, <1>4, <1>5, <1>6 DEF CiteIInv

LEMMA PersistKeepsCitations ==
  ASSUME CiteIInv, PersistCited
  PROVE  CiteIInv'
<1>1. /\ passages' = passages /\ native' = native /\ text' = text /\ located' = located
      /\ numbered' = numbered /\ active' = active /\ looked' = looked /\ lent' = {}
      /\ candidates' = candidates /\ rejected' = rejected
      /\ resolution = "leased" /\ resolution' = "resolved"
  BY DEF PersistCited
<1>2. /\ CiteTyped /\ MarkersStand /\ PointersAdvance /\ RefusalsFit
      /\ \A c \in candidates : ReadFor(c)
  BY <1>1 DEF CiteIInv
<1>3. RefusalsFit'
  BY <1>1, <1>2 DEF RefusalsFit, Marked, UsesNative, CitesOf
<1>4. CiteTyped'
  BY <1>1, <1>2 DEF CiteTyped
<1>5. MarkersStand' /\ PointersAdvance'
  BY <1>1, <1>2 DEF MarkersStand, PointersAdvance, Named
<1>6. (\A c \in candidates : ReadFor(c))'
  BY <1>1, <1>2 DEF ReadFor
<1> QED
  BY <1>1, <1>3, <1>4, <1>5, <1>6 DEF CiteIInv

LEMMA ReindexKeepsCitations ==
  ASSUME CiteIInv, Reindex
  PROVE  CiteIInv'
<1>1. /\ passages' = passages /\ native' = native /\ text' = text /\ located' = located
      /\ numbered' = numbered /\ looked' = looked /\ lent' = lent
      /\ candidates' = candidates /\ rejected' = rejected /\ resolution' = resolution
  BY DEF Reindex
<1>2. CiteTyped /\ MarkersStand /\ PointersAdvance
  BY DEF CiteIInv
<1>3. PICK s \in Cited \ lent :
        \/ active[s] \in 1 .. LastGen - 1 /\ active' = [active EXCEPT ![s] = @ + 1]
        \/ active[s] # NoGen /\ active' = [active EXCEPT ![s] = NoGen]
  BY DEF Reindex
<1>4. /\ active' \in [Cited -> Generations]
      /\ \A r \in Cited : r # s => active'[r] = active[r]
      /\ active'[s] = NoGen \/ (active[s] \in Nat /\ active'[s] = active[s] + 1)
      /\ active[s] # NoGen
  <2>1. active \in [Cited -> Generations] /\ s \in Cited /\ LastGen \in Nat /\ NoGen \notin Nat
    BY <1>2, CitationsAssumption DEF CiteTyped
  <2>2. CASE active[s] \in 1 .. LastGen - 1 /\ active' = [active EXCEPT ![s] = @ + 1]
    <3>1. active[s] \in Nat /\ active[s] + 1 \in Generations /\ active[s] # NoGen
      BY <2>1, <2>2 DEF Generations
    <3> HIDE DEF Generations
    <3> QED
      BY <2>1, <2>2, <3>1
  <2>3. CASE active[s] # NoGen /\ active' = [active EXCEPT ![s] = NoGen]
    <3>1. NoGen \in Generations
      BY DEF Generations
    <3> QED
      BY <2>1, <2>3, <3>1
  <2> QED
    BY <1>3, <2>2, <2>3
<1>5. ASSUME NEW g \in Generations, NEW r \in Cited, NoNewer(g, active[r])
      PROVE  NoNewer(g, active'[r])
  BY <1>2, <1>4, <1>5, CitationsAssumption DEF NoNewer, CiteTyped, Generations
<1>6. CiteTyped'
  BY <1>1, <1>2, <1>4 DEF CiteTyped
<1>7. MarkersStand'
  BY <1>1, <1>2 DEF MarkersStand
<1>8. PointersAdvance'
  <2>1. \A i \in DOMAIN passages : passages[i].source \in Cited /\ passages[i].gen \in Generations
    BY <1>2, PassageTypes DEF CiteTyped
  <2> QED
    BY <1>1, <1>2, <1>5, <2>1 DEF PointersAdvance, Named
<1>9. resolution' = "leasing" => (\A c \in candidates : CandidateFits(c))'
  BY <1>1 DEF CiteIInv, CandidateFits, OutOfDate, ReadFor
<1>10. resolution' \in {"leased", "resolved"} => (\A c \in candidates : ReadFor(c))'
  BY <1>1 DEF CiteIInv, ReadFor
<1>11. resolution' = "leased" => (\A c \in candidates : LeaseHolds(c))'
  <2> SUFFICES ASSUME resolution = "leased", NEW c \in candidates
               PROVE  LeaseHolds(c)'
    BY <1>1
  <2>1. LeaseHolds(c)
    BY DEF CiteIInv
  <2>2. c.source # s /\ c.source \in Cited
    BY <1>2, <1>3, <2>1 DEF LeaseHolds, CiteTyped
  <2> QED
    BY <1>1, <1>4, <2>1, <2>2 DEF LeaseHolds
<1>12. resolution' \in {"leasing", "leased", "resolved"} => RefusalsFit'
  BY <1>1 DEF CiteIInv, RefusalsFit, Marked, UsesNative, CitesOf
<1> QED
  BY <1>6, <1>7, <1>8, <1>9, <1>10, <1>11, <1>12 DEF CiteIInv

LEMMA CiteStutters ==
  ASSUME CiteIInv, UNCHANGED citeVars
  PROVE  CiteIInv'
<1>1. /\ passages' = passages /\ native' = native /\ text' = text /\ located' = located
      /\ numbered' = numbered /\ active' = active /\ looked' = looked /\ lent' = lent
      /\ candidates' = candidates /\ rejected' = rejected /\ resolution' = resolution
  BY DEF citeVars
<1> QED
  BY <1>1 DEF CiteIInv, CiteTyped, MarkersStand, PointersAdvance, Named, CandidateFits, OutOfDate,
      ReadFor, LeaseHolds, RefusalsFit, Marked, UsesNative, CitesOf

LEMMA CitationsIInvImplies == CiteIInv => CitationsInv
<1> SUFFICES ASSUME CiteIInv PROVE CitationsInv
  OBVIOUS
<1>1. CiteTyped /\ PointersAdvance
  BY DEF CiteIInv
<1>2. CiteTypeOK
  <2>1. \A p \in Piece : p[1] \in PieceKinds
    BY CitationsAssumption DEF Piece, PieceKinds
  <2>2. \A i \in DOMAIN text : text[i][1] \in PieceKinds
    BY <1>1, <2>1, TextTypes
  <2> QED
    BY <1>1, <2>2 DEF CiteTypeOK, CiteTyped
<1>3. EvidenceIsPinned
  BY DEF CiteIInv, EvidenceIsPinned, LeaseHolds
<1>4. NumbersAreRead
  BY DEF CiteIInv, NumbersAreRead, ReadFor
<1>5. RefusalsAreCounted
  BY DEF CiteIInv, RefusalsAreCounted, RefusalsFit, Marked, CitesOf
<1> QED
  BY <1>2, <1>3, <1>4, <1>5 DEF CitationsInv

(* For any passages, quotes and answers, and however often sources are     *)
(* indexed again or deleted before the citations are leased: what is       *)
(* leased is in service and is the very passage cited, the number of an    *)
(* event stands outside code after a claim its passage supports, and what  *)
(* was marked and is not cited is counted (llm/citations.rs,               *)
(* api/chat/citation_resolution.rs).                                       *)
THEOREM CitationsStand == CiteSpec => []CitationsInv
<1>1. CiteIInv /\ [CiteNext]_citeVars => CiteIInv'
  BY WriteTextKeepsCitations, CiteNativelyKeepsCitations, FinishAnswerKeepsCitations,
     LookUpKeepsCitations, ExtractKeepsCitations, LeaseKeepsCitations, LeaseFailsKeepsCitations,
     PersistKeepsCitations, ReindexKeepsCitations, CiteStutters DEF CiteNext
<1> QED
  BY <1>1, CiteStarts, CitationsIInvImplies, PTL DEF CiteSpec

-----------------------------------------------------------------------------
(* Lists and running totals.                                               *)

(* What a running total is, for a list of any length.                      *)
LEMMA TotalsAdd ==
  ASSUME NEW base \in Nat, NEW prices \in Seq(Nat)
  PROVE  /\ RunningTotals(base, prices) \in [0 .. Len(prices) -> Nat]
         /\ RunningTotals(base, prices)[0] = base
         /\ \A n \in 1 .. Len(prices) :
              RunningTotals(base, prices)[n] = RunningTotals(base, prices)[n - 1] + prices[n]
<1> DEFINE Up(m) == {t \in [0 .. m -> Nat] : t[0] = base /\ \A n \in 1 .. m : t[n] = t[n - 1] + prices[n]}
           Bad == {m \in 0 .. Len(prices) : Up(m) = {}}
           N == Len(prices)
<1>1. N \in Nat /\ \A n \in 1 .. N : prices[n] \in Nat
  OBVIOUS
<1> HIDE DEF N
<1>2. Up(0) # {}
  <2> DEFINE t == [n \in 0 .. 0 |-> base]
  <2>1. t \in Up(0)
    OBVIOUS
  <2> QED
    BY <2>1
<1>3. ASSUME NEW m \in Nat, m + 1 <= N, Up(m) # {}
      PROVE  Up(m + 1) # {}
  <2>1. PICK t \in Up(m) : TRUE
    BY <1>3
  <2> DEFINE u == [n \in 0 .. m + 1 |-> IF n <= m THEN t[n] ELSE t[m] + prices[m + 1]]
  <2>2. t \in [0 .. m -> Nat] /\ t[0] = base /\ \A n \in 1 .. m : t[n] = t[n - 1] + prices[n]
    OBVIOUS
  <2>3. prices[m + 1] \in Nat /\ t[m] \in Nat
    BY <1>1, <1>3, <2>2
  <2>4. u \in [0 .. m + 1 -> Nat]
    BY <2>2, <2>3
  <2>5. u[0] = base
    BY <2>2
  <2>6. ASSUME NEW n \in 1 .. m + 1 PROVE u[n] = u[n - 1] + prices[n]
    <3>1. CASE n <= m
      BY <2>2, <3>1
    <3>2. CASE n = m + 1
      BY <2>2, <3>2
    <3> QED
      BY <3>1, <3>2
  <2>7. u \in Up(m + 1)
    BY <2>4, <2>5, <2>6
  <2> QED
    BY <2>7
<1> HIDE DEF Up
<1>4. Bad = {}
  <2> SUFFICES ASSUME Bad # {} PROVE FALSE
    OBVIOUS
  <2>1. Bad \subseteq Nat
    BY <1>1
  <2>2. PICK m \in Bad : \A k \in Bad : m <= k
    BY <2>1, LeastOf
  <2>3. m \in Nat /\ m <= N /\ Up(m) = {}
    BY <1>1 DEF N
  <2>4. m # 0
    BY <1>2, <2>3
  <2>5. m - 1 \in Nat /\ m - 1 <= N /\ m - 1 \notin Bad
    BY <1>1, <2>2, <2>3, <2>4
  <2>6. Up(m - 1) # {}
    BY <1>1, <2>5 DEF N
  <2>7. Up((m - 1) + 1) # {}
    BY <1>1, <1>3, <2>3, <2>5, <2>6
  <2> QED
    BY <2>3, <2>7
<1>5. N \in 0 .. Len(prices)
  BY <1>1 DEF N
<1>6. PICK t \in Up(N) : TRUE
  BY <1>4, <1>5
<1>7. t \in [0 .. N -> Nat] /\ t[0] = base /\ \A n \in 1 .. N : t[n] = t[n - 1] + prices[n]
  BY DEF Up
<1> DEFINE Fill(s) == [n \in 0 .. Len(prices) |-> IF n = 0 THEN base ELSE s[n - 1] + prices[n]]
           T == RunningTotals(base, prices)
<1>8. t = Fill(t)
  BY <1>1, <1>7 DEF N
<1>9. T = CHOOSE s : s = Fill(s)
  BY DEF RunningTotals
<1>10. T = Fill(T)
  <2> HIDE DEF Fill
  <2> QED
    BY <1>8, <1>9
<1> HIDE DEF T
<1>11. T = [n \in 0 .. N |-> IF n = 0 THEN base ELSE T[n - 1] + prices[n]]
  BY <1>10 DEF N
<1>12. T[0] = base /\ \A n \in 1 .. N : T[n] = T[n - 1] + prices[n]
  BY <1>1, <1>11
<1> DEFINE Off == {m \in 0 .. N : T[m] \notin Nat}
<1>13. Off = {}
  <2> SUFFICES ASSUME Off # {} PROVE FALSE
    OBVIOUS
  <2>1. Off \subseteq Nat
    BY <1>1
  <2>2. PICK m \in Off : \A k \in Off : m <= k
    BY <2>1, LeastOf
  <2>3. m \in 0 .. N /\ m # 0 /\ m - 1 \in 0 .. N /\ m - 1 \notin Off
    BY <1>1, <1>12, <2>2
  <2>4. T[m - 1] \in Nat
    BY <2>3
  <2>5. m \in 1 .. N /\ T[m] = T[m - 1] + prices[m] /\ prices[m] \in Nat
    BY <1>1, <1>12, <2>3
  <2>6. T[m] \in Nat
    BY <2>4, <2>5
  <2>7. T[m] \notin Nat
    BY <2>2
  <2> QED
    BY <2>6, <2>7
<1>14. T \in [0 .. N -> Nat]
  BY <1>11, <1>13
<1> QED
  BY <1>12, <1>14 DEF N, T

(* A total never falls.                                                    *)
LEMMA TotalsGrow ==
  ASSUME NEW base \in Nat, NEW prices \in Seq(Nat),
         NEW m \in 0 .. Len(prices), NEW n \in 0 .. Len(prices), m <= n
  PROVE  RunningTotals(base, prices)[m] <= RunningTotals(base, prices)[n]
<1> DEFINE T == RunningTotals(base, prices)
           N == Len(prices)
           Lower == {k \in 0 .. N : m <= k /\ ~(T[m] <= T[k])}
<1>1. N \in Nat /\ \A k \in 1 .. N : prices[k] \in Nat
  OBVIOUS
<1>2. T \in [0 .. N -> Nat] /\ \A k \in 1 .. N : T[k] = T[k - 1] + prices[k]
  BY TotalsAdd
<1> HIDE DEF T, N
<1>3. Lower = {}
  <2> SUFFICES ASSUME Lower # {} PROVE FALSE
    OBVIOUS
  <2>1. Lower \subseteq Nat
    BY <1>1
  <2>2. PICK k \in Lower : \A j \in Lower : k <= j
    BY <2>1, LeastOf
  <2>3. k \in 0 .. N /\ m <= k /\ ~(T[m] <= T[k]) /\ m \in 0 .. N
    BY <2>2 DEF N
  <2>4. k # m /\ k - 1 \in 0 .. N /\ m <= k - 1 /\ k \in 1 .. N
    BY <1>1, <1>2, <2>3
  <2>5. k - 1 \notin Lower
    BY <1>1, <2>2, <2>4
  <2>6. T[m] <= T[k - 1]
    BY <2>4, <2>5
  <2>7. T[k] = T[k - 1] + prices[k] /\ prices[k] \in Nat /\ T[k - 1] \in Nat /\ T[m] \in Nat /\ T[k] \in Nat
    BY <1>1, <1>2, <2>3, <2>4
  <2> QED
    BY <2>3, <2>6, <2>7
<1>4. n \in 0 .. N
  BY DEF N
<1>5. T[m] <= T[n]
  BY <1>3, <1>4
<1> QED
  BY <1>5 DEF T

(* A list of some of the prices, in their order, adds up to no more.       *)
LEMMA FewerCostNoMore ==
  ASSUME NEW base \in Nat, NEW p \in Seq(Nat), NEW q \in Seq(Nat),
         NEW f \in [1 .. Len(q) -> 1 .. Len(p)],
         \A i, j \in 1 .. Len(q) : i < j => f[i] < f[j],
         \A i \in 1 .. Len(q) : q[i] = p[f[i]]
  PROVE  RunningTotals(base, q)[Len(q)] <= RunningTotals(base, p)[Len(p)]
<1> DEFINE P == RunningTotals(base, p)
           Q == RunningTotals(base, q)
           M == Len(p)
           N == Len(q)
           place == [k \in 0 .. N |-> IF k = 0 THEN 0 ELSE f[k]]
           Dear == {k \in 0 .. N : ~(Q[k] <= P[place[k]])}
<1>1. M \in Nat /\ N \in Nat /\ f \in [1 .. N -> 1 .. M]
  OBVIOUS
<1>2. /\ P \in [0 .. M -> Nat] /\ P[0] = base /\ \A k \in 1 .. M : P[k] = P[k - 1] + p[k] /\ p[k] \in Nat
  BY TotalsAdd
<1>3. /\ Q \in [0 .. N -> Nat] /\ Q[0] = base /\ \A k \in 1 .. N : Q[k] = Q[k - 1] + q[k] /\ q[k] \in Nat
  BY TotalsAdd
<1>4. \A k, l \in 0 .. M : k <= l => P[k] <= P[l]
  BY TotalsGrow
<1>5. /\ \A i, j \in 1 .. N : i < j => f[i] < f[j]
      /\ \A i \in 1 .. N : q[i] = p[f[i]]
  OBVIOUS
<1> HIDE DEF M, N
<1>6. place \in [0 .. N -> 0 .. M] /\ place[0] = 0 /\ \A k \in 1 .. N : place[k] = f[k]
  BY <1>1
<1> HIDE DEF P, Q, place
<1>7. Dear = {}
  <2> SUFFICES ASSUME Dear # {} PROVE FALSE
    OBVIOUS
  <2>1. Dear \subseteq Nat
    BY <1>1
  <2>2. PICK k \in Dear : \A j \in Dear : k <= j
    BY <2>1, LeastOf
  <2>3. k \in 0 .. N /\ ~(Q[k] <= P[place[k]])
    BY <2>2
  <2>4. k # 0
    BY <1>2, <1>3, <1>6, <2>3
  <2>5. k \in 1 .. N /\ k - 1 \in 0 .. N /\ f[k] \in 1 .. M /\ place[k] = f[k]
    BY <1>1, <1>6, <2>3, <2>4
  <2>6. k - 1 \notin Dear
    BY <1>1, <2>2, <2>5
  <2>7. Q[k - 1] <= P[place[k - 1]]
    BY <2>5, <2>6
  <2>8. place[k - 1] \in 0 .. M /\ place[k - 1] <= f[k] - 1 /\ f[k] - 1 \in 0 .. M
    <3>1. CASE k - 1 = 0
      BY <1>1, <1>6, <2>5, <3>1
    <3>2. CASE k - 1 # 0
      <4>1. k - 1 \in 1 .. N /\ k - 1 < k
        BY <1>1, <2>5, <3>2
      <4>2. f[k - 1] < f[k] /\ f[k - 1] \in 1 .. M
        BY <1>1, <1>5, <2>5, <4>1
      <4> QED
        BY <1>1, <1>6, <2>5, <4>1, <4>2, SMTT(30)
    <3> QED
      BY <3>1, <3>2
  <2>9. P[place[k - 1]] <= P[f[k] - 1]
    BY <1>4, <2>8
  <2>10. P[f[k]] = P[f[k] - 1] + p[f[k]] /\ Q[k] = Q[k - 1] + q[k] /\ q[k] = p[f[k]]
    BY <1>2, <1>3, <1>5, <2>5
  <2>11. /\ P[f[k]] \in Nat /\ P[f[k] - 1] \in Nat /\ P[place[k - 1]] \in Nat
         /\ Q[k] \in Nat /\ Q[k - 1] \in Nat /\ q[k] \in Nat
    <3>1. P \in [0 .. M -> Nat] /\ Q \in [0 .. N -> Nat]
      BY <1>2, <1>3
    <3>2. f[k] \in 0 .. M /\ f[k] - 1 \in 0 .. M /\ place[k - 1] \in 0 .. M
      BY <1>1, <2>5, <2>8
    <3>3. P[f[k]] \in Nat /\ P[f[k] - 1] \in Nat /\ P[place[k - 1]] \in Nat
      BY <3>1, <3>2
    <3>4. Q[k] \in Nat /\ Q[k - 1] \in Nat
      BY <2>5, <3>1
    <3>5. q[k] \in Nat
      BY <1>3, <2>5
    <3> QED
      BY <3>3, <3>4, <3>5
  <2>12. Q[k] <= P[f[k]]
    <3> DEFINE c == P[f[k]]
               d == P[f[k] - 1]
               e == P[place[k - 1]]
               g == p[f[k]]
    <3>1. /\ c \in Nat /\ d \in Nat /\ e \in Nat /\ Q[k] \in Nat /\ Q[k - 1] \in Nat /\ q[k] \in Nat
          /\ Q[k - 1] <= e /\ e <= d /\ c = d + g /\ Q[k] = Q[k - 1] + q[k] /\ q[k] = g
      BY <2>7, <2>9, <2>10, <2>11
    <3> HIDE DEF c, d, e, g
    <3>2. Q[k] <= c
      BY <3>1
    <3> QED
      BY <3>2 DEF c
  <2> QED
    BY <2>3, <2>5, <2>12
<1>8. Q[N] <= P[place[N]] /\ place[N] \in 0 .. M
  BY <1>1, <1>7, <1>6
<1>9. P[place[N]] <= P[M] /\ P[place[N]] \in Nat /\ P[M] \in Nat /\ Q[N] \in Nat
  BY <1>1, <1>2, <1>3, <1>4, <1>8
<1>10. Q[N] <= P[M]
  BY <1>8, <1>9
<1> QED
  BY <1>10 DEF P, Q, M, N

LEMMA EntryTypes ==
  /\ RegionOverhead(FALSE) \in Nat /\ RegionOverhead(TRUE) = 0
  /\ \A size \in Nat, apart \in BOOLEAN :
       EntryTokens(apart, size) \in Nat /\ EntryTokens(apart, size) <= EntryTokens(FALSE, size)
BY BudgetAssumption DEF RegionOverhead, EntryTokens

LEMMA SizesAreKnown ==
  \A c \in Chunks : SizeOf[c] \in Contexts /\ SizeOf[c].whole \in Nat /\ SizeOf[c].child \in Nat
BY ContextAssumption, BudgetAssumption

LEMMA PricesAreNumbers ==
  ASSUME NEW s \in Seq(Chunks)
  PROVE  /\ Prices(s) \in Seq(Nat) /\ Len(Prices(s)) = Len(s)
         /\ \A i \in 1 .. Len(s) : Prices(s)[i] = EntryTokens(FALSE, SizeOf[s[i]].whole)
<1>1. Len(s) \in Nat /\ DOMAIN s = 1 .. Len(s) /\ \A i \in 1 .. Len(s) : s[i] \in Chunks
  OBVIOUS
<1>2. \A i \in 1 .. Len(s) : EntryTokens(FALSE, SizeOf[s[i]].whole) \in Nat
  BY <1>1, SizesAreKnown, EntryTypes
<1>3. Prices(s) = [i \in 1 .. Len(s) |-> EntryTokens(FALSE, SizeOf[s[i]].whole)]
  BY <1>1 DEF Prices
<1>4. Prices(s) \in [1 .. Len(s) -> Nat]
  BY <1>2, <1>3
<1>5. Prices(s) \in Seq(Nat) /\ Len(Prices(s)) = Len(s)
  BY <1>1, <1>4
<1> QED
  BY <1>3, <1>5

(* Part of a notebook that may be stuffed may be stuffed.                  *)
LEMMA PartFits ==
  ASSUME NEW s \in Seq(Chunks), NEW t \in Seq(Chunks),
         NEW f \in [1 .. Len(t) -> 1 .. Len(s)],
         \A i, j \in 1 .. Len(t) : i < j => f[i] < f[j],
         \A i \in 1 .. Len(t) : t[i] = s[f[i]],
         EvidenceAllowance(turn) \in Nat, ~StuffedCostOver(s)
  PROVE  ~StuffedCostOver(t)
<1> SUFFICES ASSUME t # <<>>, StuffedCost(t) > EvidenceAllowance(turn) PROVE FALSE
  BY DEF StuffedCostOver
<1> DEFINE p == Prices(s)
           q == Prices(t)
           base == RegionOverhead(FALSE)
<1>1. /\ p \in Seq(Nat) /\ Len(p) = Len(s)
      /\ \A i \in 1 .. Len(s) : p[i] = EntryTokens(FALSE, SizeOf[s[i]].whole)
      /\ q \in Seq(Nat) /\ Len(q) = Len(t)
      /\ \A i \in 1 .. Len(t) : q[i] = EntryTokens(FALSE, SizeOf[t[i]].whole)
  BY PricesAreNumbers
<1>2. base \in Nat
  BY EntryTypes
<1> HIDE DEF p, q, base
<1>3. \A i \in 1 .. Len(t) : f[i] \in 1 .. Len(s) /\ q[i] = p[f[i]]
  BY <1>1
<1>4. RunningTotals(base, q)[Len(q)] <= RunningTotals(base, p)[Len(p)]
  <2>1. /\ f \in [1 .. Len(q) -> 1 .. Len(p)]
        /\ \A i, j \in 1 .. Len(q) : i < j => f[i] < f[j]
        /\ \A i \in 1 .. Len(q) : q[i] = p[f[i]]
    BY <1>1, <1>3
  <2> QED
    BY <1>1, <1>2, <2>1, FewerCostNoMore
<1>5. s # <<>>
  <2>1. 1 \in 1 .. Len(t)
    OBVIOUS
  <2>2. f[1] \in 1 .. Len(s)
    BY <2>1
  <2> QED
    BY <2>2
<1>6. RunningTotals(base, p)[Len(p)] <= EvidenceAllowance(turn)
  <2>1. Len(p) \in 0 .. Len(p)
    BY <1>1
  <2>2. RunningTotals(base, p)[Len(p)] \in Nat
    BY <1>1, <1>2, <2>1, TotalsAdd
  <2>3. ~(RunningTotals(base, p)[Len(p)] > EvidenceAllowance(turn))
    BY <1>1, <1>5 DEF StuffedCostOver, StuffedCost, p, base
  <2> QED
    BY <2>2, <2>3
<1>7. /\ RunningTotals(base, q)[Len(q)] \in Nat /\ RunningTotals(base, p)[Len(p)] \in Nat
  <2>1. Len(p) \in 0 .. Len(p) /\ Len(q) \in 0 .. Len(q)
    BY <1>1
  <2> QED
    BY <1>1, <1>2, <2>1, TotalsAdd
<1>8. RunningTotals(base, q)[Len(q)] <= EvidenceAllowance(turn)
  BY <1>4, <1>6, <1>7
<1>9. StuffedCost(t) = RunningTotals(base, q)[Len(q)]
  BY <1>1 DEF StuffedCost, q, base
<1> QED
  BY <1>7, <1>8, <1>9

Distinct(s) == \A i, j \in DOMAIN s : ParentOf[s[i]] = ParentOf[s[j]] => i = j

LEMMA CollapseKeepsOne ==
  ASSUME NEW s \in Seq(Chunks), EvidenceAllowance(turn) \in Nat
  PROVE  /\ CollapseParents(s) \in Seq(Chunks) /\ Distinct(CollapseParents(s))
         /\ ~StuffedCostOver(s) => ~StuffedCostOver(CollapseParents(s))
<1> DEFINE S == {i \in DOMAIN s : \A j \in 1 .. i - 1 : ParentOf[s[j]] # ParentOf[s[i]]}
           t == Picked(s, S)
           f == Ascending(S)
           n == Cardinality(S)
<1>1. S \in SUBSET (DOMAIN s) /\ DOMAIN s = 1 .. Len(s) /\ Len(s) \in Nat
  OBVIOUS
<1>2. /\ n \in Nat /\ Len(t) = n /\ t \in Seq(Chunks) /\ f \in [1 .. n -> S]
      /\ \A k, l \in 1 .. n : k < l => f[k] < f[l]
      /\ \A k \in 1 .. n : t[k] = s[f[k]]
  <2> HIDE DEF S
  <2> QED
    BY <1>1, PickedInOrder
<1>3. CollapseParents(s) = t
  BY DEF CollapseParents
<1>4. \A i, j \in S : i < j => ParentOf[s[i]] # ParentOf[s[j]]
  BY <1>1
<1> HIDE DEF S, t, f, n
<1>5. \A k, l \in 1 .. n : k < l => ParentOf[t[k]] # ParentOf[t[l]]
  BY <1>2, <1>4
<1>6. Distinct(t)
  <2> SUFFICES ASSUME NEW i \in 1 .. n, NEW j \in 1 .. n, ParentOf[t[i]] = ParentOf[t[j]]
               PROVE  i = j
    BY <1>2 DEF Distinct
  <2>1. ~(i < j) /\ ~(j < i)
    BY <1>5
  <2> QED
    BY <2>1
<1>7. f \in [1 .. Len(t) -> 1 .. Len(s)]
  BY <1>1, <1>2
<1>8. ~StuffedCostOver(s) => ~StuffedCostOver(t)
  <2>1. (\A i, j \in 1 .. Len(t) : i < j => f[i] < f[j]) /\ \A i \in 1 .. Len(t) : t[i] = s[f[i]]
    BY <1>2
  <2> QED
    BY <1>2, <1>7, <2>1, PartFits
<1> QED
  BY <1>2, <1>3, <1>6, <1>8

LEMMA FinalSelection ==
  ASSUME NEW s \in Seq(Chunks), Distinct(s), EvidenceAllowance(turn) \in Nat
  PROVE  /\ SelectFinal(s) \in Seq(Chunks) /\ Distinct(SelectFinal(s)) /\ Len(SelectFinal(s)) \in 0 .. Limit
         /\ ~StuffedCostOver(s) => ~StuffedCostOver(SelectFinal(s))
<1> DEFINE n == Smaller(Len(s), Limit)
           t == SelectFinal(s)
           f == [i \in 1 .. n |-> i]
<1>1. n \in Nat /\ n <= Len(s) /\ n <= Limit /\ Len(s) \in Nat /\ Limit \in Nat
  BY ContextAssumption DEF Smaller
<1> HIDE DEF n
<1>2. t = SubSeq(s, 1, n)
  BY DEF SelectFinal, n
<1>3. t \in Seq(Chunks) /\ Len(t) = n /\ \A i \in 1 .. n : t[i] = s[i]
  BY <1>1, <1>2
<1> HIDE DEF t
<1>4. Distinct(t)
  BY <1>1, <1>3 DEF Distinct
<1>5. f \in [1 .. Len(t) -> 1 .. Len(s)]
  BY <1>1, <1>3
<1>6. (\A i, j \in 1 .. Len(t) : i < j => f[i] < f[j]) /\ \A i \in 1 .. Len(t) : t[i] = s[f[i]]
  BY <1>1, <1>3
<1> HIDE DEF f
<1>7. ~StuffedCostOver(s) => ~StuffedCostOver(t)
  BY <1>3, <1>5, <1>6, PartFits
<1> QED
  BY <1>1, <1>3, <1>4, <1>7 DEF t

LEMMA RankingsAreLists ==
  ASSUME NEW S, IsFiniteSet(S), NEW s \in Rankings(S)
  PROVE  s \in Seq(S) /\ \A i, j \in DOMAIN s : i # j => s[i] # s[j]
<1>1. PICK T \in SUBSET S : s \in SetToSeqs(T)
  BY DEF Rankings
<1>2. Cardinality(T) \in Nat
  BY FS_Subset, FS_CardinalityType
<1>3. s \in [1 .. Cardinality(T) -> T] /\ \A i, j \in 1 .. Cardinality(T) : i # j => s[i] # s[j]
  BY <1>1 DEF SetToSeqs
<1>4. s \in Seq(T)
  BY <1>2, <1>3
<1> QED
  BY <1>3, <1>4

(* The best first, and everything once.                                    *)
LEMMA PresentedWhole ==
  ASSUME NEW o, o.ranking \in Seq(Chunks), Distinct(o.ranking), o.ranking # <<>>
  PROVE  /\ Presented(o) \in Seq(Chunks) /\ Len(Presented(o)) = Len(o.ranking)
         /\ Presented(o)[1] = o.ranking[1] /\ Distinct(Presented(o))
         /\ Stuffed(o) => Presented(o) = o.ranking
<1> DEFINE s == o.ranking
           n == Len(s)
           t == SandwichOrder(s)
<1>1. CASE o.order = "ranked" /\ n >= 3
  <2>1. Presented(o) = t
    BY <1>1 DEF Presented
  <2>2. s \in Seq(Chunks) /\ n \in Nat
    OBVIOUS
  <2> DEFINE m == SubSeq(s, 3, n)
  <2>3. m \in Seq(Chunks) /\ Len(m) = n - 2 /\ \A i \in 1 .. n - 2 : m[i] = s[i + 2]
    BY <1>1, <2>2
  <2>4. t = <<s[1]>> \o m \o <<s[2]>>
    BY DEF SandwichOrder
  <2>5. <<s[1]>> \in Seq(Chunks) /\ <<s[2]>> \in Seq(Chunks) /\ Len(<<s[1]>>) = 1 /\ Len(<<s[2]>>) = 1
    BY <1>1, <2>2
  <2> HIDE DEF m
  <2>6. /\ t \in Seq(Chunks) /\ Len(t) = n
        /\ \A i \in 1 .. n : t[i] = IF i = 1 THEN s[1] ELSE IF i = n THEN s[2] ELSE s[i + 1]
    <3> DEFINE h == <<s[1]>> \o m
    <3>1. h \in Seq(Chunks) /\ Len(h) = n - 1 /\ \A i \in 1 .. n - 1 : h[i] = IF i = 1 THEN s[1] ELSE m[i - 1]
      BY <1>1, <2>3, <2>5
    <3>2. t = h \o <<s[2]>>
      BY <2>4
    <3> HIDE DEF h
    <3>3. t \in Seq(Chunks) /\ Len(t) = n /\ \A i \in 1 .. n : t[i] = IF i = n THEN s[2] ELSE h[i]
      BY <1>1, <2>5, <3>1, <3>2
    <3>4. \A i \in 1 .. n - 1 : i # 1 => i - 1 \in 1 .. n - 2 /\ m[i - 1] = s[i + 1]
      BY <1>1, <2>2, <2>3
    <3> HIDE DEF t, s
    <3>5. \A i \in 1 .. n : t[i] = IF i = 1 THEN s[1] ELSE IF i = n THEN s[2] ELSE s[i + 1]
      BY <1>1, <2>2, <3>1, <3>3, <3>4
    <3> QED
      BY <3>3, <3>5
  <2>7. Distinct(t)
    <3> DEFINE place(i) == IF i = 1 THEN 1 ELSE IF i = n THEN 2 ELSE i + 1
    <3>1. \A i \in 1 .. n : place(i) \in 1 .. n /\ t[i] = s[place(i)]
      BY <1>1, <2>2, <2>6
    <3>2. \A i, j \in 1 .. n : place(i) = place(j) => i = j
      BY <1>1, <2>2
    <3>3. \A i, j \in 1 .. n : ParentOf[s[i]] = ParentOf[s[j]] => i = j
      BY <2>2 DEF Distinct
    <3>4. DOMAIN t = 1 .. n
      BY <2>2, <2>6
    <3> HIDE DEF place, t, s, n
    <3>5. \A i, j \in 1 .. n : ParentOf[t[i]] = ParentOf[t[j]] => i = j
      BY <3>1, <3>2, <3>3
    <3> QED
      BY <3>4, <3>5 DEF Distinct
  <2> QED
    BY <1>1, <2>1, <2>6, <2>7 DEF Stuffed
<1>2. CASE ~(o.order = "ranked" /\ n >= 3)
  <2>1. Presented(o) = s
    BY <1>2 DEF Presented
  <2> QED
    BY <2>1
<1> QED
  BY <1>1, <1>2

(* As many parents as contexts.                                            *)
LEMMA ParentsAreCounted ==
  ASSUME NEW s \in Seq(Chunks), Distinct(s)
  PROVE  Cardinality(Parents(s)) = Len(s)
<1> DEFINE n == Len(s)
           P == Parents(s)
           f == [i \in 1 .. n |-> ParentOf[s[i]]]
<1>1. n \in Nat /\ DOMAIN s = 1 .. n
  OBVIOUS
<1>2. P = {ParentOf[s[i]] : i \in 1 .. n}
  BY DEF Parents
<1>3. \A i, j \in 1 .. n : ParentOf[s[i]] = ParentOf[s[j]] => i = j
  BY DEF Distinct
<1> HIDE DEF n, P
<1>4. f \in Bijection(1 .. n, P)
  BY <1>2, <1>3 DEF Bijection, Injection, Surjection, IsInjective
<1>5. IsFiniteSet(1 .. n) /\ Cardinality(1 .. n) = n
  BY <1>1, FS_Interval
<1> HIDE DEF f
<1>6. ExistsBijection(1 .. n, P)
  BY <1>4 DEF ExistsBijection
<1>7. Cardinality(P) = n
  BY <1>5, <1>6, FS_Bijection
<1> QED
  BY <1>7 DEF P, n

-----------------------------------------------------------------------------
(* The budgeting pass.                                                     *)

Allocated == phase \notin {"ready", "tooLarge"}
Fitted == phase \in {"history", "check", "sent", "overBudget"}

(* What each stage has left for the ones after it.                         *)
BudgetFits ==
  /\ phase = "ready" => selected = <<>> /\ kept = 0 /\ historySpent = 0 /\ region = 0
  /\ Allocated =>
       ~Refuses(turn) /\ memoryKept = KeepsMemory(turn) /\ evidenceBudget = EvidenceAllowance(turn)
  /\ phase = "evidence" =>
       /\ remaining = Remaining(turn) /\ kept = 0 /\ historySpent = 0
       /\ selected # <<>> => spent <= evidenceBudget
  /\ Fitted =>
       /\ selected # <<>> /\ spent <= evidenceBudget
       /\ remaining = Remaining(turn) - spent /\ historySpent <= remaining
  /\ (phase = "evidence" \/ Fitted) /\ ~turn.native =>
       spent = RegionOverhead(FALSE) + region + Len(selected)
  /\ phase = "overBudget" => ~Admits

BudgetIInv == BudgetTypeOK /\ BudgetFits

LEMMA TurnTypes ==
  ASSUME NEW t \in Turns
  PROVE  /\ t.native \in BOOLEAN /\ t.instructions \in Nat /\ t.question \in Nat /\ t.memory \in Nat
         /\ t.history \in Seq(Nat)
BY BudgetAssumption DEF Inputs

LEMMA ConstantsAreNumbers ==
  /\ Window \in Nat /\ Output \in Nat /\ MinReserve \in Nat /\ RequestOverhead \in Nat
  /\ NativeEnvelope \in Nat /\ RegionTags \in Nat /\ Markup \in Nat /\ MaxMessage \in Nat
  /\ MessageOverhead \in Nat /\ MessageOverhead > 0
BY BudgetAssumption

(* The window, divided.                                                    *)
LEMMA WindowIsDivided ==
  ASSUME NEW t \in Turns
  PROVE  /\ EvidenceAllowance(t) \in Nat
         /\ ~Refuses(t) =>
              /\ Remaining(t) \in Nat /\ EvidenceAllowance(t) <= Remaining(t)
              /\ RequestOverhead + t.instructions + t.question + MessageOverhead
                   + (IF KeepsMemory(t) THEN t.memory ELSE 0) + Remaining(t) + Output + Reserve = Window
<1> DEFINE A == PromptAllowance
           M == Mandatory(t)
           K == IF KeepsMemory(t) THEN t.memory ELSE 0
           R == Remaining(t)
<1>1. /\ Reserve \in Nat /\ EvidenceCap \in Nat
  BY ConstantsAreNumbers DEF Reserve, EvidenceCap, Larger
<1>2. M \in Nat /\ M > 0 /\ M = t.instructions + t.question + MessageOverhead
  BY ConstantsAreNumbers, TurnTypes DEF Mandatory
<1>3. A \in Nat /\ (A > 0 => A = Window - Reserve - Output - RequestOverhead)
  BY <1>1, ConstantsAreNumbers DEF PromptAllowance, SaturatingSub, Larger
<1>4. /\ K \in Nat /\ (~Refuses(t) => K <= A - M)
  <2>1. KeepsMemory(t) => t.memory <= A - M
    BY DEF KeepsMemory
  <2> QED
    BY <1>2, <1>3, <2>1, TurnTypes DEF Refuses
<1>5. R = A - M - K
  BY DEF Remaining
<1> HIDE DEF A, M, K, R
<1>6. ~Refuses(t) => /\ R \in Nat /\ RequestOverhead + M + K + R + Output + Reserve = Window
  <2> SUFFICES ASSUME ~Refuses(t)
               PROVE  /\ R \in Nat /\ RequestOverhead + M + K + R + Output + Reserve = Window
    OBVIOUS
  <2>1. M <= A
    BY <1>2, <1>3 DEF Refuses, M, A
  <2> QED
    BY <1>1, <1>2, <1>3, <1>4, <1>5, <2>1, ConstantsAreNumbers
<1>7. EvidenceAllowance(t) \in Nat /\ (~Refuses(t) => EvidenceAllowance(t) <= R)
  BY <1>1, <1>6 DEF EvidenceAllowance, Smaller, R
<1>8. ~Refuses(t) =>
        RequestOverhead + t.instructions + t.question + MessageOverhead + K + R + Output + Reserve = Window
  <2> DEFINE i == t.instructions
             q == t.question
  <2>1. i \in Nat /\ q \in Nat /\ M = i + q + MessageOverhead
    BY <1>2, TurnTypes
  <2> HIDE DEF i, q
  <2>2. ~Refuses(t) => RequestOverhead + i + q + MessageOverhead + K + R + Output + Reserve = Window
    BY <1>1, <1>4, <1>6, <2>1, ConstantsAreNumbers
  <2> QED
    BY <2>2 DEF i, q
<1> QED
  BY <1>6, <1>7, <1>8 DEF R, K

LEMMA BudgetStarts == BudgetInit => BudgetIInv
<1> SUFFICES ASSUME BudgetInit PROVE BudgetIInv
  OBVIOUS
<1>1. Len(turn.history) \in Nat
  BY TurnTypes DEF BudgetInit
<1>2. BudgetTypeOK
  <2>1. evidence = <<>> /\ selected = <<>> /\ kept = 0
    BY DEF BudgetInit
  <2>2. evidence \in Seq(Contexts) /\ selected \in Seq({"whole", "child"}) /\ Len(selected) <= Len(evidence)
    BY <2>1
  <2>3. kept \in 0 .. Len(turn.history)
    BY <1>1, <2>1
  <2> QED
    BY <2>2, <2>3 DEF BudgetInit, BudgetTypeOK, Phases
<1>3. BudgetFits
  BY DEF BudgetInit, BudgetFits, Allocated, Fitted
<1> QED
  BY <1>2, <1>3 DEF BudgetIInv

LEMMA AllocateKeepsBudget ==
  ASSUME BudgetIInv, NEW contexts \in Seq(Contexts), Allocate(contexts)
  PROVE  BudgetIInv' /\ phase' \in {"tooLarge", "evidence"} /\ evidence' = contexts /\ selected' = <<>>
<1>1. BudgetTypeOK /\ BudgetFits
  BY DEF BudgetIInv
<1>2. turn \in Turns /\ phase = "ready" /\ selected = <<>> /\ kept = 0 /\ historySpent = 0 /\ region = 0
  BY <1>1 DEF BudgetTypeOK, BudgetFits, Allocate
<1>3. /\ UNCHANGED <<turn, selected, region, kept, historySpent>> /\ evidence' = contexts
  BY DEF Allocate
<1>4. CASE Refuses(turn)
  <2>1. phase' = "tooLarge" /\ UNCHANGED <<memoryKept, evidenceBudget, remaining, spent>>
    BY <1>4 DEF Allocate
  <2>2. BudgetTypeOK'
    BY <1>1, <1>2, <1>3, <2>1 DEF BudgetTypeOK, Phases
  <2>3. BudgetFits'
    BY <2>1 DEF BudgetFits, Allocated, Fitted
  <2> QED
    BY <1>2, <1>3, <2>1, <2>2, <2>3 DEF BudgetIInv
<1>5. CASE ~Refuses(turn)
  <2>1. /\ phase' = "evidence" /\ memoryKept' = KeepsMemory(turn) /\ remaining' = Remaining(turn)
        /\ evidenceBudget' = EvidenceAllowance(turn) /\ spent' = RegionOverhead(turn.native)
    BY <1>5 DEF Allocate
  <2>2. /\ KeepsMemory(turn) \in BOOLEAN /\ Remaining(turn) \in Nat /\ EvidenceAllowance(turn) \in Nat
        /\ RegionOverhead(turn.native) \in Nat /\ RegionOverhead(FALSE) \in Nat
    BY <1>2, <1>5, WindowIsDivided, TurnTypes, EntryTypes DEF KeepsMemory, RegionOverhead
  <2>3. BudgetTypeOK'
    <3>1. evidenceBudget' \in Nat /\ remaining' \in Nat /\ spent' \in Nat /\ region' \in Nat /\ historySpent' \in Nat
      BY <1>2, <1>3, <2>1, <2>2
    <3>2. selected' = <<>> /\ Len(selected') <= Len(evidence') /\ selected' \in Seq({"whole", "child"})
      BY <1>2, <1>3
    <3>3. kept' \in 0 .. Len(turn'.history) /\ turn' = turn
      BY <1>1, <1>3 DEF BudgetTypeOK
    <3> QED
      BY <1>2, <1>3, <2>1, <2>2, <3>1, <3>2, <3>3 DEF BudgetTypeOK, Phases
  <2>4. KeepsMemory(turn)' = KeepsMemory(turn) /\ Remaining(turn)' = Remaining(turn)
        /\ EvidenceAllowance(turn)' = EvidenceAllowance(turn) /\ Refuses(turn)' = Refuses(turn)
    BY <1>3
  <2>5. Len(selected') = 0
    BY <1>2, <1>3
  <2>6. ~turn.native => spent' = RegionOverhead(FALSE) + region' + Len(selected')
    <3>1. ~turn.native => RegionOverhead(turn.native) = RegionOverhead(FALSE)
      BY DEF RegionOverhead
    <3> DEFINE r == RegionOverhead(FALSE)
    <3>2. region' = 0 /\ r \in Nat
      BY <1>2, <1>3, EntryTypes
    <3>3. ~turn.native => spent' = r
      BY <2>1, <3>1
    <3> HIDE DEF r
    <3>4. ~turn.native => spent' = r + region' + Len(selected')
      BY <2>5, <3>2, <3>3
    <3> QED
      BY <3>4 DEF r
  <2>7. BudgetFits'
    BY <1>2, <1>3, <1>5, <2>1, <2>4, <2>6 DEF BudgetFits, Allocated, Fitted
  <2> QED
    BY <1>2, <1>3, <2>1, <2>3, <2>7 DEF BudgetIInv
<1> QED
  BY <1>4, <1>5

(* The size of what is taken of the context in hand.                       *)
LEMMA AdmitTakes ==
  ASSUME BudgetTypeOK, NEW form \in {"whole", "child"}, Admit(form)
  PROVE  \E size \in Nat :
           /\ size = IF form = "whole" THEN InHand.whole ELSE InHand.child
           /\ Fits(size)
           /\ spent' = spent + EntryTokens(turn.native, size) /\ region' = region + Markup + size
           /\ EntryTokens(turn.native, size) \in Nat
           /\ Len(selected) + 1 \in 1 .. Len(evidence) /\ InHand \in Contexts
<1>1. /\ evidence \in Seq(Contexts) /\ selected \in Seq({"whole", "child"}) /\ turn \in Turns
  BY DEF BudgetTypeOK
<1>2. Len(selected) \in Nat /\ Len(selected) < Len(evidence) /\ Len(evidence) \in Nat
  BY <1>1 DEF Admit
<1>3. InHand \in Contexts /\ InHand.whole \in Nat /\ InHand.child \in Nat
  BY <1>1, <1>2, BudgetAssumption, SMTT(30) DEF InHand
<1> DEFINE size == IF form = "whole" THEN InHand.whole ELSE InHand.child
<1>4. Fits(size) /\ spent' = spent + EntryTokens(turn.native, size) /\ region' = region + Markup + size
  BY DEF Admit
<1>5. size \in Nat /\ turn.native \in BOOLEAN
  BY <1>1, <1>3, TurnTypes
<1>6. EntryTokens(turn.native, size) \in Nat
  BY <1>5, EntryTypes
<1> QED
  BY <1>2, <1>3, <1>4, <1>5, <1>6

LEMMA AdmitKeepsBudget ==
  ASSUME BudgetIInv, NEW form \in {"whole", "child"}, Admit(form)
  PROVE  BudgetIInv'
<1>1. BudgetTypeOK /\ BudgetFits
  BY DEF BudgetIInv
<1>2. /\ phase = "evidence" /\ selected' = Append(selected, form)
      /\ UNCHANGED <<turn, phase, memoryKept, evidenceBudget, remaining, evidence, kept, historySpent>>
  BY DEF Admit
<1>3. PICK size \in Nat :
        /\ Fits(size)
        /\ spent' = spent + EntryTokens(turn.native, size) /\ region' = region + Markup + size
        /\ EntryTokens(turn.native, size) \in Nat
        /\ Len(selected) + 1 \in 1 .. Len(evidence)
  BY <1>1, AdmitTakes
<1>4. /\ spent \in Nat /\ region \in Nat /\ selected \in Seq({"whole", "child"}) /\ turn \in Turns
      /\ evidenceBudget \in Nat
  BY <1>1 DEF BudgetTypeOK
<1>5. /\ selected' \in Seq({"whole", "child"}) /\ Len(selected') = Len(selected) + 1 /\ selected' # <<>>
      /\ Len(selected) \in Nat
  BY <1>2, <1>4
<1>6. spent' \in Nat /\ region' \in Nat /\ spent' <= evidenceBudget
  BY <1>3, <1>4, ConstantsAreNumbers DEF Fits
<1>7. ~turn.native => spent' = RegionOverhead(FALSE) + region' + Len(selected')
  <2> SUFFICES ASSUME ~turn.native PROVE spent' = RegionOverhead(FALSE) + region' + Len(selected')
    OBVIOUS
  <2>1. EntryTokens(turn.native, size) = size + Markup + 1
    BY ConstantsAreNumbers, TurnTypes, <1>4 DEF EntryTokens
  <2>2. spent = RegionOverhead(FALSE) + region + Len(selected)
    BY <1>1, <1>2 DEF BudgetFits
  <2> DEFINE k == Len(selected)
             r == RegionOverhead(FALSE)
  <2>3. k \in Nat /\ r \in Nat /\ Markup \in Nat
    BY <1>5, EntryTypes, ConstantsAreNumbers
  <2>4. spent = r + region + k /\ spent' = spent + (size + Markup + 1) /\ region' = region + Markup + size
    BY <1>3, <2>1, <2>2
  <2> HIDE DEF k, r
  <2>5. spent' = r + region' + (k + 1)
    BY <1>4, <2>3, <2>4
  <2> QED
    BY <1>5, <2>5 DEF k, r
<1>8. BudgetTypeOK'
  <2>1. evidenceBudget' \in Nat /\ remaining' \in Nat /\ spent' \in Nat /\ region' \in Nat /\ historySpent' \in Nat
    BY <1>1, <1>2, <1>6 DEF BudgetTypeOK
  <2>2. Len(selected') <= Len(evidence')
    BY <1>2, <1>3, <1>5
  <2> QED
    BY <1>1, <1>2, <1>5, <2>1, <2>2 DEF BudgetTypeOK
<1>9. BudgetFits'
  BY <1>1, <1>2, <1>5, <1>6, <1>7 DEF BudgetFits, Allocated, Fitted
<1> QED
  BY <1>8, <1>9 DEF BudgetIInv

LEMMA StopKeepsBudget ==
  ASSUME BudgetIInv, StopAdmitting
  PROVE  BudgetIInv'
<1>1. BudgetTypeOK /\ BudgetFits
  BY DEF BudgetIInv
<1>2. /\ phase = "evidence"
      /\ UNCHANGED <<turn, memoryKept, evidenceBudget, evidence, selected, region, kept, historySpent>>
  BY DEF StopAdmitting
<1>3. turn \in Turns /\ spent \in Nat /\ remaining \in Nat /\ evidenceBudget \in Nat
  BY <1>1 DEF BudgetTypeOK
<1>4. CASE selected = <<>>
  <2>1. phase' = "noEvidenceFits" /\ spent' = 0 /\ remaining' = remaining
    BY <1>4 DEF StopAdmitting
  <2>2. BudgetTypeOK'
    BY <1>1, <1>2, <2>1 DEF BudgetTypeOK, Phases
  <2>3. BudgetFits'
    BY <1>1, <1>2, <2>1 DEF BudgetFits, Allocated, Fitted
  <2> QED
    BY <2>2, <2>3 DEF BudgetIInv
<1>5. CASE selected # <<>>
  <2>1. phase' = "history" /\ spent' = spent /\ remaining' = SaturatingSub(remaining, spent)
    BY <1>5 DEF StopAdmitting
  <2>2. spent <= evidenceBudget /\ remaining = Remaining(turn) /\ evidenceBudget = EvidenceAllowance(turn)
        /\ ~Refuses(turn) /\ historySpent = 0
    BY <1>1, <1>2, <1>5 DEF BudgetFits, Allocated
  <2>3. evidenceBudget <= remaining
    BY <1>3, <2>2, WindowIsDivided
  <2>4. remaining' = Remaining(turn) - spent /\ remaining' \in Nat
    BY <1>3, <2>1, <2>2, <2>3 DEF SaturatingSub, Larger
  <2>5. BudgetTypeOK'
    <3>1. evidenceBudget' \in Nat /\ remaining' \in Nat /\ spent' \in Nat /\ region' \in Nat /\ historySpent' \in Nat
      BY <1>1, <1>2, <2>1, <2>4 DEF BudgetTypeOK
    <3> QED
      BY <1>1, <1>2, <2>1, <3>1 DEF BudgetTypeOK, Phases
  <2>6. historySpent' <= remaining'
    BY <1>2, <2>2, <2>4
  <2>7. BudgetFits'
    BY <1>1, <1>2, <1>5, <2>1, <2>2, <2>4, <2>6 DEF BudgetFits, Allocated, Fitted
  <2> QED
    BY <2>5, <2>7 DEF BudgetIInv
<1> QED
  BY <1>4, <1>5

LEMMA HistoryKeepsBudget ==
  ASSUME BudgetIInv, KeepMessage \/ DropOlder
  PROVE  BudgetIInv'
<1>1. BudgetTypeOK /\ BudgetFits
  BY DEF BudgetIInv
<1>2. /\ phase = "history"
      /\ UNCHANGED <<turn, memoryKept, evidenceBudget, remaining, evidence, selected, spent, region>>
  BY DEF KeepMessage, DropOlder
<1>3. /\ turn \in Turns /\ kept \in 0 .. Len(turn.history) /\ historySpent \in Nat /\ remaining \in Nat
  BY <1>1 DEF BudgetTypeOK
<1>4. CASE KeepMessage
  <2>1. /\ phase' = phase /\ kept < Len(turn.history) /\ HistoryFits /\ kept' = kept + 1
        /\ historySpent' = historySpent + HistoryTokens(NextMessage)
    BY <1>4 DEF KeepMessage
  <2>2. turn.history \in Seq(Nat) /\ Len(turn.history) \in Nat
    BY <1>3, TurnTypes
  <2>3. NextMessage \in Nat
    BY <1>3, <2>1, <2>2 DEF NextMessage
  <2>4. HistoryTokens(NextMessage) \in Nat
    BY <2>3, ConstantsAreNumbers DEF HistoryTokens, Smaller
  <2>5. historySpent' \in Nat /\ historySpent' <= remaining /\ kept' \in 0 .. Len(turn.history)
    BY <1>3, <2>1, <2>2, <2>4 DEF HistoryFits
  <2>6. BudgetTypeOK'
    <3>1. evidenceBudget' \in Nat /\ remaining' \in Nat /\ spent' \in Nat /\ region' \in Nat /\ historySpent' \in Nat
      BY <1>1, <1>2, <2>5 DEF BudgetTypeOK
    <3> QED
      BY <1>1, <1>2, <2>1, <2>5, <3>1 DEF BudgetTypeOK
  <2>7. BudgetFits'
    BY <1>1, <1>2, <2>1, <2>5 DEF BudgetFits, Allocated, Fitted
  <2> QED
    BY <2>6, <2>7 DEF BudgetIInv
<1>5. CASE DropOlder
  <2>1. phase' = "check" /\ UNCHANGED <<kept, historySpent>>
    BY <1>5 DEF DropOlder
  <2>2. BudgetTypeOK'
    BY <1>1, <1>2, <2>1 DEF BudgetTypeOK, Phases
  <2>3. BudgetFits'
    BY <1>1, <1>2, <2>1 DEF BudgetFits, Allocated, Fitted
  <2> QED
    BY <2>2, <2>3 DEF BudgetIInv
<1> QED
  BY <1>4, <1>5

LEMMA CheckKeepsBudget ==
  ASSUME BudgetIInv, CheckRequest
  PROVE  BudgetIInv'
<1>1. BudgetTypeOK /\ BudgetFits
  BY DEF BudgetIInv
<1>2. /\ phase = "check" /\ phase' = IF Admits THEN "sent" ELSE "overBudget"
      /\ UNCHANGED <<turn, memoryKept, evidenceBudget, remaining, evidence, selected, spent, region, kept, historySpent>>
  BY DEF CheckRequest
<1>3. Admits' = Admits
  BY <1>2 DEF Admits, RequestTokens, SystemPrompt
<1>4. BudgetTypeOK'
  BY <1>1, <1>2 DEF BudgetTypeOK, Phases
<1>5. BudgetFits'
  BY <1>1, <1>2, <1>3 DEF BudgetFits, Allocated, Fitted
<1> QED
  BY <1>4, <1>5 DEF BudgetIInv

LEMMA FitKeepsBudget ==
  ASSUME BudgetIInv, FitStep
  PROVE  BudgetIInv'
BY AdmitKeepsBudget, StopKeepsBudget, HistoryKeepsBudget, CheckKeepsBudget DEF FitStep

LEMMA BudgetIInvImplies == BudgetIInv => OnlyMemoryOverflows
<1> SUFFICES ASSUME BudgetIInv, phase = "overBudget"
             PROVE  memoryKept /\ (turn.native \/ Len(selected) <= 2)
  BY DEF OnlyMemoryOverflows
<1>1. /\ turn \in Turns /\ spent \in Nat /\ region \in Nat /\ historySpent \in Nat /\ memoryKept \in BOOLEAN
      /\ selected \in Seq({"whole", "child"}) /\ remaining \in Nat
  BY DEF BudgetIInv, BudgetTypeOK
<1>2. /\ ~Refuses(turn) /\ memoryKept = KeepsMemory(turn)
      /\ selected # <<>> /\ remaining = Remaining(turn) - spent /\ historySpent <= remaining
      /\ ~turn.native => spent = RegionOverhead(FALSE) + region + Len(selected)
      /\ ~Admits
  BY DEF BudgetIInv, BudgetFits, Allocated, Fitted
<1> DEFINE n == Len(selected)
           mem == IF memoryKept THEN turn.memory ELSE 0
           apart == IF memoryKept THEN 2 + turn.memory ELSE 0
           body == IF turn.native THEN 0 ELSE 2 + RegionTags + 1 + region
           documents == IF turn.native THEN spent ELSE 0
           R == Remaining(turn)
           i == turn.instructions
           q == turn.question
<1>3. n \in Nat /\ n >= 1
  BY <1>1, <1>2
<1>4. turn.native \in BOOLEAN /\ turn.memory \in Nat /\ i \in Nat /\ q \in Nat
  BY <1>1, TurnTypes
<1>5. R \in Nat /\ mem \in Nat /\ apart \in Nat /\ body \in Nat /\ documents \in Nat
  <2>1. R \in Nat
    BY <1>1, <1>2, WindowIsDivided
  <2>2. mem \in Nat /\ apart \in Nat
    BY <1>1, <1>4
  <2>3. body \in Nat /\ documents \in Nat
    BY <1>1, <1>4, ConstantsAreNumbers
  <2> QED
    BY <2>1, <2>2, <2>3
<1>6. RequestOverhead + i + q + MessageOverhead + mem + R + Output + Reserve = Window
  BY <1>1, <1>2, WindowIsDivided
<1>7. Reserve \in Nat
  BY ConstantsAreNumbers DEF Reserve, Larger
<1>8. RequestTokens = RequestOverhead + (i + body + apart) + historySpent + q + MessageOverhead + documents
  BY DEF RequestTokens, SystemPrompt
<1>9. apart = IF memoryKept THEN 2 + mem ELSE mem
  BY <1>1
<1>10. historySpent + spent <= R
  BY <1>1, <1>2, <1>5
<1>11. turn.native => body = 0 /\ documents = spent
  OBVIOUS
<1>12. ~turn.native => body = RegionTags + 3 + region /\ documents = 0 /\ spent = RegionTags + 2 + region + n
  BY <1>1, <1>2, <1>3, ConstantsAreNumbers DEF RegionOverhead
<1> HIDE DEF R, n, mem, apart, body, documents, i, q
<1>13. RequestOverhead + i + body + apart + historySpent + q + MessageOverhead + documents + Output + Reserve > Window
  <2>1. RequestTokens \in Nat
    BY <1>1, <1>4, <1>5, <1>8, ConstantsAreNumbers
  <2>2. RequestTokens + Output + Reserve > Window
    BY <1>2, <1>7, <2>1, ConstantsAreNumbers DEF Admits
  <2> QED
    BY <1>1, <1>4, <1>5, <1>7, <1>8, <2>2, ConstantsAreNumbers
<1>14. body + apart + historySpent + documents > mem + R
  BY <1>1, <1>4, <1>5, <1>6, <1>7, <1>13, ConstantsAreNumbers
<1>15. apart = mem \/ (memoryKept /\ apart = 2 + mem)
  BY <1>1, <1>5, <1>9
<1>16. CASE turn.native
  BY <1>1, <1>5, <1>10, <1>11, <1>14, <1>15, <1>16
<1>17. CASE ~turn.native
  <2>1. body + apart + historySpent + 0 > mem + historySpent + RegionTags + 2 + region + n
    BY <1>1, <1>3, <1>5, <1>10, <1>12, <1>14, <1>17, ConstantsAreNumbers
  <2>2. 1 + apart > mem + n
    BY <1>1, <1>3, <1>5, <1>12, <1>17, <2>1, ConstantsAreNumbers
  <2>3. memoryKept /\ n <= 2
    BY <1>3, <1>5, <1>15, <2>2
  <2> QED
    BY <2>3 DEF n
<1> QED
  BY <1>4, <1>16, <1>17

-----------------------------------------------------------------------------
(* Retrieval.                                                              *)

Looked(o) == embeddings \/ o.why # "none" \/ Stuffed(o)

Reasons == {"none", "noCandidates", "emptyCorpus", "providerError"}

(* The outcome of a pass.                                                  *)
PassFits(o) ==
  /\ o.ranking \in Seq(Chunks) /\ Distinct(o.ranking) /\ Len(o.ranking) \in 0 .. Limit
  /\ o.why \in Reasons
  /\ Stuffed(o) => ~StuffedCostOver(o.ranking)

(* A pass whose outcome is known has looked.                               *)
PassesFit ==
  /\ PassFits(out) /\ PassFits(first)
  /\ stage \in {"judge", "kept"} => Looked(out)
  /\ stage = "noEvidence" => out.why \notin {"providerError", "emptyCorpus"} /\ Looked(out)
  /\ corrective => Looked(first)

(* What the next step of retrieval is given.                               *)
PoolFits ==
  /\ corpus \subseteq Chunks /\ pool \in Seq(Chunks) /\ count \in 0 .. Cardinality(Chunks)
  /\ stage = "finalize" => (order = "uniform" /\ ~StuffedCostOver(pool)) \/ (order = "ranked" /\ embeddings)

(* One rewriting before retrieval, one to correct it.                      *)
AskedFits ==
  /\ asked \in 0 .. 2
  /\ stage = "question" => asked = 0 /\ ~corrective
  /\ ~corrective /\ stage \in {"count", "countSources", "load", "search", "finalize", "judge"} => asked <= 1

(* A notebook loaded whole costs no more than it did when it was loaded.   *)
StuffedFits ==
  Stuffed(out) /\ Allocated =>
    /\ phase # "noEvidenceFits"
    /\ \A i \in 1 .. Len(selected) : selected[i] = "whole"
    /\ phase = "evidence" =>
         spent <= RunningTotals(RegionOverhead(FALSE), Prices(out.ranking))[Len(selected)]
    /\ phase # "evidence" => Len(selected) = Len(evidence)

HandedOver ==
  /\ stage = "budget" <=> phase # "ready"
  /\ stage = "budget" => out.ranking # <<>> /\ evidence = Offered(out)

RetrievalIInv == PassesFit /\ PoolFits /\ AskedFits

ContextIInv == BudgetIInv /\ RetrievalIInv /\ HandedOver /\ StuffedFits

LEMMA ChunksAreFinite ==
  /\ IsFiniteSet(Chunks) /\ Cardinality(Chunks) \in Nat
  /\ \A S \in SUBSET Chunks : IsFiniteSet(S) /\ Cardinality(S) \in 0 .. Cardinality(Chunks)
<1>1. \A c \in Chunks : \E n \in 1 .. Len(Reading) : Reading[n] = c
  BY ContextAssumption DEF Chunks, ToSet
<1>2. IsFiniteSet(Chunks)
  BY <1>1, ContextAssumption DEF IsFiniteSet
<1>3. ASSUME NEW S \in SUBSET Chunks
      PROVE  IsFiniteSet(S) /\ Cardinality(S) \in 0 .. Cardinality(Chunks)
  <2>1. IsFiniteSet(S) /\ Cardinality(S) <= Cardinality(Chunks)
    BY <1>2, FS_Subset
  <2>2. Cardinality(S) \in Nat /\ Cardinality(Chunks) \in Nat
    BY <1>2, <2>1, FS_CardinalityType
  <2> QED
    BY <2>1, <2>2
<1> QED
  BY <1>2, <1>3, FS_CardinalityType

(* A pass that found nothing.                                              *)
LEMMA NothingFits ==
  ASSUME NEW why \in Reasons
  PROVE  PassFits(Nothing(why)) /\ ~Stuffed(Nothing(why)) /\ Nothing(why).why = why
<1> DEFINE o == Nothing(why)
<1>1. o.ranking = <<>> /\ o.order = "ranked" /\ o.why = why
  BY DEF Nothing
<1> HIDE DEF o
<1>2. o.ranking \in Seq(Chunks) /\ Len(o.ranking) = 0 /\ DOMAIN o.ranking = {}
  BY <1>1
<1>3. Distinct(o.ranking)
  BY <1>2 DEF Distinct
<1>4. 0 \in 0 .. Limit
  BY ContextAssumption
<1>5. ~Stuffed(o)
  BY <1>1 DEF Stuffed
<1>6. PassFits(o)
  BY <1>1, <1>2, <1>3, <1>4, <1>5 DEF PassFits
<1> QED
  BY <1>1, <1>5, <1>6 DEF o

(* Diversified, ranked again and cut.                                      *)
LEMMA FinalizedFits ==
  ASSUME NEW ranked, EvidenceAllowance(turn) \in Nat, pool \in Seq(Chunks),
         ranked \in {CollapseParents(pool)}
           \cup (IF order = "ranked" /\ count >= RerankMin THEN Rankings(ToSet(CollapseParents(pool))) ELSE {})
  PROVE  /\ SelectFinal(ranked) \in Seq(Chunks) /\ Distinct(SelectFinal(ranked))
         /\ Len(SelectFinal(ranked)) \in 0 .. Limit
         /\ order # "ranked" /\ ~StuffedCostOver(pool) => ~StuffedCostOver(SelectFinal(ranked))
<1> DEFINE d == CollapseParents(pool)
<1>1. d \in Seq(Chunks) /\ Distinct(d) /\ (~StuffedCostOver(pool) => ~StuffedCostOver(d))
  BY CollapseKeepsOne
<1>2. ranked = d \/ (order = "ranked" /\ ranked \in Rankings(ToSet(d)))
  OBVIOUS
<1> HIDE DEF d
<1>3. CASE ranked = d
  BY <1>1, <1>3, FinalSelection
<1>4. CASE order = "ranked" /\ ranked \in Rankings(ToSet(d))
  <2>1. DOMAIN d = 1 .. Len(d) /\ Len(d) \in Nat
    BY <1>1
  <2>2. ToSet(d) \subseteq Chunks /\ \A c \in ToSet(d) : \E i \in DOMAIN d : d[i] = c
    BY <1>1, <2>1 DEF ToSet
  <2>3. ranked \in Seq(ToSet(d)) /\ \A i, j \in DOMAIN ranked : i # j => ranked[i] # ranked[j]
    BY <1>4, <2>2, ChunksAreFinite, RankingsAreLists
  <2>4. ranked \in Seq(Chunks) /\ DOMAIN ranked = 1 .. Len(ranked)
    BY <2>2, <2>3
  <2>5. \A i \in DOMAIN ranked : ranked[i] \in ToSet(d)
    BY <2>3, <2>4
  <2>6. \A b, c \in ToSet(d) : ParentOf[b] = ParentOf[c] => b = c
    BY <1>1, <2>2 DEF Distinct
  <2>7. Distinct(ranked)
    BY <2>3, <2>5, <2>6 DEF Distinct
  <2> QED
    BY <1>4, <2>4, <2>7, FinalSelection
<1> QED
  BY <1>2, <1>3, <1>4

LEMMA ContextStarts == ContextInit => ContextIInv
<1> SUFFICES ASSUME ContextInit PROVE ContextIInv
  OBVIOUS
<1>1. BudgetIInv /\ phase = "ready"
  BY BudgetStarts DEF ContextInit, BudgetInit
<1>2. /\ stage = "question" /\ asked = 0 /\ corrective = FALSE /\ count = 0 /\ pool = <<>>
      /\ out = Nothing("none") /\ first = Nothing("none") /\ corpus \in Corpora
  BY DEF ContextInit, NoPass
<1>3. PassesFit
  BY <1>2, NothingFits DEF PassesFit, Reasons
<1>4. PoolFits
  <2>1. pool \in Seq(Chunks) /\ corpus \subseteq Chunks
    BY <1>2, ContextAssumption
  <2>2. count \in 0 .. Cardinality(Chunks)
    BY <1>2, ChunksAreFinite
  <2> QED
    BY <1>2, <2>1, <2>2 DEF PoolFits
<1>5. AskedFits
  BY <1>2 DEF AskedFits
<1>6. HandedOver /\ StuffedFits
  BY <1>1, <1>2 DEF HandedOver, StuffedFits, Allocated
<1> QED
  BY <1>1, <1>3, <1>4, <1>5, <1>6 DEF ContextIInv, RetrievalIInv

(* While retrieval runs nothing is allocated.                              *)
LEMMA BeforeTheBudget ==
  ASSUME ContextIInv, UNCHANGED budgetVars, RetrievalIInv', stage # "budget", stage' # "budget"
  PROVE  ContextIInv'
<1>1. BudgetIInv /\ phase = "ready" /\ phase' = "ready"
  BY DEF ContextIInv, HandedOver, budgetVars
<1>2. BudgetIInv'
  <2>1. BudgetTypeOK' /\ BudgetFits'
    BY <1>1 DEF BudgetIInv, BudgetTypeOK, BudgetFits, Allocated, Fitted, Admits, RequestTokens, SystemPrompt, budgetVars
  <2> QED
    BY <2>1 DEF BudgetIInv
<1>3. HandedOver' /\ StuffedFits'
  BY <1>1 DEF HandedOver, StuffedFits, Allocated
<1> QED
  BY <1>2, <1>3 DEF ContextIInv

LEMMA IndexChangesKeepsContext ==
  ASSUME ContextIInv, IndexChanges
  PROVE  ContextIInv'
<1>1. /\ UNCHANGED <<embeddings, reformulator, stage, asked, rewritten, count, pool, order, out, Passes>>
      /\ UNCHANGED budgetVars /\ corpus' \in Corpora /\ phase = "ready"
  BY DEF IndexChanges
<1>2. RetrievalIInv
  BY DEF ContextIInv
<1>3. turn' = turn /\ out' = out /\ first' = first
  BY <1>1 DEF budgetVars, Passes
<1>4. PassesFit'
  BY <1>1, <1>2, <1>3 DEF RetrievalIInv, PassesFit, PassFits, Looked, StuffedCostOver, EvidenceAllowance, Passes
<1>5. PoolFits'
  BY <1>1, <1>2, <1>3, ContextAssumption DEF RetrievalIInv, PoolFits, StuffedCostOver, EvidenceAllowance
<1>6. AskedFits'
  BY <1>1, <1>2 DEF RetrievalIInv, AskedFits, Passes
<1>7. stage # "budget" /\ stage' # "budget"
  BY <1>1 DEF ContextIInv, HandedOver
<1> QED
  BY <1>1, <1>4, <1>5, <1>6, <1>7, BeforeTheBudget DEF RetrievalIInv

(* What every step of retrieval leaves alone.                              *)
LEMMA StepsKeepTheTurn ==
  ASSUME ContextIInv, NEW from, NEW to, Step(from, to)
  PROVE  /\ stage = from /\ stage' = to /\ UNCHANGED budgetVars
         /\ turn' = turn /\ embeddings' = embeddings /\ reformulator' = reformulator /\ corpus' = corpus
         /\ EvidenceAllowance(turn) \in Nat
         /\ \A s : StuffedCostOver(s)' <=> StuffedCostOver(s)
<1>1. stage = from /\ stage' = to /\ UNCHANGED <<budgetVars, Installed, Index>>
  BY DEF Step
<1>2. turn' = turn /\ embeddings' = embeddings /\ reformulator' = reformulator /\ corpus' = corpus
  BY <1>1 DEF budgetVars, Installed, Index
<1>3. turn \in Turns
  BY DEF ContextIInv, BudgetIInv, BudgetTypeOK
<1>4. \A s : StuffedCostOver(s)' <=> StuffedCostOver(s)
  BY <1>2 DEF StuffedCostOver
<1> QED
  BY <1>1, <1>2, <1>3, <1>4, WindowIsDivided

LEMMA ProactiveKeepsContext ==
  ASSUME ContextIInv, ProactiveReformulation
  PROVE  ContextIInv'
<1>1. /\ Step("question", "count") /\ UNCHANGED <<count, pool, order, out, Passes>>
      /\ asked' = asked \/ asked' = asked + 1
  BY DEF ProactiveReformulation
<1>2. RetrievalIInv
  BY DEF ContextIInv
<1>3. /\ stage = "question" /\ stage' = "count" /\ UNCHANGED budgetVars /\ embeddings' = embeddings
      /\ corpus' = corpus /\ out' = out /\ first' = first /\ corrective' = corrective
      /\ \A s : StuffedCostOver(s)' <=> StuffedCostOver(s)
  BY <1>1, StepsKeepTheTurn DEF Passes
<1>4. PassesFit'
  BY <1>2, <1>3 DEF RetrievalIInv, PassesFit, PassFits, Looked
<1>5. PoolFits'
  BY <1>1, <1>2, <1>3 DEF RetrievalIInv, PoolFits
<1>6. AskedFits'
  BY <1>1, <1>2, <1>3 DEF RetrievalIInv, AskedFits
<1> QED
  BY <1>3, <1>4, <1>5, <1>6, BeforeTheBudget DEF RetrievalIInv

LEMMA CountKeepsContext ==
  ASSUME ContextIInv, CountChunks
  PROVE  ContextIInv'
<1>1. PICK to \in {"countSources", "load", "search"} : Step("count", to)
  BY DEF CountChunks
<1>2. count' = Cardinality(corpus) /\ UNCHANGED <<asked, rewritten, pool, order, out, Passes>>
  BY DEF CountChunks
<1>3. RetrievalIInv
  BY DEF ContextIInv
<1>4. /\ stage = "count" /\ stage' = to /\ UNCHANGED budgetVars /\ embeddings' = embeddings
      /\ corpus' = corpus /\ out' = out /\ first' = first /\ corrective' = corrective
      /\ \A s : StuffedCostOver(s)' <=> StuffedCostOver(s)
  BY <1>1, <1>2, StepsKeepTheTurn DEF Passes
<1>5. PassesFit'
  BY <1>3, <1>4 DEF RetrievalIInv, PassesFit, PassFits, Looked
<1>6. PoolFits'
  <2>1. corpus \subseteq Chunks /\ count' \in 0 .. Cardinality(Chunks)
    BY <1>2, <1>3, ChunksAreFinite DEF RetrievalIInv, PoolFits
  <2> QED
    BY <1>2, <1>3, <1>4, <2>1 DEF RetrievalIInv, PoolFits
<1>7. AskedFits'
  BY <1>2, <1>3, <1>4 DEF RetrievalIInv, AskedFits
<1> QED
  BY <1>4, <1>5, <1>6, <1>7, BeforeTheBudget DEF RetrievalIInv

LEMMA SourcesKeepContext ==
  ASSUME ContextIInv, CountSources
  PROVE  ContextIInv'
<1>1. PICK why \in {"noCandidates", "emptyCorpus"} : out' = Nothing(why)
  BY DEF CountSources
<1>2. Step("countSources", "judge") /\ UNCHANGED <<asked, rewritten, count, pool, order, Passes>>
  BY DEF CountSources
<1>3. RetrievalIInv
  BY DEF ContextIInv
<1>4. /\ stage = "countSources" /\ stage' = "judge" /\ UNCHANGED budgetVars /\ embeddings' = embeddings
      /\ corpus' = corpus /\ first' = first /\ corrective' = corrective
      /\ \A s : StuffedCostOver(s)' <=> StuffedCostOver(s)
  BY <1>2, StepsKeepTheTurn DEF Passes
<1>5. PassFits(out)' /\ out'.why = why /\ why # "none"
  <2>1. PassFits(out') /\ out'.why = why
    BY <1>1, NothingFits DEF Reasons
  <2> QED
    BY <1>4, <2>1 DEF PassFits, Stuffed
<1>6. PassesFit'
  BY <1>3, <1>4, <1>5 DEF RetrievalIInv, PassesFit, PassFits, Looked
<1>7. PoolFits'
  BY <1>2, <1>3, <1>4 DEF RetrievalIInv, PoolFits
<1>8. AskedFits'
  BY <1>2, <1>3, <1>4 DEF RetrievalIInv, AskedFits
<1> QED
  BY <1>4, <1>6, <1>7, <1>8, BeforeTheBudget DEF RetrievalIInv

LEMMA StuffingKeepsContext ==
  ASSUME ContextIInv, StuffNotebook
  PROVE  ContextIInv'
<1> DEFINE loaded == Picked(Reading, {i \in DOMAIN Reading : Reading[i] \in corpus})
<1>1. /\ UNCHANGED <<asked, rewritten, count, out, Passes>>
      /\ \/ ~StuffedCostOver(loaded) /\ Step("load", "finalize") /\ pool' = loaded /\ order' = "uniform"
         \/ Step("load", "search") /\ UNCHANGED <<pool, order>>
  BY DEF StuffNotebook
<1>2. RetrievalIInv
  BY DEF ContextIInv
<1>3. loaded \in Seq(Chunks)
  BY ContextAssumption, PickedInOrder
<1> HIDE DEF loaded
<1>4. /\ stage = "load" /\ stage' \in {"finalize", "search"} /\ UNCHANGED budgetVars
      /\ embeddings' = embeddings /\ corpus' = corpus /\ out' = out /\ first' = first
      /\ corrective' = corrective
      /\ \A s : StuffedCostOver(s)' <=> StuffedCostOver(s)
  BY <1>1, StepsKeepTheTurn DEF Passes
<1>5. PassesFit'
  BY <1>2, <1>4 DEF RetrievalIInv, PassesFit, PassFits, Looked
<1>6. PoolFits'
  <2>1. stage' = "finalize" => ~StuffedCostOver(loaded) /\ pool' = loaded /\ order' = "uniform"
    BY <1>1, StepsKeepTheTurn
  <2>2. pool' \in Seq(Chunks)
    BY <1>1, <1>2, <1>3 DEF RetrievalIInv, PoolFits
  <2>3. stage' = "finalize" => order' = "uniform" /\ ~StuffedCostOver(pool)'
    BY <1>4, <2>1
  <2>4. count' = count /\ corpus \subseteq Chunks /\ count \in 0 .. Cardinality(Chunks)
    BY <1>1, <1>2 DEF RetrievalIInv, PoolFits
  <2> QED
    BY <1>4, <2>2, <2>3, <2>4 DEF PoolFits
<1>7. AskedFits'
  BY <1>1, <1>2, <1>4 DEF RetrievalIInv, AskedFits
<1> QED
  BY <1>4, <1>5, <1>6, <1>7, BeforeTheBudget DEF RetrievalIInv

LEMMA SearchKeepsContext ==
  ASSUME ContextIInv, SearchNotebook
  PROVE  ContextIInv'
<1>1. UNCHANGED <<asked, rewritten, count, Passes>>
  BY DEF SearchNotebook
<1>2. RetrievalIInv
  BY DEF ContextIInv
<1>3. CASE Step("search", "judge") /\ out' = Nothing("providerError") /\ UNCHANGED <<pool, order>>
  <2>1. /\ stage = "search" /\ stage' = "judge" /\ UNCHANGED budgetVars /\ embeddings' = embeddings
        /\ corpus' = corpus /\ first' = first /\ corrective' = corrective
        /\ \A s : StuffedCostOver(s)' <=> StuffedCostOver(s)
    BY <1>1, <1>3, StepsKeepTheTurn DEF Passes
  <2>2. PassFits(out)' /\ out'.why = "providerError"
    <3>1. PassFits(out') /\ out'.why = "providerError"
      BY <1>3, NothingFits DEF Reasons
    <3> QED
      BY <2>1, <3>1 DEF PassFits, Stuffed
  <2>3. PassesFit'
    BY <1>2, <2>1, <2>2 DEF RetrievalIInv, PassesFit, PassFits, Looked
  <2>4. PoolFits'
    BY <1>1, <1>2, <1>3, <2>1 DEF RetrievalIInv, PoolFits
  <2>5. AskedFits'
    BY <1>1, <1>2, <2>1 DEF RetrievalIInv, AskedFits
  <2> QED
    BY <2>1, <2>3, <2>4, <2>5, BeforeTheBudget DEF RetrievalIInv
<1>4. CASE /\ embeddings /\ Step("search", "finalize") /\ order' = "ranked"
           /\ pool' \in Rankings(corpus) /\ UNCHANGED out
  <2>1. /\ stage = "search" /\ stage' = "finalize" /\ UNCHANGED budgetVars /\ embeddings' = embeddings
        /\ corpus' = corpus /\ out' = out /\ first' = first /\ corrective' = corrective
        /\ \A s : StuffedCostOver(s)' <=> StuffedCostOver(s)
    BY <1>1, <1>4, StepsKeepTheTurn DEF Passes
  <2>2. PassesFit'
    BY <1>2, <2>1 DEF RetrievalIInv, PassesFit, PassFits, Looked
  <2>3. PoolFits'
    <3>1. corpus \subseteq Chunks /\ IsFiniteSet(corpus)
      BY <1>2, ChunksAreFinite DEF RetrievalIInv, PoolFits
    <3>2. pool' \in Seq(corpus)
      BY <1>4, <3>1, RankingsAreLists
    <3>3. pool' \in Seq(Chunks)
      BY <3>1, <3>2
    <3> QED
      BY <1>1, <1>2, <1>4, <2>1, <3>3 DEF RetrievalIInv, PoolFits
  <2>4. AskedFits'
    BY <1>1, <1>2, <2>1 DEF RetrievalIInv, AskedFits
  <2> QED
    BY <2>1, <2>2, <2>3, <2>4, BeforeTheBudget DEF RetrievalIInv
<1> QED
  BY <1>3, <1>4 DEF SearchNotebook

LEMMA FinalizeKeepsContext ==
  ASSUME ContextIInv, Finalize
  PROVE  ContextIInv'
<1>1. /\ Step("finalize", "judge") /\ pool' = <<>> /\ UNCHANGED <<asked, rewritten, count, order, Passes>>
  BY DEF Finalize
<1>2. RetrievalIInv
  BY DEF ContextIInv
<1>3. /\ stage = "finalize" /\ stage' = "judge" /\ UNCHANGED budgetVars /\ embeddings' = embeddings
      /\ corpus' = corpus /\ first' = first /\ corrective' = corrective
      /\ EvidenceAllowance(turn) \in Nat
      /\ \A s : StuffedCostOver(s)' <=> StuffedCostOver(s)
  BY <1>1, StepsKeepTheTurn DEF Passes
<1>4. /\ pool \in Seq(Chunks)
      /\ (order = "uniform" /\ ~StuffedCostOver(pool)) \/ (order = "ranked" /\ embeddings)
  BY <1>2, <1>3 DEF RetrievalIInv, PoolFits
<1>5. PICK ranked \in {CollapseParents(pool)}
             \cup (IF order = "ranked" /\ count >= RerankMin THEN Rankings(ToSet(CollapseParents(pool))) ELSE {}) :
        out' = [ranking |-> SelectFinal(ranked), order |-> order, why |-> "none",
                sufficient |-> Verdict(Len(SelectFinal(ranked)),
                                       order = "ranked" /\ Len(SelectFinal(ranked)) < count)]
  BY DEF Finalize
<1>6. /\ SelectFinal(ranked) \in Seq(Chunks) /\ Distinct(SelectFinal(ranked))
      /\ Len(SelectFinal(ranked)) \in 0 .. Limit
      /\ order # "ranked" /\ ~StuffedCostOver(pool) => ~StuffedCostOver(SelectFinal(ranked))
  BY <1>3, <1>4, <1>5, FinalizedFits
<1>7. out'.ranking = SelectFinal(ranked) /\ out'.order = order /\ out'.why = "none"
  BY <1>5
<1>8. PassFits(out)'
  <2>1. Stuffed(out') => order # "ranked" /\ ~StuffedCostOver(pool)
    BY <1>4, <1>7 DEF Stuffed
  <2> QED
    BY <1>3, <1>6, <1>7, <2>1 DEF PassFits, Stuffed, Reasons
<1>9. Looked(out)'
  BY <1>3, <1>4, <1>7 DEF Looked, Stuffed
<1>10. PassesFit'
  BY <1>2, <1>3, <1>8, <1>9 DEF RetrievalIInv, PassesFit, PassFits, Looked
<1>11. PoolFits'
  <2>1. pool' \in Seq(Chunks)
    BY <1>1
  <2> QED
    BY <1>1, <1>2, <1>3, <2>1 DEF RetrievalIInv, PoolFits
<1>12. AskedFits'
  BY <1>1, <1>2, <1>3 DEF RetrievalIInv, AskedFits
<1> QED
  BY <1>3, <1>10, <1>11, <1>12, BeforeTheBudget DEF RetrievalIInv

LEMMA FailureKeepsContext ==
  ASSUME ContextIInv, RetrievalFails
  PROVE  ContextIInv'
<1>1. /\ stage \in {"count", "countSources", "load", "search"} /\ stage' = "unavailable"
      /\ out' = Nothing("providerError")
      /\ UNCHANGED <<budgetVars, Installed, Index, asked, rewritten, count, pool, order, Passes>>
  BY DEF RetrievalFails
<1>2. RetrievalIInv
  BY DEF ContextIInv
<1>3. /\ UNCHANGED budgetVars /\ turn' = turn /\ embeddings' = embeddings /\ corpus' = corpus
      /\ first' = first /\ corrective' = corrective
  BY <1>1 DEF budgetVars, Installed, Index, Passes
<1>4. \A s : StuffedCostOver(s)' <=> StuffedCostOver(s)
  BY <1>3 DEF StuffedCostOver
<1>5. PassFits(out)'
  <2>1. PassFits(out')
    BY <1>1, NothingFits DEF Reasons
  <2> QED
    BY <1>4, <2>1 DEF PassFits, Stuffed
<1>6. PassesFit'
  BY <1>1, <1>2, <1>3, <1>4, <1>5 DEF RetrievalIInv, PassesFit, PassFits, Looked
<1>7. PoolFits'
  BY <1>1, <1>2, <1>3 DEF RetrievalIInv, PoolFits
<1>8. AskedFits'
  BY <1>1, <1>2, <1>3 DEF RetrievalIInv, AskedFits
<1> QED
  BY <1>1, <1>3, <1>6, <1>7, <1>8, BeforeTheBudget DEF RetrievalIInv

LEMMA JudgingKeepsContext ==
  ASSUME ContextIInv, KeepFirst \/ RetryRewritten \/ ChoosePass
  PROVE  ContextIInv'
<1>1. RetrievalIInv
  BY DEF ContextIInv
<1>2. /\ stage = "judge" /\ stage' \in {"kept", "count"} /\ UNCHANGED budgetVars /\ embeddings' = embeddings
      /\ corpus' = corpus
      /\ \A s : StuffedCostOver(s)' <=> StuffedCostOver(s)
  BY StepsKeepTheTurn DEF KeepFirst, RetryRewritten, ChoosePass
<1>3. UNCHANGED <<count, pool, order>>
  BY DEF KeepFirst, RetryRewritten, ChoosePass
<1>4. PoolFits'
  BY <1>1, <1>2, <1>3 DEF RetrievalIInv, PoolFits
<1>5. Looked(out) /\ PassFits(out) /\ PassFits(first) /\ (corrective => Looked(first))
  BY <1>1, <1>2 DEF RetrievalIInv, PassesFit
<1>6. PassFits(NoPass)
  BY NothingFits DEF NoPass, Reasons
<1>7. CASE KeepFirst
  <2>1. /\ ~corrective /\ corrective' = corrective /\ first' = first /\ out' = out /\ stage' = "kept"
        /\ asked' \in {asked, asked + 1}
    BY <1>7, StepsKeepTheTurn DEF KeepFirst, Passes
  <2>2. PassesFit'
    BY <1>2, <1>5, <2>1 DEF PassesFit, PassFits, Looked
  <2>3. AskedFits'
    BY <1>1, <1>2, <2>1 DEF RetrievalIInv, AskedFits
  <2> QED
    BY <1>2, <1>4, <2>2, <2>3, BeforeTheBudget DEF RetrievalIInv
<1>8. CASE RetryRewritten
  <2>1. /\ ~corrective /\ corrective' = TRUE /\ first' = out /\ out' = out /\ stage' = "count"
        /\ asked' = asked + 1
    BY <1>8, StepsKeepTheTurn DEF RetryRewritten
  <2>2. PassesFit'
    BY <1>2, <1>5, <2>1 DEF PassesFit, PassFits, Looked
  <2>3. AskedFits'
    BY <1>1, <1>2, <2>1 DEF RetrievalIInv, AskedFits
  <2> QED
    BY <1>2, <1>4, <2>2, <2>3, BeforeTheBudget DEF RetrievalIInv
<1>9. CASE ChoosePass
  <2>1. /\ corrective /\ corrective' = FALSE /\ first' = NoPass /\ stage' = "kept" /\ asked' = asked
        /\ out' = out \/ out' = first
    BY <1>9, StepsKeepTheTurn DEF ChoosePass
  <2>2. PassesFit'
    BY <1>2, <1>5, <1>6, <2>1 DEF PassesFit, PassFits, Looked
  <2>3. AskedFits'
    BY <1>1, <1>2, <2>1 DEF RetrievalIInv, AskedFits
  <2> QED
    BY <1>2, <1>4, <2>2, <2>3, BeforeTheBudget DEF RetrievalIInv
<1> QED
  BY <1>7, <1>8, <1>9

LEMMA AbstainingKeepsContext ==
  ASSUME ContextIInv, Abstain
  PROVE  ContextIInv'
<1>1. /\ stage = "kept"
      /\ UNCHANGED <<budgetVars, Installed, Index, asked, rewritten, count, pool, order, out, Passes>>
      /\ stage' = CASE out.why = "providerError" -> "unavailable"
                    [] out.why = "emptyCorpus" -> "noSources"
                    [] OTHER -> "noEvidence"
  BY DEF Abstain
<1>2. RetrievalIInv
  BY DEF ContextIInv
<1>3. /\ UNCHANGED budgetVars /\ turn' = turn /\ embeddings' = embeddings /\ corpus' = corpus
      /\ out' = out /\ first' = first /\ corrective' = corrective
  BY <1>1 DEF budgetVars, Installed, Index, Passes
<1>4. \A s : StuffedCostOver(s)' <=> StuffedCostOver(s)
  BY <1>3 DEF StuffedCostOver
<1>5. /\ stage' \in {"unavailable", "noSources", "noEvidence"}
      /\ stage' = "noEvidence" => out.why \notin {"providerError", "emptyCorpus"}
  BY <1>1
<1>6. PassesFit'
  BY <1>1, <1>2, <1>3, <1>4, <1>5 DEF RetrievalIInv, PassesFit, PassFits, Looked
<1>7. PoolFits'
  BY <1>1, <1>2, <1>3, <1>5 DEF RetrievalIInv, PoolFits
<1>8. AskedFits'
  BY <1>1, <1>2, <1>3, <1>5 DEF RetrievalIInv, AskedFits
<1> QED
  BY <1>1, <1>3, <1>5, <1>6, <1>7, <1>8, BeforeTheBudget DEF RetrievalIInv

(* What is handed over, entry by entry.                                    *)
LEMMA OfferedEntries ==
  ASSUME NEW o, PassFits(o), o.ranking # <<>>
  PROVE  /\ Offered(o) \in Seq(Contexts) /\ Len(Offered(o)) = Len(o.ranking) /\ Offered(o) # <<>>
         /\ Stuffed(o) => \A i \in 1 .. Len(o.ranking) : Offered(o)[i] = SizeOf[o.ranking[i]]
<1> DEFINE p == Presented(o)
<1>1. o.ranking \in Seq(Chunks) /\ Distinct(o.ranking)
  BY DEF PassFits
<1>2. p \in Seq(Chunks) /\ Len(p) = Len(o.ranking) /\ (Stuffed(o) => p = o.ranking)
  BY <1>1, PresentedWhole
<1>3. Offered(o) = [i \in DOMAIN p |-> SizeOf[p[i]]]
  BY DEF Offered
<1> HIDE DEF p
<1>4. DOMAIN p = 1 .. Len(p) /\ Len(p) \in Nat /\ \A i \in 1 .. Len(p) : p[i] \in Chunks
  BY <1>2
<1>5. Offered(o) \in [1 .. Len(p) -> Contexts]
  BY <1>3, <1>4, SizesAreKnown
<1>6. Offered(o) \in Seq(Contexts) /\ Len(Offered(o)) = Len(p)
  BY <1>4, <1>5
<1>7. Len(p) # 0
  BY <1>1, <1>2
<1> QED
  BY <1>2, <1>3, <1>4, <1>6, <1>7

LEMMA HandingOverKeepsContext ==
  ASSUME ContextIInv, HandOver
  PROVE  ContextIInv'
<1>1. /\ stage = "kept" /\ out.ranking # <<>> /\ stage' = "budget" /\ Allocate(Offered(out))
      /\ UNCHANGED <<Installed, Index, asked, rewritten, count, pool, order, out, Passes>>
  BY DEF HandOver
<1>2. BudgetIInv /\ RetrievalIInv
  BY DEF ContextIInv
<1>3. /\ turn' = turn /\ embeddings' = embeddings /\ corpus' = corpus
      /\ out' = out /\ first' = first /\ corrective' = corrective
  BY <1>1 DEF Allocate, Installed, Index, Passes
<1>4. \A s : StuffedCostOver(s)' <=> StuffedCostOver(s)
  BY <1>3 DEF StuffedCostOver
<1>5. PassFits(out)
  BY <1>2 DEF RetrievalIInv, PassesFit
<1>6. Offered(out) \in Seq(Contexts)
  BY <1>1, <1>5, OfferedEntries
<1>7. BudgetIInv' /\ phase' \in {"tooLarge", "evidence"} /\ evidence' = Offered(out) /\ selected' = <<>>
  BY <1>1, <1>2, <1>6, AllocateKeepsBudget
<1>8. PassesFit'
  BY <1>1, <1>2, <1>3, <1>4 DEF RetrievalIInv, PassesFit, PassFits, Looked
<1>9. PoolFits'
  BY <1>1, <1>2, <1>3 DEF RetrievalIInv, PoolFits
<1>10. AskedFits'
  BY <1>1, <1>2, <1>3 DEF RetrievalIInv, AskedFits
<1>11. HandedOver'
  <2>1. Offered(out)' = Offered(out)
    BY <1>3
  <2> QED
    BY <1>1, <1>3, <1>7, <2>1 DEF HandedOver
<1>12. StuffedFits'
  <2> SUFFICES ASSUME phase' = "evidence"
               PROVE  spent' <= RunningTotals(RegionOverhead(FALSE), Prices(out'.ranking))[Len(selected')]
    <3>1. Len(selected') = 0 /\ \A i \in 1 .. Len(selected') : selected'[i] = "whole"
      BY <1>7
    <3>2. phase' # "evidence" => ~Allocated'
      BY <1>7 DEF Allocated
    <3> QED
      BY <3>1, <3>2 DEF StuffedFits
  <2>1. spent' = RegionOverhead(turn.native)
    BY <1>1, <1>7 DEF Allocate
  <2>2. RegionOverhead(turn.native) <= RegionOverhead(FALSE) /\ RegionOverhead(FALSE) \in Nat
    BY EntryTypes DEF RegionOverhead
  <2>3. Prices(out.ranking) \in Seq(Nat)
    BY <1>5, PricesAreNumbers DEF PassFits
  <2>4. RunningTotals(RegionOverhead(FALSE), Prices(out.ranking))[0] = RegionOverhead(FALSE)
    BY <2>2, <2>3, TotalsAdd
  <2>5. Len(selected') = 0
    BY <1>7
  <2> QED
    BY <1>3, <2>1, <2>2, <2>4, <2>5
<1> QED
  BY <1>7, <1>8, <1>9, <1>10, <1>11, <1>12 DEF ContextIInv, RetrievalIInv

(* The next context of a notebook loaded whole still fits.                 *)
LEMMA NextOfStuffedFits ==
  ASSUME ContextIInv, Stuffed(out), phase = "evidence", Len(selected) < Len(evidence)
  PROVE  /\ Fits(InHand.whole)
         /\ spent + EntryTokens(turn.native, InHand.whole)
              <= RunningTotals(RegionOverhead(FALSE), Prices(out.ranking))[Len(selected) + 1]
<1> DEFINE r == out.ranking
           base == RegionOverhead(FALSE)
           T == RunningTotals(base, Prices(r))
           k == Len(selected)
           n == Len(r)
           w == InHand.whole
           e == EntryTokens(turn.native, w)
<1>1. /\ stage = "budget" /\ evidence = Offered(out) /\ r # <<>>
      /\ spent <= T[k] /\ PassFits(out) /\ evidenceBudget = EvidenceAllowance(turn)
  BY DEF ContextIInv, HandedOver, StuffedFits, RetrievalIInv, PassesFit, BudgetIInv, BudgetFits, Allocated
<1>2. /\ selected \in Seq({"whole", "child"}) /\ turn \in Turns /\ spent \in Nat /\ evidenceBudget \in Nat
  BY DEF ContextIInv, BudgetIInv, BudgetTypeOK
<1>3. r \in Seq(Chunks) /\ ~StuffedCostOver(r)
  BY <1>1 DEF PassFits
<1>4. Len(evidence) = n /\ \A i \in 1 .. n : evidence[i] = SizeOf[r[i]]
  BY <1>1, OfferedEntries
<1>5. k \in Nat /\ n \in Nat /\ k + 1 \in 1 .. n
  BY <1>2, <1>3, <1>4
<1>6. base \in Nat
  BY EntryTypes
<1>7. /\ Prices(r) \in Seq(Nat) /\ Len(Prices(r)) = n
      /\ \A i \in 1 .. n : Prices(r)[i] = EntryTokens(FALSE, SizeOf[r[i]].whole)
  BY <1>3, PricesAreNumbers
<1>8. w = SizeOf[r[k + 1]].whole /\ w \in Nat
  <2>1. r[k + 1] \in Chunks
    BY <1>3, <1>5
  <2>2. InHand = SizeOf[r[k + 1]]
    BY <1>4, <1>5 DEF InHand
  <2> QED
    BY <2>1, <2>2, SizesAreKnown
<1>9. e \in Nat /\ e <= Prices(r)[k + 1] /\ Prices(r)[k + 1] \in Nat
  <2>1. turn.native \in BOOLEAN
    BY <1>2, TurnTypes
  <2>2. Prices(r)[k + 1] = EntryTokens(FALSE, w) /\ EntryTokens(FALSE, w) \in Nat
    BY <1>5, <1>7, <1>8, EntryTypes
  <2> QED
    BY <1>8, <2>1, <2>2, EntryTypes
<1>10. T[k + 1] = T[k] + Prices(r)[k + 1] /\ T[k] \in Nat /\ T[k + 1] \in Nat /\ T[n] \in Nat
  <2>1. /\ T \in [0 .. n -> Nat]
        /\ \A i \in 1 .. n : T[i] = T[i - 1] + Prices(r)[i]
    BY <1>6, <1>7, TotalsAdd
  <2>2. (k + 1) - 1 = k /\ k \in 0 .. n /\ k + 1 \in 0 .. n /\ n \in 0 .. n
    BY <1>5
  <2> HIDE DEF T
  <2>3. T[k + 1] = T[(k + 1) - 1] + Prices(r)[k + 1]
    BY <1>5, <2>1
  <2> QED
    BY <2>1, <2>2, <2>3
<1>11. T[k + 1] <= T[n]
  <2>1. k + 1 \in 0 .. Len(Prices(r)) /\ n \in 0 .. Len(Prices(r)) /\ k + 1 <= n
    BY <1>5, <1>7
  <2> QED
    BY <1>6, <1>7, <2>1, TotalsGrow
<1>12. ~(T[n] > evidenceBudget)
  BY <1>1, <1>3 DEF StuffedCostOver, StuffedCost
<1>13. Fits(w) <=> spent + e <= evidenceBudget
  BY DEF Fits
<1> HIDE DEF T, e, w, k, n, base, r
<1>14. spent + e <= T[k + 1] /\ spent + e <= evidenceBudget
  BY <1>1, <1>2, <1>9, <1>10, <1>11, <1>12
<1> QED
  BY <1>13, <1>14 DEF T, e, w, k, n, base, r

LEMMA FittingKeepsStuffed ==
  ASSUME ContextIInv, FitStep, UNCHANGED retrievalVars
  PROVE  StuffedFits'
<1>1. out' = out
  BY DEF retrievalVars
<1>2. Stuffed(out)' = Stuffed(out) /\ Prices(out.ranking)' = Prices(out.ranking)
  BY <1>1
<1> SUFFICES ASSUME Stuffed(out), Allocated'
             PROVE  /\ phase' # "noEvidenceFits"
                    /\ \A i \in 1 .. Len(selected') : selected'[i] = "whole"
                    /\ phase' = "evidence" =>
                         spent' <= RunningTotals(RegionOverhead(FALSE), Prices(out.ranking))[Len(selected')]
                    /\ phase' # "evidence" => Len(selected') = Len(evidence')
  BY <1>1, <1>2 DEF StuffedFits
<1>3. Allocated => /\ phase # "noEvidenceFits"
                   /\ \A i \in 1 .. Len(selected) : selected[i] = "whole"
                   /\ phase # "evidence" => Len(selected) = Len(evidence)
  BY DEF ContextIInv, StuffedFits
<1>4. /\ selected \in Seq({"whole", "child"}) /\ Len(selected) \in Nat /\ Len(evidence) \in Nat
      /\ Len(selected) <= Len(evidence)
  BY DEF ContextIInv, BudgetIInv, BudgetTypeOK
<1>5. ASSUME NEW form \in {"whole", "child"}, Admit(form)
      PROVE  /\ form = "whole" /\ phase' = "evidence" /\ selected' = Append(selected, "whole")
             /\ spent' <= RunningTotals(RegionOverhead(FALSE), Prices(out.ranking))[Len(selected) + 1]
  <2>1. phase = "evidence" /\ Len(selected) < Len(evidence) /\ phase' = phase /\ selected' = Append(selected, form)
    BY <1>5 DEF Admit
  <2>2. /\ Fits(InHand.whole)
        /\ spent + EntryTokens(turn.native, InHand.whole)
             <= RunningTotals(RegionOverhead(FALSE), Prices(out.ranking))[Len(selected) + 1]
    BY <2>1, NextOfStuffedFits
  <2>3. form = "whole"
    BY <1>5, <2>2 DEF Admit
  <2>4. spent' = spent + EntryTokens(turn.native, InHand.whole)
    BY <1>5, <2>3 DEF Admit
  <2> QED
    BY <2>1, <2>2, <2>3, <2>4
<1>6. CASE \E form \in {"whole", "child"} : Admit(form)
  <2>1. /\ phase' = "evidence" /\ selected' = Append(selected, "whole") /\ phase = "evidence"
        /\ spent' <= RunningTotals(RegionOverhead(FALSE), Prices(out.ranking))[Len(selected) + 1]
    BY <1>5, <1>6 DEF Admit
  <2>2. Len(selected') = Len(selected) + 1 /\ \A i \in 1 .. Len(selected') : selected'[i] = "whole"
    BY <1>3, <1>4, <2>1 DEF Allocated
  <2> QED
    BY <2>1, <2>2
<1>7. CASE StopAdmitting
  <2>1. /\ phase = "evidence" /\ selected' = selected /\ evidence' = evidence
        /\ Len(selected) < Len(evidence) => ~Fits(InHand.whole)
        /\ phase' \in {"noEvidenceFits", "history"}
        /\ phase' = "noEvidenceFits" => selected = <<>>
    BY <1>7 DEF StopAdmitting
  <2>2. Len(selected) = Len(evidence)
    <3>1. ~(Len(selected) < Len(evidence))
      BY <2>1, NextOfStuffedFits
    <3> QED
      BY <1>4, <3>1
  <2>3. Len(evidence) # 0
    <3>1. stage = "budget" /\ out.ranking # <<>> /\ evidence = Offered(out) /\ PassFits(out)
      BY <2>1 DEF ContextIInv, HandedOver, RetrievalIInv, PassesFit
    <3>2. evidence # <<>> /\ evidence \in Seq(Contexts)
      BY <3>1, OfferedEntries
    <3> QED
      BY <3>2
  <2>4. selected # <<>>
    BY <2>2, <2>3
  <2> QED
    BY <1>3, <2>1, <2>2, <2>4 DEF Allocated
<1>8. CASE KeepMessage \/ DropOlder \/ CheckRequest
  <2>1. /\ phase \in {"history", "check"} /\ phase' \in {"history", "check", "sent", "overBudget"}
        /\ selected' = selected /\ evidence' = evidence
    BY <1>8 DEF KeepMessage, DropOlder, CheckRequest
  <2> QED
    BY <1>3, <2>1 DEF Allocated
<1> QED
  BY <1>6, <1>7, <1>8 DEF FitStep

LEMMA FittingKeepsContext ==
  ASSUME ContextIInv, Fit
  PROVE  ContextIInv'
<1>1. FitStep /\ UNCHANGED retrievalVars
  BY DEF Fit
<1>2. BudgetIInv /\ RetrievalIInv
  BY DEF ContextIInv
<1>3. /\ UNCHANGED <<corpus, embeddings, stage, asked, count, pool, order, out, first, corrective>>
      /\ turn' = turn /\ evidence' = evidence /\ phase # "ready" /\ phase' # "ready"
  BY <1>1 DEF retrievalVars, FitStep, Admit, StopAdmitting, KeepMessage, DropOlder, CheckRequest
<1>4. \A s : StuffedCostOver(s)' <=> StuffedCostOver(s)
  BY <1>3 DEF StuffedCostOver
<1>5. BudgetIInv'
  BY <1>1, <1>2, FitKeepsBudget
<1>6. PassesFit'
  BY <1>2, <1>3, <1>4 DEF RetrievalIInv, PassesFit, PassFits, Looked
<1>7. PoolFits'
  <2>1. \A s : StuffedCostOver(s)' <=> StuffedCostOver(s)
    BY <1>4
  <2>2. stage # "finalize"
    BY <1>3 DEF ContextIInv, HandedOver
  <2> QED
    BY <1>2, <1>3, <2>2 DEF RetrievalIInv, PoolFits
<1>8. AskedFits'
  BY <1>2, <1>3 DEF RetrievalIInv, AskedFits
<1>9. HandedOver'
  <2>1. Offered(out)' = Offered(out)
    BY <1>3
  <2> QED
    BY <1>3, <2>1 DEF ContextIInv, HandedOver
<1>10. StuffedFits'
  BY <1>1, FittingKeepsStuffed
<1> QED
  BY <1>5, <1>6, <1>7, <1>8, <1>9, <1>10 DEF ContextIInv, RetrievalIInv

LEMMA ContextStutters ==
  ASSUME ContextIInv, UNCHANGED contextVars
  PROVE  ContextIInv'
<1>1. UNCHANGED budgetVars /\ UNCHANGED retrievalVars
  BY DEF contextVars
<1>2. /\ UNCHANGED <<corpus, embeddings, stage, asked, count, pool, order, out, first, corrective>>
      /\ UNCHANGED <<turn, phase, memoryKept, evidenceBudget, remaining, evidence, selected,
                     spent, region, kept, historySpent>>
  BY <1>1 DEF retrievalVars, budgetVars
<1>3. \A s : StuffedCostOver(s)' <=> StuffedCostOver(s)
  BY <1>2 DEF StuffedCostOver
<1>4. BudgetIInv'
  <2>1. BudgetTypeOK' /\ BudgetFits'
    BY <1>2 DEF ContextIInv, BudgetIInv, BudgetTypeOK, BudgetFits, Allocated, Fitted, Admits, RequestTokens, SystemPrompt
  <2> QED
    BY <2>1 DEF BudgetIInv
<1>5. PassesFit' /\ AskedFits'
  BY <1>2, <1>3 DEF ContextIInv, RetrievalIInv, PassesFit, PassFits, Looked, AskedFits
<1>6. PoolFits'
  <2>1. StuffedCostOver(pool)' <=> StuffedCostOver(pool)
    BY <1>2 DEF StuffedCostOver
  <2> QED
    BY <1>2, <2>1 DEF ContextIInv, RetrievalIInv, PoolFits
<1>7. HandedOver' /\ StuffedFits'
  BY <1>2 DEF ContextIInv, HandedOver, StuffedFits, Allocated
<1> QED
  BY <1>4, <1>5, <1>6, <1>7 DEF ContextIInv, RetrievalIInv

LEMMA ContextKept ==
  ASSUME ContextIInv, [ContextNext]_contextVars
  PROVE  ContextIInv'
BY IndexChangesKeepsContext, ProactiveKeepsContext, CountKeepsContext, SourcesKeepContext,
   StuffingKeepsContext, SearchKeepsContext, FinalizeKeepsContext, FailureKeepsContext,
   JudgingKeepsContext, AbstainingKeepsContext, HandingOverKeepsContext, FittingKeepsContext,
   ContextStutters DEF ContextNext, Retrieve

LEMMA SentIsWhole ==
  ASSUME ContextIInv, phase = "sent"
  PROVE  SentIsGrounded
<1> DEFINE p == Presented(out)
           k == Len(selected)
<1>1. stage = "budget" /\ out.ranking # <<>> /\ evidence = Offered(out) /\ PassFits(out)
  BY DEF ContextIInv, HandedOver, RetrievalIInv, PassesFit
<1>2. selected \in Seq({"whole", "child"}) /\ Len(selected) <= Len(evidence) /\ selected # <<>>
  BY DEF ContextIInv, BudgetIInv, BudgetTypeOK, BudgetFits, Fitted
<1>3. /\ p \in Seq(Chunks) /\ Len(p) = Len(out.ranking) /\ p[1] = out.ranking[1] /\ Distinct(p)
      /\ Len(out.ranking) <= Limit /\ Len(out.ranking) \in Nat
  BY <1>1, PresentedWhole DEF PassFits
<1>4. Len(evidence) = Len(p)
  BY <1>1, <1>3, OfferedEntries
<1>5. k \in 1 .. Limit /\ k <= Len(p) /\ k \in Nat /\ Limit \in Nat
  BY <1>2, <1>3, <1>4, ContextAssumption
<1>6. Sent = SubSeq(p, 1, k)
  BY DEF Sent
<1> HIDE DEF p, k
<1>7. Sent \in Seq(Chunks) /\ Len(Sent) = k /\ \A i \in 1 .. k : Sent[i] = p[i]
  BY <1>3, <1>5, <1>6
<1>8. Distinct(Sent)
  <2>1. \A i, j \in 1 .. Len(p) : ParentOf[p[i]] = ParentOf[p[j]] => i = j
    BY <1>3 DEF Distinct
  <2>2. DOMAIN Sent = 1 .. k /\ \A i \in 1 .. k : i \in 1 .. Len(p)
    BY <1>3, <1>5, <1>7
  <2> QED
    BY <1>7, <2>1, <2>2 DEF Distinct
<1>9. Cardinality(Parents(Sent)) = k
  BY <1>7, <1>8, ParentsAreCounted
<1>10. out.ranking[1] \in ToSet(Sent)
  <2>1. 1 \in DOMAIN Sent /\ Sent[1] = out.ranking[1]
    BY <1>3, <1>5, <1>7
  <2> QED
    BY <2>1 DEF ToSet
<1> QED
  BY <1>5, <1>9, <1>10 DEF SentIsGrounded, k

LEMMA ContextIInvImplies == ContextIInv => ContextInv
<1> SUFFICES ASSUME ContextIInv PROVE ContextInv
  OBVIOUS
<1>1. ContextTypeOK
  <2>1. pool \in Seq(Chunks) /\ BudgetTypeOK /\ corpus \subseteq Chunks /\ count \in 0 .. Cardinality(Chunks)
        /\ asked \in 0 .. 2
    BY DEF ContextIInv, RetrievalIInv, PoolFits, AskedFits, BudgetIInv
  <2>2. ToSet(pool) \subseteq Chunks
    BY <2>1 DEF ToSet
  <2> QED
    BY <2>1, <2>2 DEF ContextTypeOK
<1>2. SentIsGrounded
  BY SentIsWhole DEF SentIsGrounded
<1>3. StuffedIsNotTrimmed
  <2> SUFFICES ASSUME Stuffed(out), phase \in {"history", "check", "sent", "noEvidenceFits"}
               PROVE  selected = [i \in 1 .. Len(evidence) |-> "whole"]
    BY DEF StuffedIsNotTrimmed
  <2>1. (\A i \in 1 .. Len(selected) : selected[i] = "whole") /\ Len(selected) = Len(evidence)
    BY DEF ContextIInv, StuffedFits, Allocated
  <2>2. selected \in Seq({"whole", "child"})
    BY DEF ContextIInv, BudgetIInv, BudgetTypeOK
  <2> QED
    BY <2>1, <2>2
<1>4. AbstentionIsHonest
  <2>1. stage = "noEvidence" => Looked(out) /\ out.why \notin {"providerError", "emptyCorpus"}
    BY DEF ContextIInv, RetrievalIInv, PassesFit
  <2>2. out.why \in Reasons
    BY DEF ContextIInv, RetrievalIInv, PassesFit, PassFits
  <2> QED
    BY <2>1, <2>2 DEF AbstentionIsHonest, Looked, Reasons
<1>5. OnlyMemoryOverflows
  BY BudgetIInvImplies DEF ContextIInv
<1> QED
  BY <1>1, <1>2, <1>3, <1>4, <1>5 DEF ContextInv

(* For any notebook that changes under the turn, any ranking, model window *)
(* and prices: a request that is sent carries ranked passages of the       *)
(* notebook, each once, within the limit and with the best of them, a      *)
(* notebook loaded whole whole; a turn abstains only where retrieval       *)
(* looked; and the final check refuses a request the pass fitted only for  *)
(* the separator before the memory (services/rag/search/context.rs,        *)
(* services/chat/context_budget.rs, api/chat/turn.rs).                     *)
THEOREM RequestsAreGrounded == ContextSpec => []ContextInv
<1> QED
  BY ContextStarts, ContextKept, ContextIInvImplies, PTL DEF ContextSpec

(* The corrective pass takes the place of the first only when it suffices  *)
(* or has no fewer contexts (services/rag/search/context.rs).              *)
THEOREM CorrectionsOnlyAdd == ContextSpec => CorrectionNeverLoses
<1>1. ASSUME ContextIInv, ContextNext, corrective, ~corrective'
      PROVE  out'.sufficient \/ Len(out'.ranking) >= Len(first.ranking)
  <2>1. PassFits(out) /\ PassFits(first)
    BY <1>1 DEF ContextIInv, RetrievalIInv, PassesFit
  <2>2. /\ Cardinality(Parents(out.ranking)) = Len(out.ranking) /\ Len(out.ranking) \in Nat
        /\ Cardinality(Parents(first.ranking)) = Len(first.ranking) /\ Len(first.ranking) \in Nat
    BY <2>1, ParentsAreCounted DEF PassFits
  <2>3. ChoosePass
    BY <1>1 DEF ContextNext, Retrieve, IndexChanges, ProactiveReformulation, CountChunks, CountSources,
       StuffNotebook, SearchNotebook, Finalize, RetrievalFails, KeepFirst, RetryRewritten, Abstain,
       HandOver, Fit, Passes, retrievalVars
  <2>4. out' = IF out.sufficient \/ Cardinality(Parents(out.ranking)) > Cardinality(Parents(first.ranking))
               THEN out ELSE first
    BY <2>3 DEF ChoosePass
  <2> QED
    BY <2>2, <2>4
<1>2. ContextIInv /\ [ContextNext]_contextVars =>
        [corrective /\ ~corrective' =>
           out'.sufficient \/ Len(out'.ranking) >= Len(first.ranking)]_contextVars
  BY <1>1
<1> QED
  BY <1>2, ContextStarts, ContextKept, PTL DEF ContextSpec, CorrectionNeverLoses

-----------------------------------------------------------------------------
(* The evaluation.                                                         *)

LEMMA NumbersUpTo ==
  ASSUME NEW n \in Nat
  PROVE  IsFiniteSet(1 .. n) /\ Cardinality(1 .. n) = n
BY FS_Interval

(* A lookup finds the first entry of that name, if there is one.           *)
LEMMA EntryIs ==
  ASSUME NEW items, Listed(items), NEW slug
  PROVE  /\ \A x \in Entry(items, slug) : x \in ToSet(items) /\ x.id = slug
         /\ \A x, y \in Entry(items, slug) : x = y
         /\ (\E x \in ToSet(items) : x.id = slug) => Entry(items, slug) # {}
<1>1. DOMAIN items = 1 .. Len(items) /\ Len(items) \in Nat
  BY DEF Listed
<1> DEFINE First == {j \in DOMAIN items : items[j].id = slug /\ \A i \in 1 .. j - 1 : items[i].id # slug}
<1>2. Entry(items, slug) = {items[k] : k \in First}
  BY DEF Entry
<1>3. \A x \in Entry(items, slug) : x \in ToSet(items) /\ x.id = slug
  BY <1>2 DEF ToSet
<1>4. ASSUME NEW j \in First, NEW k \in First PROVE j = k
  BY <1>1
<1>5. ASSUME NEW x \in ToSet(items), x.id = slug PROVE Entry(items, slug) # {}
  <2> DEFINE S == {i \in DOMAIN items : items[i].id = slug}
  <2>1. S \subseteq Nat /\ S # {}
    BY <1>1, <1>5 DEF ToSet
  <2>2. PICK m \in S : \A j \in S : m <= j
    BY <2>1, LeastOf
  <2>3. m \in First
    BY <1>1, <2>2
  <2> QED BY <1>2, <2>3
<1> HIDE DEF First
<1> QED BY <1>2, <1>3, <1>4, <1>5

(* In a list without repetition a name is that of one entry.               *)
LEMMA NamedOnce ==
  ASSUME NEW items, Listed(items), Repeated(items) = {},
         NEW x \in ToSet(items), NEW y \in ToSet(items), x.id = y.id
  PROVE  x = y
<1>1. DOMAIN items = 1 .. Len(items) /\ Len(items) \in Nat
  BY DEF Listed
<1>2. PICK i \in DOMAIN items, j \in DOMAIN items : x = items[i] /\ y = items[j]
  BY DEF ToSet
<1>3. \A m \in DOMAIN items : ~ \E l \in 1 .. m - 1 : items[l].id = items[m].id
  BY DEF Repeated
<1>4. i = j \/ i \in 1 .. j - 1 \/ j \in 1 .. i - 1
  BY <1>1
<1> QED BY <1>2, <1>3, <1>4

(* What validate leaves of the queries.                                    *)
Labelled(c, q) ==
  /\ \A slug \in ToSet(q.chunks) : Entry(c.chunks, slug) # {}
  /\ \A slug \in ToSet(q.chunks) : \A k \in Entry(c.chunks, slug) : q.notebook \in HomeOf(c, k)
  /\ q.answerable <=> q.chunks # <<>>
  /\ ForbidsRightly(c, q)
  /\ \A x \in ToSet(q.claims) : x.by # {} /\ x.by \subseteq ToSet(q.chunks)

LEMMA ValidIsLabelled ==
  ASSUME NEW c, QueryViolations(c) = {}
  PROVE  Repeated(c.queries) = {} /\ \A q \in ToSet(c.queries) : Labelled(c, q)
<1>1. Repeated(c.queries) = {}
  BY Zenon DEF QueryViolations
<1>2. ASSUME NEW q \in ToSet(c.queries) PROVE Labelled(c, q)
  <2>1. Entry(c.notebooks, q.notebook) # {}
    BY Zenon DEF QueryViolations
  <2>2. LabelViolations(c, q) = {} /\ ClaimViolations(c, q) = {}
    <3> DEFINE told == {LabelViolations(c, x) \cup ClaimViolations(c, x) :
                          x \in {y \in ToSet(c.queries) : Entry(c.notebooks, y.notebook) # {}}}
    <3>1. LabelViolations(c, q) \cup ClaimViolations(c, q) \in told
      BY <2>1, Zenon
    <3>2. UNION told \subseteq QueryViolations(c)
      BY Zenon DEF QueryViolations
    <3> HIDE DEF told
    <3>3. UNION told = {}
      BY <3>2, Zenon
    <3> QED BY <3>1, <3>3
  <2> DEFINE relevant == ToSet(q.chunks)
             found == UNION {Entry(c.chunks, slug) : slug \in relevant}
             field == [relevant_chunks |->
                  \/ \E slug \in relevant : Entry(c.chunks, slug) = {}
                  \/ \E k \in found : q.notebook \notin HomeOf(c, k)
                  \/ ~(q.answerable <=> q.chunks # <<>>)
                  \/ q.category = "multi_hop" /\ Len(q.chunks) < 2,
                relevant_sources |->
                  \/ \E k \in found : k.source \notin ToSet(q.sources)
                  \/ \E slug \in ToSet(q.sources) : Entry(c.sources, slug) = {}
                  \/ q.category = "conflicting" /\ Len(q.sources) < 2,
                forbidden_sources |-> ~ForbidsRightly(c, q),
                expected_claims |-> ~(q.answerable <=> q.claims # <<>>),
                answerable |-> q.category = "unanswerable" /\ q.answerable]
  <2>3. LabelViolations(c, q) = {<<q.id, f>> : f \in {x \in DOMAIN field : field[x]}}
    BY Zenon DEF LabelViolations
  <2>4. \A f \in DOMAIN field : ~field[f]
    <3> HIDE DEF field
    <3> QED BY <2>2, <2>3, Zenon
  <2>5. ~field.relevant_chunks /\ ~field.forbidden_sources
    <3>1. "relevant_chunks" \in DOMAIN field /\ "forbidden_sources" \in DOMAIN field
      OBVIOUS
    <3> HIDE DEF field
    <3> QED BY <2>4, <3>1, Zenon
  <2>6. ~(\/ \E slug \in relevant : Entry(c.chunks, slug) = {}
          \/ \E k \in found : q.notebook \notin HomeOf(c, k)
          \/ ~(q.answerable <=> q.chunks # <<>>))
    BY <2>5, Zenon
  <2>7. ForbidsRightly(c, q)
    BY <2>5, Zenon
  <2>8. \A x \in ToSet(q.claims) : x.by # {} /\ x.by \subseteq ToSet(q.chunks)
    BY <2>2, Zenon DEF ClaimViolations
  <2> HIDE DEF field
  <2> QED BY <2>6, <2>7, <2>8, Zenon DEF Labelled
<1> QED BY <1>1, <1>2

(* What a valid corpus says of its labels.                                 *)
LabelsOf(q) ==
  /\ q.answerable <=> Relevant(q) # {}
  /\ \A k \in Relevant(q) : HomeOf(fixtures, k) = {q.notebook}
  /\ \A c \in ToSet(q.claims) : c.by # {} /\ c.by \subseteq {k.id : k \in Relevant(q)}
  /\ \A k \in ToSet(fixtures.chunks) : k.source \in q.forbidden => q.notebook \notin HomeOf(fixtures, k)

FixturesRead ==
  /\ Listed(fixtures.sources) /\ Listed(fixtures.chunks) /\ Listed(fixtures.queries)
  /\ \A q \in ToSet(fixtures.queries) :
       q.category \in Categories /\ q.answerable \in BOOLEAN /\ Listed(q.chunks) /\ Listed(q.claims)

LEMMA FixturesAreRead ==
  revision \in DOMAIN Fixtures => FixturesRead
BY EvalAssumption DEF FixturesRead, fixtures

LEMMA HomeIsOne ==
  ASSUME FixturesRead, NEW k
  PROVE  \A m, n \in HomeOf(fixtures, k) : m = n
BY EntryIs DEF FixturesRead, HomeOf

LEMMA LabelsHold ==
  ASSUME FixturesRead, NEW q \in ToSet(fixtures.queries), Labelled(fixtures, q)
  PROVE  LabelsOf(q)
<1>1. Listed(q.chunks) /\ q.answerable \in BOOLEAN
  BY DEF FixturesRead
<1>2. q.chunks # <<>> <=> ToSet(q.chunks) # {}
  <2>1. q.chunks \in Seq(ToSet(q.chunks)) /\ DOMAIN q.chunks = 1 .. Len(q.chunks) /\ Len(q.chunks) \in Nat
    BY <1>1 DEF Listed
  <2>2. CASE Len(q.chunks) = 0
    <3>1. q.chunks = <<>> /\ DOMAIN q.chunks = {}
      BY <2>1, <2>2
    <3> QED BY <3>1 DEF ToSet
  <2>3. CASE Len(q.chunks) # 0
    <3>1. q.chunks # <<>> /\ 1 \in DOMAIN q.chunks
      BY <2>1, <2>3
    <3> QED BY <3>1 DEF ToSet
  <2> QED BY <2>2, <2>3
<1>3. q.answerable <=> Relevant(q) # {}
  <2>1. ToSet(q.chunks) # {} <=> Relevant(q) # {}
    BY Zenon DEF Relevant, Labelled
  <2> QED BY <1>2, <2>1, Zenon DEF Labelled
<1>4. ASSUME NEW k \in Relevant(q) PROVE HomeOf(fixtures, k) = {q.notebook}
  <2>1. q.notebook \in HomeOf(fixtures, k)
    BY DEF Relevant, Labelled
  <2> QED BY <2>1, HomeIsOne
<1>5. ASSUME NEW c \in ToSet(q.claims) PROVE c.by # {} /\ c.by \subseteq {k.id : k \in Relevant(q)}
  <2>1. c.by # {} /\ c.by \subseteq ToSet(q.chunks)
    BY DEF Labelled
  <2>2. ASSUME NEW slug \in c.by PROVE slug \in {k.id : k \in Relevant(q)}
    <3>1. PICK k : k \in Entry(fixtures.chunks, slug)
      BY <2>1 DEF Labelled
    <3>2. k.id = slug
      BY <3>1, EntryIs DEF FixturesRead
    <3>3. k \in Relevant(q)
      BY <2>1, <3>1 DEF Relevant
    <3> QED BY <3>2, <3>3
  <2> QED BY <2>1, <2>2
<1>6. ASSUME NEW k \in ToSet(fixtures.chunks), k.source \in q.forbidden
      PROVE  q.notebook \notin HomeOf(fixtures, k)
  BY <1>6 DEF Labelled, ForbidsRightly, HomeOf
<1> QED BY <1>3, <1>4, <1>5, <1>6 DEF LabelsOf

LEMMA ChunkIs ==
  ASSUME FixturesRead, NEW slug, NEW k \in Entry(fixtures.chunks, slug)
  PROVE  Chunk(slug) = k /\ k \in ToSet(fixtures.chunks) /\ k.id = slug
<1>1. Chunk(slug) \in Entry(fixtures.chunks, slug)
  BY DEF Chunk
<1> QED BY <1>1, EntryIs DEF FixturesRead

(* Two functions that start alike and go on alike.                         *)
LEMMA AlikeAlong ==
  ASSUME NEW N \in Nat, NEW f, NEW g, f[0] = g[0],
         \A n \in 1 .. N : f[n - 1] = g[n - 1] => f[n] = g[n]
  PROVE  \A n \in 0 .. N : f[n] = g[n]
<1> DEFINE Bad == {n \in 0 .. N : f[n] # g[n]}
<1> SUFFICES ASSUME Bad # {} PROVE FALSE
  OBVIOUS
<1>0. Bad \subseteq Nat
  OBVIOUS
<1>1. PICK m \in Bad : \A k \in Bad : m <= k
  <2> HIDE DEF Bad
  <2> QED BY <1>0, LeastOf
<1>2. m \in 1 .. N /\ f[m] # g[m]
  BY <1>1
<1>3. m - 1 \in 0 .. N /\ m - 1 \notin Bad
  BY <1>1, <1>2
<1> QED BY <1>2, <1>3

(* A sum is what a running total of the figures ends with.                 *)
Sums(f, figures, P) ==
  /\ f \in [0 .. Len(figures) -> Nat] /\ f[0] = 0
  /\ \A n \in 1 .. Len(figures) : f[n] = f[n - 1] + (IF n \in P THEN figures[n] ELSE 0)

LEMMA TotalRuns ==
  ASSUME NEW figures \in Seq(Nat), NEW P
  PROVE  \E f : Sums(f, figures, P) /\ Total(figures, P) = f[Len(figures)]
<1> DEFINE N == Len(figures)
           F == [n \in 1 .. N |-> [t \in Nat |-> t + (IF n \in P THEN figures[n] ELSE 0)]]
           Fill(h) == [k \in 0 .. Len(figures) |->
                         IF k = 0 THEN 0 ELSE h[k - 1] + (IF k \in P THEN figures[k] ELSE 0)]
           upTo == CHOOSE h : h = Fill(h)
<1>1. N \in Nat
  OBVIOUS
<1>2. F \in [1 .. N -> [Nat -> Nat]]
  OBVIOUS
<1>3. \A n \in 1 .. N, t \in Nat : F[n][t] = t + (IF n \in P THEN figures[n] ELSE 0)
  OBVIOUS
<1> HIDE DEF F
<1>4. PICK f : Along(f, Nat, N, 0, F)
  <2> HIDE DEF N
  <2> QED BY <1>1, <1>2, DefinedAlong
<1>5. Sums(f, figures, P)
  <2>1. \A n \in 1 .. N : f[n - 1] \in Nat
    <3>1. f \in [0 .. N -> Nat] /\ \A n \in 1 .. N : n - 1 \in 0 .. N
      BY <1>1, <1>4 DEF Along
    <3> QED BY <3>1
  <2> QED BY <1>1, <1>3, <1>4, <2>1 DEF Along, Sums
<1>6. f = Fill(f)
  <2> DEFINE u == Fill(f)
  <2>1. \A n \in 0 .. N : u[n] = f[n]
    BY <1>1, <1>5 DEF Sums
  <2>2. u = [n \in 0 .. N |-> u[n]] /\ f = [n \in 0 .. N |-> f[n]]
    BY <1>5 DEF Sums
  <2> HIDE DEF u
  <2>3. u = f
    BY <2>1, <2>2
  <2> QED BY <2>3 DEF u
<1>7. upTo = Fill(upTo)
  BY <1>6
<1>8. Total(figures, P) = upTo[N]
  BY DEF Total
<1> HIDE DEF upTo
<1>9. \A n \in 0 .. N : upTo[n] = f[n]
  <2>1. upTo[0] = f[0]
    BY <1>1, <1>5, <1>7 DEF Sums
  <2>2. ASSUME NEW n \in 1 .. N, upTo[n - 1] = f[n - 1] PROVE upTo[n] = f[n]
    <3>1. n \in 0 .. N /\ n # 0
      BY <1>1
    <3>2. upTo[n] = upTo[n - 1] + (IF n \in P THEN figures[n] ELSE 0)
      BY <1>7, <3>1
    <3>3. f[n] = f[n - 1] + (IF n \in P THEN figures[n] ELSE 0)
      BY <1>5 DEF Sums
    <3> QED BY <2>2, <3>2, <3>3, Zenon
  <2> HIDE DEF N
  <2> QED BY <1>1, <2>1, <2>2, AlikeAlong
<1> QED BY <1>1, <1>5, <1>8, <1>9

(* A sum of naturals is nothing only if each of them is.                   *)
LEMMA NothingInTotal ==
  ASSUME NEW figures \in Seq(Nat), NEW P
  PROVE  /\ Total(figures, P) \in Nat
         /\ Total(figures, P) = 0 => \A i \in DOMAIN figures : i \in P => figures[i] = 0
<1> DEFINE N == Len(figures)
<1>1. PICK f : Sums(f, figures, P) /\ Total(figures, P) = f[N]
  BY TotalRuns
<1>2. N \in Nat /\ DOMAIN figures = 1 .. N /\ \A i \in 1 .. N : figures[i] \in Nat
  OBVIOUS
<1>3. f \in [0 .. N -> Nat] /\ \A n \in 1 .. N : f[n] = f[n - 1] + (IF n \in P THEN figures[n] ELSE 0)
  BY <1>1 DEF Sums
<1> HIDE DEF N
<1>4. ASSUME f[N] = 0, NEW i \in 1 .. N, i \in P PROVE figures[i] = 0
  <2> DEFINE Later == {n \in i .. N : f[n] > 0}
             Back == {d \in 0 .. N - i : f[N - d] > 0}
  <2> SUFFICES ASSUME figures[i] # 0 PROVE FALSE
    OBVIOUS
  <2>1. f[i] > 0
    <3>1. f[i] = f[i - 1] + figures[i] /\ f[i - 1] \in Nat /\ figures[i] \in Nat
      BY <1>2, <1>3, <1>4
    <3> QED BY <3>1
  <2>2. N - i \in Back
    <3>1. N - i \in 0 .. N - i /\ N - (N - i) = i
      BY <1>2
    <3> QED BY <2>1, <3>1
  <2>3. PICK d \in Back : \A e \in Back : d <= e
    <3>1. Back \subseteq Nat
      OBVIOUS
    <3> HIDE DEF Back
    <3> QED BY <2>2, <3>1, LeastOf
  <2>4. d \in 0 .. N - i /\ f[N - d] > 0 /\ d # 0
    BY <1>2, <1>4, <2>3
  <2>5. d - 1 \in 0 .. N - i /\ d - 1 \notin Back
    BY <1>2, <2>3, <2>4
  <2> DEFINE n == N - d
  <2>6. n \in 0 .. N /\ n + 1 \in 1 .. N /\ N - (d - 1) = n + 1 /\ (n + 1) - 1 = n
    BY <1>2, <2>4
  <2> HIDE DEF n
  <2>7. f[n] > 0 /\ ~(f[n + 1] > 0)
    BY <2>4, <2>5, <2>6 DEF n
  <2>8. f[n + 1] = f[n] + (IF n + 1 \in P THEN figures[n + 1] ELSE 0)
    BY <1>3, <2>6
  <2>9. f[n] \in Nat /\ figures[n + 1] \in Nat
    BY <1>2, <1>3, <2>6
  <2> QED BY <2>7, <2>8, <2>9
<1> QED BY <1>1, <1>2, <1>3, <1>4

(* A citation carries at most one claim, and one the text makes.           *)
LEMMA AssociatedIs ==
  ASSUME NEW pieces, Listed(pieces), NEW asserted
  PROVE  \A n \in 0 .. Len(pieces) :
           /\ Associated(pieces, asserted)[n] \subseteq asserted
           /\ \A c, d \in Associated(pieces, asserted)[n] : c = d
<1> DEFINE N == Len(pieces)
           direct(n) == {c \in asserted : Asserts(Segment(pieces, n), c)}
           R == {s \in SUBSET asserted : \A c, d \in s : c = d}
           G(n, s) == IF n \notin CitesAt(pieces) THEN s
                      ELSE IF \E c \in asserted : direct(n) = {c} THEN direct(n)
                      ELSE IF \A p \in ToSet(Segment(pieces, n)) : p[1] = "mark" THEN s
                      ELSE {}
           F == [n \in 1 .. N |-> [s \in R |-> G(n, s)]]
           Fill(h) == [n \in 0 .. Len(pieces) |->
                         IF n = 0 THEN {}
                         ELSE IF n \notin CitesAt(pieces) THEN h[n - 1]
                         ELSE IF \E c \in asserted : direct(n) = {c} THEN direct(n)
                         ELSE IF \A p \in ToSet(Segment(pieces, n)) : p[1] = "mark" THEN h[n - 1]
                         ELSE {}]
           claims == CHOOSE h : h = Fill(h)
<1>1. N \in Nat
  BY DEF Listed
<1>2. \A h : Fill(h) = [n \in 0 .. N |-> IF n = 0 THEN {} ELSE G(n, h[n - 1])]
  <2> SUFFICES ASSUME NEW h PROVE Fill(h) = [n \in 0 .. N |-> IF n = 0 THEN {} ELSE G(n, h[n - 1])]
    OBVIOUS
  <2>1. \A n : (IF n = 0 THEN {}
                ELSE IF n \notin CitesAt(pieces) THEN h[n - 1]
                ELSE IF \E c \in asserted : direct(n) = {c} THEN direct(n)
                ELSE IF \A p \in ToSet(Segment(pieces, n)) : p[1] = "mark" THEN h[n - 1]
                ELSE {}) = (IF n = 0 THEN {} ELSE G(n, h[n - 1]))
    OBVIOUS
  <2> QED BY <2>1
<1>3. Associated(pieces, asserted) = claims
  BY DEF Associated
<1>4. {} \in R
  OBVIOUS
<1>5. ASSUME NEW n \in 1 .. N, NEW s \in R PROVE G(n, s) \in R
  <2>1. CASE n \in CitesAt(pieces) /\ \E c \in asserted : direct(n) = {c}
    <3> PICK c \in asserted : direct(n) = {c}
      BY <2>1
    <3>1. G(n, s) = {c}
      BY <2>1
    <3> HIDE DEF G
    <3> QED BY <3>1
  <2>2. CASE ~(n \in CitesAt(pieces) /\ \E c \in asserted : direct(n) = {c})
    <3>1. G(n, s) = s \/ G(n, s) = {}
      BY <2>2
    <3> HIDE DEF G, R
    <3> QED BY <1>4, <3>1
  <2> HIDE DEF G, R
  <2> QED BY <2>1, <2>2
<1> HIDE DEF Fill, G, R
<1>6. F \in [1 .. N -> [R -> R]] /\ \A n \in 1 .. N, s \in R : F[n][s] = G(n, s)
  BY <1>5
<1> HIDE DEF F
<1>7. PICK f : Along(f, R, N, {}, F)
  <2> HIDE DEF N
  <2> QED BY <1>1, <1>4, <1>6, DefinedAlong
<1>8. f \in [0 .. N -> R] /\ f[0] = {} /\ \A n \in 1 .. N : f[n] = G(n, f[n - 1])
  <2> HIDE DEF N
  <2>1. f \in [0 .. N -> R] /\ \A n \in 1 .. N : n - 1 \in 0 .. N
    BY <1>1, <1>7 DEF Along
  <2> QED BY <1>6, <1>7, <2>1 DEF Along
<1> HIDE DEF N
<1>9. f = Fill(f)
  <2> DEFINE u == [n \in 0 .. N |-> IF n = 0 THEN {} ELSE G(n, f[n - 1])]
  <2>1. \A n \in 0 .. N : u[n] = f[n]
    BY <1>1, <1>8
  <2>2. u = [n \in 0 .. N |-> u[n]] /\ f = [n \in 0 .. N |-> f[n]]
    BY <1>8
  <2>3. u = f
    <3> HIDE DEF u
    <3> QED BY <2>1, <2>2
  <2> QED BY <1>2, <2>3
<1>10. claims = Fill(claims)
  BY <1>9
<1> HIDE DEF claims
<1>11. \A n \in 0 .. N : claims[n] = f[n]
  <2>1. claims[0] = f[0]
    BY <1>1, <1>2, <1>8, <1>10
  <2>2. ASSUME NEW n \in 1 .. N, claims[n - 1] = f[n - 1] PROVE claims[n] = f[n]
    <3>1. n \in 0 .. N /\ n # 0
      BY <1>1
    <3>2. claims[n] = G(n, claims[n - 1])
      BY <1>2, <1>10, <3>1
    <3> QED BY <1>8, <2>2, <3>2
  <2> QED BY <1>1, <2>1, <2>2, AlikeAlong
<1>12. \A n \in 0 .. N : claims[n] \in R
  BY <1>8, <1>11
<1> QED BY <1>3, <1>12 DEF R, N

CaseKinds == {"answered", "abstained", "error"}

(* What a scored answer says of its case.                                  *)
ScoredFor(o, q) ==
  /\ q \in ToSet(fixtures.queries) /\ q.id = o.case.query /\ o.category = q.category
  /\ \A c \in o.supported :
       /\ o.case.current /\ Asserts(o.case.text, c)
       /\ \E p \in ToSet(o.case.text) :
            p[1] = "cites" /\ p[2] \in c.by /\ q.notebook \in HomeOf(fixtures, Chunk(p[2]))
  /\ o.case.current /\ o.case.kind = "answered" /\ <<"fallback">> \notin ToSet(o.case.text) =>
       \A j \in CitesAt(o.case.text) :
         /\ j \in DOMAIN o.verdicts
         /\ Entry(fixtures.chunks, o.case.text[j][2]) # {} /\ o.verdicts[j] # "cross_notebook" =>
              q.notebook \in HomeOf(fixtures, Chunk(o.case.text[j][2]))

AnswerFits(o) ==
  /\ o.class \in CaseClasses /\ \A j \in DOMAIN o.verdicts : o.verdicts[j] \in CitationVerdicts
  /\ IsFiniteSet(DOMAIN o.verdicts)
  /\ \/ o.category = "unknown" /\ o.supported = {}
     \/ \E q \in ToSet(fixtures.queries) : ScoredFor(o, q)

LEMMA AnswerIs ==
  ASSUME FixturesRead, NEW case, Listed(case.text), case.kind \in CaseKinds
  PROVE  AnswerScore(case).case = case /\ AnswerFits(AnswerScore(case))
<1>1. CASE Entry(fixtures.queries, case.query) = {}
  <2>1. AnswerScore(case) = Unscored(case)
    BY <1>1 DEF AnswerScore
  <2>2. DOMAIN Unscored(case).verdicts = {}
    BY DEF Unscored
  <2> QED BY <2>1, <2>2, FS_EmptySet DEF Unscored, AnswerFits, CaseClasses
<1>2. CASE Entry(fixtures.queries, case.query) # {}
  <2> DEFINE q == CHOOSE x \in Entry(fixtures.queries, case.query) : TRUE
             erred == (case.kind = "error")
             abstained == \/ case.kind = "abstained"
                          \/ case.kind = "answered" /\ <<"fallback">> \in ToSet(case.text)
             unnamed == IF case.kind = "answered"
                         THEN {i \in DOMAIN case.text : case.text[i] = <<"rejected">>} ELSE {}
             asserted == IF erred \/ abstained THEN {} ELSE AssertedBy(case.text, q)
             cites == IF erred \/ abstained THEN {} ELSE CitesAt(case.text)
             claims == Associated(case.text, asserted)
             verdict == [i \in cites \cup unnamed |->
                           IF i \in unnamed THEN "malformed_marker"
                           ELSE CitationVerdict(q, case, i, claims[i])]
             supported == UNION {claims[i] : i \in {j \in cites : verdict[j] = "correct"}}
             expected == ~q.answerable \/ ~case.sufficient
             class == IF erred THEN "provider_error"
                      ELSE IF unnamed # {} THEN "malformed_citation"
                      ELSE ClassOf(abstained, expected, cites # {})
             o == AnswerScore(case)
  <2>1. /\ o.case = case /\ o.category = q.category /\ o.class = class
        /\ o.supported = asserted \cap supported /\ o.verdicts = verdict
    BY <1>2, Zenon DEF AnswerScore
  <2> HIDE DEF o
  <2>2. class \in CaseClasses
    BY DEF ClassOf, CaseClasses
  <2>3. q \in ToSet(fixtures.queries) /\ q.id = case.query
    <3>1. q \in Entry(fixtures.queries, case.query)
      BY <1>2
    <3> HIDE DEF q
    <3> QED BY <3>1, EntryIs DEF FixturesRead
  <2> HIDE DEF q, class
  <2>4. DOMAIN verdict = cites \cup unnamed /\ cites \subseteq CitesAt(case.text)
        /\ unnamed \subseteq DOMAIN case.text /\ \A i \in unnamed : case.text[i] = <<"rejected">>
    OBVIOUS
  <2>5. cites \cup unnamed \subseteq DOMAIN case.text /\ IsFiniteSet(cites \cup unnamed)
    <3>1. cites \cup unnamed \subseteq DOMAIN case.text
      BY <2>4 DEF CitesAt
    <3>2. IsFiniteSet(DOMAIN case.text)
      <4>1. DOMAIN case.text = 1 .. Len(case.text) /\ Len(case.text) \in Nat
        BY DEF Listed
      <4> QED BY <4>1, NumbersUpTo
    <3> HIDE DEF cites, unnamed
    <3> QED BY <3>1, <3>2, FS_Subset
  <2>6. \A i \in cites : i \notin unnamed
    <3> SUFFICES ASSUME NEW i \in cites, i \in unnamed PROVE FALSE
      OBVIOUS
    <3>1. case.text[i][1] \in {"cites", "misquotes"} /\ case.text[i] = <<"rejected">>
      BY <2>4 DEF CitesAt
    <3>2. <<"rejected">>[1] = "rejected"
      OBVIOUS
    <3> QED BY <3>1, <3>2
  <2>7. \A i \in cites : verdict[i] = CitationVerdict(q, case, i, claims[i])
    BY <2>6
  <2>8. \A j \in DOMAIN verdict : verdict[j] \in CitationVerdicts
    BY DEF CitationVerdict, CitationVerdicts
  <2>9. asserted \subseteq AssertedBy(case.text, q)
    OBVIOUS
  <2>10. \A n \in CitesAt(case.text) : \A c, d \in claims[n] : c = d
    <3>1. \A n \in CitesAt(case.text) : n \in 0 .. Len(case.text)
      BY DEF CitesAt, Listed
    <3> HIDE DEF asserted
    <3> QED BY <3>1, AssociatedIs
  <2>11. ~erred /\ ~abstained => cites = CitesAt(case.text)
    OBVIOUS
  <2>12. erred <=> case.kind = "error"
    OBVIOUS
  <2>13. abstained <=> (case.kind = "abstained" \/ (case.kind = "answered" /\ <<"fallback">> \in ToSet(case.text)))
    OBVIOUS
  <2> HIDE DEF erred, abstained, unnamed, asserted, cites, claims, verdict
  <2>14. ASSUME NEW c \in o.supported
         PROVE  /\ case.current /\ Asserts(case.text, c)
                /\ \E p \in ToSet(case.text) :
                     p[1] = "cites" /\ p[2] \in c.by /\ q.notebook \in HomeOf(fixtures, Chunk(p[2]))
    <3>1. c \in asserted /\ \E i \in cites : verdict[i] = "correct" /\ c \in claims[i]
      BY <2>1
    <3>2. PICK i \in cites : verdict[i] = "correct" /\ c \in claims[i]
      BY <3>1
    <3>3. i \in CitesAt(case.text) /\ i \in DOMAIN case.text
      BY <2>4, <2>5
    <3>4. CitationVerdict(q, case, i, claims[i]) = "correct"
      BY <2>7, <3>2
    <3> DEFINE slug == case.text[i][2]
    <3>5. /\ case.current /\ q.notebook \in HomeOf(fixtures, Chunk(slug))
          /\ case.text[i][1] # "misquotes" /\ \E d \in claims[i] : slug \in d.by
      BY <3>4 DEF CitationVerdict
    <3>6. slug \in c.by
      BY <2>10, <3>2, <3>3, <3>5
    <3>7. case.text[i][1] = "cites" /\ case.text[i] \in ToSet(case.text)
      BY <3>3, <3>5 DEF CitesAt, ToSet
    <3>8. Asserts(case.text, c)
      BY <2>9, <3>1 DEF AssertedBy
    <3> QED BY <3>5, <3>6, <3>7, <3>8
  <2>15. ASSUME case.current, case.kind = "answered", <<"fallback">> \notin ToSet(case.text),
                NEW j \in CitesAt(case.text)
         PROVE  /\ j \in DOMAIN o.verdicts
                /\ Entry(fixtures.chunks, case.text[j][2]) # {} /\ o.verdicts[j] # "cross_notebook" =>
                     q.notebook \in HomeOf(fixtures, Chunk(case.text[j][2]))
    <3>1. j \in cites
      BY <2>11, <2>12, <2>13, <2>15
    <3>2. j \in DOMAIN o.verdicts /\ o.verdicts[j] = CitationVerdict(q, case, j, claims[j])
      BY <2>1, <2>4, <2>7, <3>1
    <3> QED BY <2>15, <3>2 DEF CitationVerdict
  <2>16. ScoredFor(o, q)
    BY <2>1, <2>3, <2>14, <2>15 DEF ScoredFor
  <2> QED BY <2>1, <2>2, <2>3, <2>4, <2>5, <2>8, <2>16 DEF AnswerFits, o
<1> QED BY <1>1, <1>2

(* A search that was scored is one the index may have made.                *)
SearchFits(q, s) == Listed(s.found) /\ Retrieved(q, s.found) /\ s = ScoreOf(q, s.found)

Stages == {"start", "refused", "measuring", "failed", "captured", "blocked", "released"}

MeasuredWhole == Len(scored) = Len(MeasuredQueries) /\ Len(answers) >= Len(scored)

(* What is released is the artifact of these scores, and does not block.   *)
ReleaseFits ==
  /\ gate.artifact = Artifact /\ MeasuredWhole
  /\ gate.against \in Approved /\ MissingMetrics(gate.against) = {}
  /\ \E enforce \in Enforcements : ~Blocking(gate.against, gate.artifact, enforce)

EvalIInv ==
  /\ revision \in DOMAIN Fixtures /\ scoped \in BOOLEAN
  /\ gate = [at |-> gate.at, artifact |-> gate.artifact, against |-> gate.against] /\ gate.at \in Stages
  /\ gate.at \in {"start", "refused"} => scored = <<>> /\ answers = <<>>
  /\ gate.at \notin {"start", "refused"} => Violations(fixtures) = {}
  /\ Listed(scored) /\ Len(scored) <= Len(MeasuredQueries)
  /\ \A i \in DOMAIN scored : SearchFits(MeasuredQueries[i], scored[i])
  /\ Listed(answers) /\ \A i \in DOMAIN answers : AnswerFits(answers[i])
  /\ gate.at \in {"start", "refused", "measuring", "failed"} => gate.artifact = NoArtifact
  /\ gate.at \in {"captured", "blocked", "released"} => gate.artifact = Artifact /\ MeasuredWhole
  /\ gate.at = "released" => ReleaseFits

LEMMA SeqIsListed ==
  ASSUME NEW T, NEW s \in Seq(T)
  PROVE  Listed(s)
<1>1. \A i \in 1 .. Len(s) : s[i] \in ToSet(s)
  BY DEF ToSet
<1> QED BY <1>1 DEF Listed

LEMMA ListedOn ==
  ASSUME NEW s, Listed(s), NEW x
  PROVE  /\ Listed(Append(s, x)) /\ Len(Append(s, x)) = Len(s) + 1 /\ Len(s) \in Nat
         /\ DOMAIN s = 1 .. Len(s) /\ DOMAIN Append(s, x) = 1 .. Len(s) + 1
         /\ \A i \in 1 .. Len(s) : Append(s, x)[i] = s[i]
         /\ Append(s, x)[Len(s) + 1] = x
<1>1. s \in Seq(ToSet(s) \cup {x})
  BY DEF Listed
<1> DEFINE T == ToSet(s) \cup {x}
<1>2. x \in T
  OBVIOUS
<1> HIDE DEF T
<1>3. Append(s, x) \in Seq(T)
  BY <1>1, <1>2 DEF T
<1>4. Listed(Append(s, x))
  BY <1>3, SeqIsListed
<1> QED BY <1>1, <1>2, <1>4 DEF T

(* Nothing about a score changes while the corpus and the search do not.   *)
LEMMA ScoresStay ==
  ASSUME revision' = revision, scoped' = scoped
  PROVE  /\ fixtures' = fixtures /\ MeasuredQueries' = MeasuredQueries
         /\ \A q, s : SearchFits(q, s)' <=> SearchFits(q, s)
         /\ \A o : AnswerFits(o)' <=> AnswerFits(o)
<1>1. fixtures' = fixtures
  BY DEF fixtures
<1>2. MeasuredQueries' = MeasuredQueries
  BY <1>1 DEF MeasuredQueries
<1>3. \A slug : Chunk(slug)' = Chunk(slug)
  BY <1>1 DEF Chunk
<1>4. \A q : Relevant(q)' = Relevant(q)
  BY <1>1 DEF Relevant
<1>5. \A found : UniqueParents(found)' = UniqueParents(found)
  BY <1>1 DEF UniqueParents, Chunk
<1>6. \A q, found : ScoreOf(q, found)' = ScoreOf(q, found)
  BY <1>1 DEF ScoreOf, UniqueParents, Relevant, Chunk
<1>7. \A q, found : Retrieved(q, found)' <=> Retrieved(q, found)
  BY <1>1 DEF Retrieved
<1>8. \A q, s : SearchFits(q, s)' <=> SearchFits(q, s)
  BY <1>6, <1>7 DEF SearchFits
<1>9. \A o, q : ScoredFor(o, q)' <=> ScoredFor(o, q)
  BY <1>1 DEF ScoredFor, Chunk
<1>10. \A o : AnswerFits(o)' <=> AnswerFits(o)
  BY <1>1, <1>9 DEF AnswerFits
<1> QED BY <1>1, <1>2, <1>8, <1>10

LEMMA ArtifactStays ==
  ASSUME UNCHANGED <<revision, scored, answers>>
  PROVE  Artifact' = Artifact
<1>1. \A P : RetrievalMetrics(P)' = RetrievalMetrics(P)
  BY DEF RetrievalMetrics
<1>2. \A P : GroundingMetrics(P)' = GroundingMetrics(P)
  BY DEF GroundingMetrics
<1> QED BY <1>1, <1>2 DEF Artifact, fixtures, RetrievalMetrics, GroundingMetrics

LEMMA MeasuredAre ==
  ASSUME FixturesRead
  PROVE  /\ MeasuredQueries \in Seq(ToSet(fixtures.queries)) /\ Len(MeasuredQueries) \in Nat
         /\ \A i \in 1 .. Len(MeasuredQueries) : MeasuredQueries[i] \in ToSet(fixtures.queries)
<1> DEFINE T == ToSet(fixtures.queries)
           S == {j \in DOMAIN fixtures.queries : fixtures.queries[j].split = "train"}
<1>1. fixtures.queries \in Seq(T) /\ S \in SUBSET (DOMAIN fixtures.queries)
  BY DEF FixturesRead, Listed
<1>2. MeasuredQueries = Picked(fixtures.queries, S)
  BY DEF MeasuredQueries, InSplit
<1> HIDE DEF T, S
<1>3. MeasuredQueries \in Seq(T)
  BY <1>1, <1>2, PickedInOrder
<1> QED BY <1>3 DEF T

LEMMA EvalInitially == EvalInit => EvalIInv
<1> SUFFICES ASSUME EvalInit PROVE EvalIInv
  OBVIOUS
<1>1. FixturesRead
  BY FixturesAreRead DEF EvalInit
<1>2. Len(MeasuredQueries) \in Nat
  BY <1>1, MeasuredAre
<1>3. Listed(<<>>) /\ Len(<<>>) = 0 /\ DOMAIN <<>> = {}
  BY DEF Listed
<1> QED BY <1>2, <1>3 DEF EvalInit, EvalIInv, Stages

LEMMA EvalStep ==
  ASSUME EvalIInv, [EvalNext]_evalVars
  PROVE  EvalIInv'
<1> USE DEF EvalIInv
<1>1. FixturesRead /\ Len(MeasuredQueries) \in Nat
  BY FixturesAreRead, MeasuredAre
<1>2. /\ revision' = revision /\ scoped' = scoped
  BY DEF EvalNext, evalVars, LoadValidated, SearchQuery, AnswerQuery, AddRecorded, MeasurementFails,
         Capture, CompareBaselines
<1>3. /\ fixtures' = fixtures /\ MeasuredQueries' = MeasuredQueries
      /\ \A q, s : SearchFits(q, s)' <=> SearchFits(q, s)
      /\ \A o : AnswerFits(o)' <=> AnswerFits(o)
  BY <1>2, ScoresStay
<1>4. CASE UNCHANGED <<scored, answers>>
  <2>1. /\ Listed(scored)' /\ Len(scored') <= Len(MeasuredQueries)'
        /\ \A i \in DOMAIN scored' : SearchFits(MeasuredQueries[i], scored[i])'
        /\ Listed(answers)' /\ \A i \in DOMAIN answers' : AnswerFits(answers[i])'
    BY <1>3, <1>4 DEF Listed
  <2>2. Artifact' = Artifact /\ (MeasuredWhole' <=> MeasuredWhole)
    BY <1>2, <1>3, <1>4, ArtifactStays DEF MeasuredWhole
  <2>3. /\ gate' = [at |-> gate'.at, artifact |-> gate'.artifact, against |-> gate'.against]
        /\ gate'.at \in Stages
        /\ gate'.at \in {"start", "refused"} => scored' = <<>> /\ answers' = <<>>
        /\ gate'.at \notin {"start", "refused"} => Violations(fixtures) = {}
        /\ gate'.at \in {"start", "refused", "measuring", "failed"} => gate'.artifact = NoArtifact
        /\ gate'.at \in {"captured", "blocked", "released"} => gate'.artifact = Artifact /\ MeasuredWhole
        /\ gate'.at = "released" =>
             /\ gate'.against \in Approved /\ MissingMetrics(gate'.against) = {}
             /\ \E enforce \in Enforcements : ~Blocking(gate'.against, gate'.artifact, enforce)
    <3>1. CASE LoadValidated
      <4>1. CASE Malformed(fixtures) # {} \/ Violations(fixtures) # {}
        BY <1>4, <3>1, <4>1 DEF LoadValidated, Exit, Stages
      <4>2. CASE ~(Malformed(fixtures) # {} \/ Violations(fixtures) # {})
        BY <1>4, <3>1, <4>2 DEF LoadValidated, Exit, Stages
      <4> QED BY <4>1, <4>2
    <3>2. CASE MeasurementFails
      BY <1>4, <3>2 DEF MeasurementFails, Exit, Stages
    <3>3. CASE Capture
      BY <1>4, <3>3 DEF Capture, Exit, Stages, MeasuredWhole
    <3>4. CASE CompareBaselines
      <4>1. PICK old \in Approved, enforce \in Enforcements :
              gate' = [gate EXCEPT !.against = old,
                         !.at = IF MissingMetrics(old) # {} \/ Blocking(old, gate.artifact, enforce)
                                THEN "blocked" ELSE "released"]
        BY <3>4 DEF CompareBaselines
      <4>2. CASE MissingMetrics(old) # {} \/ Blocking(old, gate.artifact, enforce)
        BY <1>4, <3>4, <4>1, <4>2 DEF CompareBaselines, Stages
      <4>3. CASE ~(MissingMetrics(old) # {} \/ Blocking(old, gate.artifact, enforce))
        BY <1>4, <3>4, <4>1, <4>3 DEF CompareBaselines, Stages
      <4> QED BY <4>2, <4>3
    <3>5. CASE gate' = gate
      BY <1>4, <3>5 DEF ReleaseFits
    <3>6. SearchQuery \/ AnswerQuery \/ AddRecorded => gate' = gate
      BY DEF SearchQuery, AnswerQuery, AddRecorded
    <3> QED BY <3>1, <3>2, <3>3, <3>4, <3>5, <3>6 DEF EvalNext, evalVars
  <2>4. revision' \in DOMAIN Fixtures /\ scoped' \in BOOLEAN
    BY <1>2
  <2>5. gate'.at = "released" => ReleaseFits'
    BY <2>2, <2>3 DEF ReleaseFits
  <2>6. gate'.at \notin {"start", "refused"} => Violations(fixtures') = {}
    BY <1>3, <2>3
  <2> QED BY <2>1, <2>2, <2>3, <2>4, <2>5, <2>6
<1>5. CASE SearchQuery
  <2> DEFINE n == Len(scored)
             q == MeasuredQueries[n + 1]
  <2>1. PICK found \in Found : Retrieved(q, found) /\ scored' = Append(scored, ScoreOf(q, found))
    BY <1>5 DEF SearchQuery
  <2> DEFINE s == ScoreOf(q, found)
  <2>2. SearchFits(q, s)
    <3>1. s.found = found
      BY DEF ScoreOf
    <3>2. Listed(found)
      BY EvalAssumption
    <3> HIDE DEF q
    <3> QED BY <2>1, <3>1, <3>2 DEF SearchFits
  <2> HIDE DEF s
  <2>3. /\ Listed(scored') /\ Len(scored') = n + 1 /\ n \in Nat /\ DOMAIN scored = 1 .. n
        /\ DOMAIN scored' = 1 .. n + 1 /\ (\A i \in 1 .. n : scored'[i] = scored[i]) /\ scored'[n + 1] = s
    BY <2>1, ListedOn DEF s
  <2>4. Len(scored') <= Len(MeasuredQueries)
    BY <1>1, <1>5, <2>3 DEF SearchQuery
  <2>5. ASSUME NEW i \in DOMAIN scored' PROVE SearchFits(MeasuredQueries[i], scored[i])'
    <3>1. SearchFits(MeasuredQueries[i], scored'[i])
      <4>1. CASE i \in 1 .. n
        BY <2>3, <4>1
      <4>2. CASE i = n + 1
        BY <2>2, <2>3, <4>2
      <4> QED BY <2>3, <2>5, <4>1, <4>2
    <3> QED BY <1>3, <3>1
  <2>6. /\ gate.at = "measuring" /\ gate' = gate /\ answers' = answers
    BY <1>5 DEF SearchQuery
  <2>7. \A i \in DOMAIN answers' : AnswerFits(answers[i])'
    BY <1>3, <2>6
  <2>8. Listed(scored)' /\ Listed(answers)'
    BY <2>3, <2>6 DEF Listed
  <2> QED BY <1>2, <1>3, <2>4, <2>5, <2>6, <2>7, <2>8
<1>6. CASE AnswerQuery \/ AddRecorded
  <2> DEFINE n == Len(answers)
  <2>1. PICK case : Listed(case.text) /\ case.kind \in CaseKinds /\ answers' = Append(answers, AnswerScore(case))
    <3>1. CASE AnswerQuery
      <4> DEFINE q == MeasuredQueries[n + 1]
                 found == scored[n + 1].found
      <4>1. PICK written \in Written :
              answers' = Append(answers, AnswerScore(
                [query |-> q.id, current |-> TRUE, text |-> Rendered(written, found),
                 sufficient |-> ToSet(found) \cap {k.id : k \in Relevant(q)} # {},
                 kind |-> IF <<"fallback">> \in ToSet(written) THEN "abstained" ELSE "answered"]))
        BY <3>1 DEF AnswerQuery
      <4> DEFINE case == [query |-> q.id, current |-> TRUE, text |-> Rendered(written, found),
                          sufficient |-> ToSet(found) \cap {k.id : k \in Relevant(q)} # {},
                          kind |-> IF <<"fallback">> \in ToSet(written) THEN "abstained" ELSE "answered"]
      <4>2. case.text = Rendered(written, found) /\ case.kind \in CaseKinds
        BY DEF CaseKinds
      <4>3. Listed(Rendered(written, found))
        <5>1. written \in Seq(ToSet(written)) /\ DOMAIN written = 1 .. Len(written) /\ Len(written) \in Nat
          BY EvalAssumption DEF Listed
        <5> DEFINE r == Rendered(written, found)
                   T == {r[i] : i \in 1 .. Len(written)}
        <5>2. r = [i \in 1 .. Len(written) |-> r[i]]
          BY <5>1 DEF Rendered
        <5> HIDE DEF r
        <5>3. r \in Seq(T)
          BY <5>1, <5>2
        <5> QED BY <5>3, SeqIsListed DEF r
      <4>4. answers' = Append(answers, AnswerScore(case))
        BY <4>1
      <4> HIDE DEF case
      <4> QED BY <4>2, <4>3, <4>4
    <3>2. CASE AddRecorded
      BY <3>2, EvalAssumption DEF AddRecorded, CaseKinds
    <3> QED BY <1>6, <3>1, <3>2
  <2> DEFINE o == AnswerScore(case)
  <2>2. AnswerFits(o)
    BY <1>1, <2>1, AnswerIs
  <2> HIDE DEF o
  <2>3. /\ Listed(answers') /\ Len(answers') = n + 1 /\ n \in Nat /\ DOMAIN answers = 1 .. n
        /\ DOMAIN answers' = 1 .. n + 1 /\ (\A i \in 1 .. n : answers'[i] = answers[i]) /\ answers'[n + 1] = o
    BY <2>1, ListedOn DEF o
  <2>4. ASSUME NEW i \in DOMAIN answers' PROVE AnswerFits(answers[i])'
    <3>1. AnswerFits(answers'[i])
      <4>1. CASE i \in 1 .. n
        BY <2>3, <4>1
      <4>2. CASE i = n + 1
        BY <2>2, <2>3, <4>2
      <4> QED BY <2>3, <2>4, <4>1, <4>2
    <3> QED BY <1>3, <3>1
  <2>5. gate.at = "measuring" /\ gate' = gate /\ scored' = scored
    BY <1>6 DEF AnswerQuery, AddRecorded
  <2>6. \A i \in DOMAIN scored' : SearchFits(MeasuredQueries[i], scored[i])'
    BY <1>3, <2>5
  <2>7. Listed(scored)' /\ Listed(answers)'
    BY <2>3, <2>5 DEF Listed
  <2> QED BY <1>2, <1>3, <2>4, <2>5, <2>6, <2>7
<1> QED BY <1>4, <1>5, <1>6
        DEF EvalNext, evalVars, LoadValidated, MeasurementFails, Capture, CompareBaselines

LEMMA CorpusIsValid ==
  ASSUME EvalIInv, gate.at \notin {"start", "refused"}
  PROVE  /\ FixturesRead /\ Repeated(fixtures.queries) = {}
         /\ \A q \in ToSet(fixtures.queries) : Labelled(fixtures, q) /\ LabelsOf(q)
<1>1. FixturesRead
  BY FixturesAreRead DEF EvalIInv
<1>2. QueryViolations(fixtures) = {}
  <2>1. Violations(fixtures) = {}
    BY DEF EvalIInv
  <2> QED BY <2>1, Zenon DEF Violations
<1> QED BY <1>1, <1>2, ValidIsLabelled, LabelsHold

(* A search is charged with a breach just when it found a forbidden source. *)
LEMMA BreachIs ==
  ASSUME FixturesRead, NEW q \in ToSet(fixtures.queries), Labelled(fixtures, q), NEW s, SearchFits(q, s)
  PROVE  /\ s.breach <=> \E slug \in ToSet(s.found) : Chunk(slug).source \in q.forbidden
         /\ s.category = q.category /\ s.query = q.id /\ s.judged \in BOOLEAN /\ s.breach \in BOOLEAN
<1> DEFINE found == s.found
           ids == {x.id : x \in UNION {Entry(fixtures.sources, slug) : slug \in q.forbidden}}
<1>1. s = ScoreOf(q, found)
  BY DEF SearchFits
<1>2. ids = q.forbidden
  <2>1. \A slug \in q.forbidden : Entry(fixtures.sources, slug) # {}
    BY DEF Labelled, ForbidsRightly
  <2>2. \A slug : \A x \in Entry(fixtures.sources, slug) : x.id = slug
    BY EntryIs DEF FixturesRead
  <2> QED BY <2>1, <2>2
<1>3. s.breach <=> \E i \in DOMAIN found : Chunk(found[i]).source \in ids
  BY <1>1 DEF ScoreOf
<1>4. s.category = q.category /\ s.query = q.id /\ s.judged \in BOOLEAN /\ s.breach \in BOOLEAN
  <2> HIDE DEF found
  <2> QED BY <1>1 DEF ScoreOf
<1> HIDE DEF ids
<1> QED BY <1>2, <1>3, <1>4 DEF ToSet

LEMMA SearchesFit ==
  ASSUME EvalIInv, NEW i \in DOMAIN scored
  PROVE  /\ gate.at \notin {"start", "refused"} /\ SearchFits(MeasuredQueries[i], scored[i])
         /\ MeasuredQueries[i] \in ToSet(fixtures.queries)
<1>1. DOMAIN scored = 1 .. Len(scored) /\ Len(scored) \in Nat
  BY DEF EvalIInv, Listed
<1>2. FixturesRead
  BY FixturesAreRead DEF EvalIInv
<1>3. i \in 1 .. Len(MeasuredQueries)
  BY <1>1, <1>2, MeasuredAre DEF EvalIInv
<1>4. gate.at \notin {"start", "refused"}
  <2> SUFFICES ASSUME gate.at \in {"start", "refused"} PROVE FALSE
    OBVIOUS
  <2>1. scored = <<>>
    BY DEF EvalIInv
  <2> QED BY <2>1
<1> QED BY <1>2, <1>3, <1>4, MeasuredAre DEF EvalIInv

LEMMA AnswersFit ==
  ASSUME EvalIInv, NEW i \in DOMAIN answers
  PROVE  /\ gate.at \notin {"start", "refused"} /\ AnswerFits(answers[i])
         /\ \/ ~Known(answers[i]) /\ answers[i].supported = {}
            \/ /\ Known(answers[i]) /\ ScoredFor(answers[i], Asked(answers[i]))
               /\ answers[i].category \in Categories
<1> DEFINE o == answers[i]
<1>1. gate.at \notin {"start", "refused"}
  <2> SUFFICES ASSUME gate.at \in {"start", "refused"} PROVE FALSE
    OBVIOUS
  <2>1. answers = <<>>
    BY DEF EvalIInv
  <2> QED BY <2>1
<1>2. AnswerFits(o)
  BY DEF EvalIInv
<1>3. FixturesRead /\ Repeated(fixtures.queries) = {}
  BY <1>1, CorpusIsValid
<1> HIDE DEF o
<1>4. CASE o.category = "unknown" /\ o.supported = {}
  BY <1>1, <1>2, <1>4 DEF Known, o
<1>5. CASE \E q \in ToSet(fixtures.queries) : ScoredFor(o, q)
  <2>1. PICK q \in ToSet(fixtures.queries) : ScoredFor(o, q)
    BY <1>5
  <2>2. q.id = o.case.query
    BY <2>1 DEF ScoredFor
  <2>3. Asked(o) \in ToSet(fixtures.queries) /\ Asked(o).id = o.case.query
    BY <2>2 DEF Asked
  <2>4. Asked(o) = q
    BY <1>3, <2>2, <2>3, NamedOnce DEF FixturesRead
  <2>5. o.category \in Categories
    BY <1>3, <2>1 DEF ScoredFor, FixturesRead
  <2> QED BY <1>1, <1>2, <2>1, <2>4, <2>5 DEF Known, Categories, o
<1> QED BY <1>2, <1>4, <1>5 DEF AnswerFits

LEMMA LabelsFollow == EvalIInv => LabelsMeanTheSame
<1> SUFFICES ASSUME EvalIInv, Measured PROVE LabelsMeanTheSame
  BY DEF LabelsMeanTheSame
<1>1. gate.at \notin {"start", "refused"}
  BY DEF Measured
<1> QED BY <1>1, CorpusIsValid DEF LabelsMeanTheSame, LabelsOf

LEMMA NoFalseBreachFollows == EvalIInv => NoFalseBreach
<1> SUFFICES ASSUME EvalIInv, scoped, NEW i \in DOMAIN scored, scored[i].breach PROVE FALSE
  BY DEF NoFalseBreach
<1> DEFINE q == MeasuredQueries[i]
           s == scored[i]
<1>1. gate.at \notin {"start", "refused"} /\ SearchFits(q, s) /\ q \in ToSet(fixtures.queries)
  BY SearchesFit
<1>2. FixturesRead /\ Labelled(fixtures, q) /\ LabelsOf(q)
  BY <1>1, CorpusIsValid
<1> HIDE DEF q, s
<1>3. PICK slug \in ToSet(s.found) : Chunk(slug).source \in q.forbidden
  BY <1>1, <1>2, BreachIs DEF s
<1>4. PICK k \in Entry(fixtures.chunks, slug) : q.notebook \in HomeOf(fixtures, k)
  BY <1>1 DEF SearchFits, Retrieved
<1>5. Chunk(slug) = k /\ k \in ToSet(fixtures.chunks)
  BY <1>2, ChunkIs
<1> QED BY <1>2, <1>3, <1>4, <1>5 DEF LabelsOf

LEMMA SupportFollows == EvalIInv => SupportIsReal
<1> SUFFICES ASSUME EvalIInv, NEW i \in DOMAIN answers, NEW c \in answers[i].supported
             PROVE  LET o == answers[i] IN
                    /\ o.case.current /\ Asserts(o.case.text, c)
                    /\ \E p \in ToSet(o.case.text) : p[1] = "cites" /\ p[2] \in c.by
                         /\ Asked(o).notebook \in HomeOf(fixtures, Chunk(p[2]))
  BY DEF SupportIsReal
<1>1. ScoredFor(answers[i], Asked(answers[i]))
  BY AnswersFit
<1> QED BY <1>1 DEF ScoredFor

LEMMA ComparableFollows == EvalIInv => ReleaseIsComparable
<1> SUFFICES ASSUME EvalIInv, gate.at = "released" PROVE ReleaseIsComparable
  BY DEF ReleaseIsComparable
<1> DEFINE old == gate.against
           new == gate.artifact
<1>1. /\ new = Artifact /\ old \in Approved /\ MissingMetrics(old) = {}
      /\ \E enforce \in Enforcements : ~Blocking(old, new, enforce)
  BY DEF EvalIInv, ReleaseFits
<1>2. old.header = new.header /\ MissingCategories(old, new) = {} /\ Regressions(old, new) = {}
  <2> HIDE DEF old, new
  <2> QED BY <1>1 DEF Blocking
<1>3. DOMAIN new.retrieval.by = Categories
  BY <1>1 DEF Artifact
<1>4. ASSUME NEW k \in DOMAIN old.retrieval.by, new.retrieval.by[k].judged = 0
      PROVE  old.retrieval.by[k].recall <= Tolerance
  <2> DEFINE b == old.retrieval.by[k]
             a == new.retrieval.by[k]
             judged == {i \in InCategory(k, scored) : scored[i].judged}
  <2>1. k \in Categories
    BY <1>2, <1>3, <1>4 DEF MissingCategories
  <2>2. a = RetrievalMetrics(InCategory(k, scored))
    BY <1>1, <2>1 DEF Artifact
  <2>3. a.judged = Cardinality(judged) /\ a.recall = Mean([i \in DOMAIN scored |-> scored[i].recall], judged)
    BY <2>2 DEF RetrievalMetrics
  <2>4. IsFiniteSet(judged)
    <3>1. IsFiniteSet(DOMAIN scored)
      <4>1. DOMAIN scored = 1 .. Len(scored) /\ Len(scored) \in Nat
        BY DEF EvalIInv, Listed
      <4> QED BY <4>1, NumbersUpTo
    <3> QED BY <3>1, FS_Subset DEF InCategory
  <2>5. judged = {}
    <3> HIDE DEF judged
    <3> QED BY <1>4, <2>3, <2>4, FS_EmptySet
  <2>6. a.recall = 0
    <3> HIDE DEF judged
    <3> QED BY <2>3, <2>5 DEF Mean
  <2>7. ~((b.judged > 0 \/ a.judged > 0) /\ RetrievalFell(b, a))
    <3>1. k \in DOMAIN old.retrieval.by \cap DOMAIN new.retrieval.by
      BY <1>3, <1>4, <2>1
    <3> QED BY <1>2, <3>1 DEF Regressions
  <2>8. b.judged \in Nat /\ b.recall \in Nat /\ (b.judged = 0 => b.recall = 0)
    BY <1>1, <1>4, EvalAssumption
  <2> HIDE DEF a, b
  <2>9. CASE b.judged = 0
    BY <2>8, <2>9 DEF Tolerance, b
  <2>10. CASE b.judged # 0
    <3>1. ~Fell(b.recall, a.recall)
      BY <2>7, <2>8, <2>10 DEF RetrievalFell
    <3> QED BY <2>6, <2>8, <3>1 DEF Fell, Tolerance, b
  <2> QED BY <2>9, <2>10
<1> QED BY <1>1, <1>2, <1>4 DEF ReleaseIsComparable

(* A set counted by a function of four values.                             *)
LEMMA TwoParts ==
  ASSUME NEW A, NEW B, IsFiniteSet(A), IsFiniteSet(B), A \cap B = {}
  PROVE  /\ IsFiniteSet(A \cup B)
         /\ Cardinality(A) \in Nat /\ Cardinality(B) \in Nat
         /\ Cardinality(A \cup B) = Cardinality(A) + Cardinality(B)
<1>1. Cardinality(A) \in Nat /\ Cardinality(B) \in Nat /\ Cardinality(A \cap B) = 0
  BY FS_CardinalityType, FS_EmptySet
<1>2. /\ IsFiniteSet(A \cup B)
      /\ Cardinality(A \cup B) = Cardinality(A) + Cardinality(B) - Cardinality(A \cap B)
  BY FS_Union
<1> QED BY <1>1, <1>2

LEMMA FourParts ==
  ASSUME NEW n \in Nat, NEW S \in SUBSET (1 .. n), NEW items,
         \A i \in S : items[i].category \in Categories
  PROVE  /\ Cardinality(S) \in Nat
         /\ Cardinality(S) = Cardinality({i \in S : items[i].category = "paraphrase"})
                             + Cardinality({i \in S : items[i].category = "unanswerable"})
                             + Cardinality({i \in S : items[i].category = "multi_hop"})
                             + Cardinality({i \in S : items[i].category = "conflicting"})
<1> DEFINE A == {i \in S : items[i].category = "paraphrase"}
           B == {i \in S : items[i].category = "unanswerable"}
           C == {i \in S : items[i].category = "multi_hop"}
           D == {i \in S : items[i].category = "conflicting"}
<1>1. \A T \in SUBSET S : IsFiniteSet(T)
  <2>1. IsFiniteSet(1 .. n)
    BY NumbersUpTo
  <2>2. IsFiniteSet(S)
    BY <2>1, FS_Subset
  <2> QED BY <2>2, FS_Subset
<1>2. /\ A \in SUBSET S /\ B \in SUBSET S /\ C \in SUBSET S /\ D \in SUBSET S
      /\ S = (A \cup B) \cup (C \cup D)
      /\ A \cap B = {} /\ C \cap D = {} /\ (A \cup B) \cap (C \cup D) = {}
  BY DEF Categories
<1> HIDE DEF A, B, C, D
<1>3. /\ IsFiniteSet(A \cup B) /\ Cardinality(A) \in Nat /\ Cardinality(B) \in Nat
      /\ Cardinality(A \cup B) = Cardinality(A) + Cardinality(B)
  BY <1>1, <1>2, TwoParts
<1>4. /\ IsFiniteSet(C \cup D) /\ Cardinality(C) \in Nat /\ Cardinality(D) \in Nat
      /\ Cardinality(C \cup D) = Cardinality(C) + Cardinality(D)
  BY <1>1, <1>2, TwoParts
<1>5. Cardinality(S) = Cardinality(A \cup B) + Cardinality(C \cup D)
  BY <1>2, <1>3, <1>4, TwoParts
<1>6. Cardinality(S) = Cardinality(A) + Cardinality(B) + Cardinality(C) + Cardinality(D)
      /\ Cardinality(S) \in Nat
  BY <1>3, <1>4, <1>5
<1> QED BY <1>6 DEF A, B, C, D

LEMMA NothingDroppedFollows == EvalIInv => NothingIsDropped
<1> SUFFICES ASSUME EvalIInv, gate.artifact # NoArtifact PROVE NothingIsDropped
  BY DEF NothingIsDropped
<1>1. gate.artifact = Artifact /\ MeasuredWhole
  BY DEF EvalIInv, Stages
<1> DEFINE r == gate.artifact.retrieval
           g == gate.artifact.grounding
           S == DOMAIN scored
           J == {i \in S : scored[i].judged}
           K == {i \in DOMAIN answers : Known(answers[i])}
           U == {i \in DOMAIN answers : ~Known(answers[i])}
<1>2. /\ S = 1 .. Len(scored) /\ Len(scored) \in Nat
      /\ DOMAIN answers = 1 .. Len(answers) /\ Len(answers) \in Nat
  BY DEF EvalIInv, Listed
<1>3. ASSUME NEW i \in S PROVE scored[i].category \in Categories
  <2>1. gate.at \notin {"start", "refused"} /\ SearchFits(MeasuredQueries[i], scored[i])
        /\ MeasuredQueries[i] \in ToSet(fixtures.queries)
    BY SearchesFit
  <2>2. FixturesRead /\ Labelled(fixtures, MeasuredQueries[i])
    BY <2>1, CorpusIsValid
  <2>3. scored[i].category = MeasuredQueries[i].category
    BY <2>1, <2>2, BreachIs
  <2> QED BY <2>1, <2>2, <2>3 DEF FixturesRead
<1>4. \A i \in K : answers[i].category \in Categories
  BY AnswersFit
<1>5. /\ r.overall = RetrievalMetrics(S) /\ g.overall = GroundingMetrics(DOMAIN answers)
      /\ \A k \in Categories : r.by[k] = RetrievalMetrics(InCategory(k, scored))
                               /\ g.by[k] = GroundingMetrics(InCategory(k, answers))
  BY <1>1 DEF Artifact
<1>6. \A P : /\ RetrievalMetrics(P).queries = Cardinality(P)
             /\ RetrievalMetrics(P).judged = Cardinality({i \in P : scored[i].judged})
             /\ GroundingMetrics(P).cases = Cardinality(P)
  BY DEF RetrievalMetrics, GroundingMetrics
<1> HIDE DEF r, g
<1>0. Cardinality(1 .. Len(scored)) = Len(scored) /\ Cardinality(1 .. Len(answers)) = Len(answers)
  BY <1>2, NumbersUpTo
<1>7. r.overall.queries = Len(MeasuredQueries)
  BY <1>0, <1>1, <1>2, <1>5, <1>6 DEF MeasuredWhole
<1>8. g.overall.cases >= Len(MeasuredQueries)
  BY <1>0, <1>1, <1>2, <1>5, <1>6 DEF MeasuredWhole
<1>9. {"paraphrase", "unanswerable", "multi_hop", "conflicting"} \subseteq Categories
  BY DEF Categories
<1>10. InAll([k \in Categories |-> r.by[k].queries]) = r.overall.queries
  <2>1. \A k \in Categories : r.by[k].queries = Cardinality({i \in S : scored[i].category = k})
    BY <1>5, <1>6 DEF InCategory
  <2>2. Cardinality(S) = Cardinality({i \in S : scored[i].category = "paraphrase"})
                         + Cardinality({i \in S : scored[i].category = "unanswerable"})
                         + Cardinality({i \in S : scored[i].category = "multi_hop"})
                         + Cardinality({i \in S : scored[i].category = "conflicting"})
    BY <1>2, <1>3, FourParts
  <2> HIDE DEF S
  <2> QED BY <1>5, <1>6, <1>9, <2>1, <2>2 DEF InAll
<1>11. InAll([k \in Categories |-> r.by[k].judged]) = r.overall.judged
  <2>1. \A k \in Categories : r.by[k].judged = Cardinality({i \in J : scored[i].category = k})
    <3> SUFFICES ASSUME NEW k \in Categories
                 PROVE  r.by[k].judged = Cardinality({i \in J : scored[i].category = k})
      OBVIOUS
    <3>1. {i \in InCategory(k, scored) : scored[i].judged} = {i \in J : scored[i].category = k}
      BY DEF InCategory
    <3> QED BY <1>5, <1>6, <3>1
  <2>2. J \in SUBSET (1 .. Len(scored)) /\ \A i \in J : scored[i].category \in Categories
    BY <1>2, <1>3
  <2> HIDE DEF J
  <2>3. Cardinality(J) = Cardinality({i \in J : scored[i].category = "paraphrase"})
                         + Cardinality({i \in J : scored[i].category = "unanswerable"})
                         + Cardinality({i \in J : scored[i].category = "multi_hop"})
                         + Cardinality({i \in J : scored[i].category = "conflicting"})
    BY <1>2, <2>2, FourParts
  <2>4. r.overall.judged = Cardinality(J)
    BY <1>5, <1>6 DEF J
  <2> QED BY <1>9, <2>1, <2>3, <2>4 DEF InAll
<1>12. InAll([k \in Categories |-> g.by[k].cases]) + Cardinality(U) = g.overall.cases
  <2>1. \A k \in Categories : g.by[k].cases = Cardinality({i \in K : answers[i].category = k})
    <3> SUFFICES ASSUME NEW k \in Categories
                 PROVE  g.by[k].cases = Cardinality({i \in K : answers[i].category = k})
      OBVIOUS
    <3>1. InCategory(k, answers) = {i \in K : answers[i].category = k}
      BY DEF InCategory, Known, Categories
    <3> QED BY <1>5, <1>6, <3>1
  <2>2. K \in SUBSET (1 .. Len(answers))
    BY <1>2
  <2>3. K \cup U = DOMAIN answers /\ K \cap U = {}
    OBVIOUS
  <2>4. IsFiniteSet(K) /\ IsFiniteSet(U)
    <3>1. IsFiniteSet(DOMAIN answers)
      BY <1>2, NumbersUpTo
    <3> QED BY <3>1, FS_Subset
  <2> HIDE DEF K, U
  <2>5. Cardinality(K) = Cardinality({i \in K : answers[i].category = "paraphrase"})
                         + Cardinality({i \in K : answers[i].category = "unanswerable"})
                         + Cardinality({i \in K : answers[i].category = "multi_hop"})
                         + Cardinality({i \in K : answers[i].category = "conflicting"})
    BY <1>2, <1>4, <2>2, FourParts
  <2>6. Cardinality(DOMAIN answers) = Cardinality(K) + Cardinality(U)
    <3>1. Cardinality(K) \in Nat /\ Cardinality(U) \in Nat
      BY <2>4, FS_CardinalityType
    <3>2. Cardinality(K \cup U) = Cardinality(K) + Cardinality(U) - Cardinality(K \cap U)
      BY <2>4, FS_Union
    <3> QED BY <2>3, <3>1, <3>2, FS_EmptySet
  <2> QED BY <1>5, <1>6, <1>9, <2>1, <2>5, <2>6 DEF InAll
<1> QED BY <1>7, <1>8, <1>10, <1>11, <1>12 DEF NothingIsDropped, r, g, U

LEMMA IsolatedFollows == EvalIInv => ReleaseIsIsolated
<1> SUFFICES ASSUME EvalIInv, gate.at = "released" PROVE ReleaseIsIsolated
  BY DEF ReleaseIsIsolated
<1>1. gate.artifact = Artifact /\ \E enforce \in Enforcements : ~Blocking(gate.against, gate.artifact, enforce)
  BY DEF EvalIInv, ReleaseFits
<1>2. ~Isolation(Artifact)
  BY <1>1 DEF Blocking
<1>3. /\ ~(RetrievalMetrics(DOMAIN scored).breaches > 0)
      /\ \A k \in Categories : ~(GroundingMetrics(InCategory(k, answers)).leaked > 0)
  BY <1>2 DEF Isolation, Artifact
<1>4. /\ FixturesRead /\ Repeated(fixtures.queries) = {}
      /\ \A q \in ToSet(fixtures.queries) : Labelled(fixtures, q)
  BY CorpusIsValid
<1>5. /\ DOMAIN scored = 1 .. Len(scored) /\ Len(scored) \in Nat
      /\ DOMAIN answers = 1 .. Len(answers) /\ Len(answers) \in Nat
  BY DEF EvalIInv, Listed
<1>6. \A i \in DOMAIN scored : ~scored[i].breach
  <2> DEFINE B == {i \in DOMAIN scored : scored[i].breach}
  <2>1. RetrievalMetrics(DOMAIN scored).breaches = Cardinality(B)
    BY DEF RetrievalMetrics
  <2>2. IsFiniteSet(B)
    <3>1. IsFiniteSet(DOMAIN scored)
      BY <1>5, NumbersUpTo
    <3> QED BY <3>1, FS_Subset
  <2>3. B = {}
    <3> HIDE DEF B
    <3> QED BY <1>3, <2>1, <2>2, FS_EmptySet, FS_CardinalityType
  <2> QED BY <2>3
<1>7. ASSUME NEW i \in DOMAIN scored, NEW slug \in ToSet(scored[i].found)
      PROVE  Chunk(slug).source
               \notin (CHOOSE q \in ToSet(fixtures.queries) : q.id = scored[i].query).forbidden
  <2> DEFINE q == MeasuredQueries[i]
             a == CHOOSE x \in ToSet(fixtures.queries) : x.id = scored[i].query
  <2>1. SearchFits(q, scored[i]) /\ q \in ToSet(fixtures.queries)
    BY SearchesFit
  <2> HIDE DEF q
  <2>2. /\ scored[i].breach <=> \E s \in ToSet(scored[i].found) : Chunk(s).source \in q.forbidden
        /\ scored[i].query = q.id
    BY <1>4, <2>1, BreachIs
  <2>3. a \in ToSet(fixtures.queries) /\ a.id = q.id
    BY <2>1, <2>2
  <2> HIDE DEF a
  <2>4. a = q
    BY <1>4, <2>1, <2>3, NamedOnce DEF FixturesRead
  <2> QED BY <1>6, <1>7, <2>2, <2>4 DEF a
<1>8. ASSUME NEW i \in DOMAIN answers, Known(answers[i]), NEW j \in DOMAIN answers[i].verdicts
      PROVE  answers[i].verdicts[j] # "cross_notebook"
  <2> DEFINE k == answers[i].category
             told == [m \in DOMAIN answers |-> Verdicts(answers[m], "cross_notebook")]
             P == InCategory(k, answers)
  <2>1. k \in Categories
    BY <1>8, AnswersFit
  <2>2. \A m \in DOMAIN answers :
          IsFiniteSet({n \in DOMAIN answers[m].verdicts : answers[m].verdicts[n] = "cross_notebook"})
    <3> SUFFICES ASSUME NEW m \in DOMAIN answers
                 PROVE  IsFiniteSet({n \in DOMAIN answers[m].verdicts : answers[m].verdicts[n] = "cross_notebook"})
      OBVIOUS
    <3>1. IsFiniteSet(DOMAIN answers[m].verdicts)
      BY AnswersFit DEF AnswerFits
    <3> QED BY <3>1, FS_Subset
  <2>3. told \in Seq(Nat) /\ Len(told) = Len(answers) /\ DOMAIN told = DOMAIN answers
    <3>1. \A m \in DOMAIN answers : Verdicts(answers[m], "cross_notebook") \in Nat
      BY <2>2, FS_CardinalityType DEF Verdicts
    <3> QED BY <1>5, <3>1
  <2>4. GroundingMetrics(P).leaked = Total(told, P)
    BY DEF GroundingMetrics
  <2>5. i \in P /\ i \in DOMAIN told
    BY DEF InCategory
  <2>6. told[i] = Verdicts(answers[i], "cross_notebook")
    OBVIOUS
  <2> HIDE DEF told, P
  <2>7. Total(told, P) \in Nat /\ ~(Total(told, P) > 0)
    BY <1>3, <2>1, <2>3, <2>4, NothingInTotal DEF P
  <2>8. told[i] = 0
    BY <2>3, <2>5, <2>7, NothingInTotal
  <2>9. {n \in DOMAIN answers[i].verdicts : answers[i].verdicts[n] = "cross_notebook"} = {}
    BY <2>2, <2>6, <2>8, FS_EmptySet DEF Verdicts
  <2> QED BY <1>8, <2>9
<1>9. ASSUME NEW i \in DOMAIN answers, Known(answers[i]), answers[i].case.current,
             answers[i].case.kind = "answered", <<"fallback">> \notin ToSet(answers[i].case.text),
             NEW j \in CitesAt(answers[i].case.text),
             Entry(fixtures.chunks, answers[i].case.text[j][2]) # {}
      PROVE  Asked(answers[i]).notebook \in HomeOf(fixtures, Chunk(answers[i].case.text[j][2]))
  <2>1. ScoredFor(answers[i], Asked(answers[i]))
    BY <1>9, AnswersFit
  <2>2. j \in DOMAIN answers[i].verdicts
    BY <1>9, <2>1 DEF ScoredFor
  <2>3. answers[i].verdicts[j] # "cross_notebook"
    BY <1>8, <1>9, <2>2
  <2> QED BY <1>9, <2>1, <2>3 DEF ScoredFor
<1> QED BY <1>7, <1>9 DEF ReleaseIsIsolated

(* What rag-eval measures can be trusted: the labels mean the same to the  *)
(* validator and the scorers, no support or breach is imagined, no case    *)
(* leaves a denominator, and nothing is released that left its notebook or *)
(* was not compared with all that was approved; for any corpora, searches, *)
(* answers and baselines.                                                  *)
THEOREM MeasurementsAreSound == EvalSpec => []EvalInv
<1>1. EvalInit => EvalIInv
  BY EvalInitially
<1>2. EvalIInv /\ [EvalNext]_evalVars => EvalIInv'
  BY EvalStep
<1>3. EvalIInv => EvalInv
  <2>1. EvalIInv => EvalTypeOK
    BY AnswersFit DEF EvalIInv, EvalTypeOK, AnswerFits, Stages
  <2> QED
    BY <2>1, LabelsFollow, NoFalseBreachFollows, SupportFollows, NothingDroppedFollows,
       IsolatedFollows, ComparableFollows DEF EvalInv
<1> QED
  BY <1>1, <1>2, <1>3, PTL DEF EvalSpec

=============================================================================
