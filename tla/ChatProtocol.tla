---------------------------- MODULE ChatProtocol ----------------------------
(***************************************************************************)
(* What a chat stream promises its client (core/protocol/chat.rs): events  *)
(* come in phases, the answer's text is closed before its citations, and   *)
(* one terminal event ends the stream.  A success is announced only after  *)
(* the metrics of an answer.                                               *)
(***************************************************************************)
EXTENDS Naturals, Sequences

VARIABLE sent     \* the events put on the channel, in order

Phases == <<"thinking", "chunk", "citation", "citations", "metrics", "suggestions">>

Terminal == {"done", "error", "shutdown"}

Phase(e) == IF e \in Terminal THEN 7 ELSE CHOOSE i \in DOMAIN Phases : Phases[i] = e

Reached == IF sent = <<>> THEN 0 ELSE Phase(sent[Len(sent)])

\* Progress, text and single citations may repeat; nothing goes back.
MayFollow(e) ==
  /\ Reached < 7
  /\ Phase(e) > Reached \/ (Phase(e) = Reached /\ e \in {"thinking", "chunk", "citation"})
  /\ e = "done" => Reached >= 5

ProtocolInit == sent = <<>>

ProtocolNext ==
  \E e \in {Phases[i] : i \in DOMAIN Phases} \cup Terminal :
    MayFollow(e) /\ sent' = Append(sent, e)

\* A step of the server may put several events on the channel.
ProtocolSpec == ProtocolInit /\ [][ProtocolNext]_sent
=============================================================================
