---------------------------- MODULE SourceEvents ----------------------------
(***************************************************************************)
(* One notebook's event channel (services/source_events.rs) and the SSE    *)
(* clients that follow it and reconnect (source_events_handler).           *)
(*                                                                         *)
(* Every call that may create the channel goes through DashMap's entry,    *)
(* which takes the shard's write lock and downgrades it: a broadcast holds *)
(* the read lock to its end, so no other broadcast, subscription or sweep  *)
(* runs beside it.  replay_since only reads and may run beside it.         *)
(* The ring of the broadcast channel is tokio's: a reader that fell more   *)
(* than its capacity behind skips to the oldest value and learns how many  *)
(* it missed.                                                              *)
(***************************************************************************)
EXTENDS Naturals, Sequences, FiniteSets, SequencesExt

CONSTANTS
  Publishers, Clients,
  ReplayCapacity,      \* REPLAY_BUFFER_CAPACITY
  RingCapacity,        \* of the broadcast channel
  MaxEvents,           \* bound: events broadcast
  MaxChannels,         \* bound: channels created for the notebook
  MaxConnects          \* bound: connections a client makes

ASSUME EventAssumption ==
  /\ ReplayCapacity \in Nat \ {0} /\ RingCapacity \in Nat \ {0}
  /\ MaxEvents \in Nat /\ MaxChannels \in Nat /\ MaxConnects \in Nat

VARIABLES
  present,   \* the map has an entry for the notebook
  epoch,     \* the number of the newest channel
  nextId,    \* next_event_id
  buffer,    \* replay_buffer: ids
  ring,      \* channel number -> ids sent through it, in order
  publisher, \* Publishers -> the step of broadcast it is at, and its id
  events,    \* events broadcast so far, over all channels
  connection \* Clients -> its connection

channel == <<present, epoch, nextId, buffer, ring>>
eventVars == <<channel, publisher, events, connection>>

Quiet == [at |-> "idle", id |-> 0]

\* A connection: the Last-Event-ID it came with and the channel that id is of,
\* what the replay buffer held then (its least and greatest id), the channel it
\* subscribed to and from which position of the ring, the position it reached,
\* replayed ids still to deliver, ids delivered, and whether it was told to
\* resync.  A client keeps its last id, and the channel it is of, when it leaves.
Away(n, last, lastOf) ==
  [at |-> "away", connects |-> n, last |-> last, lastOf |-> lastOf,
   resume |-> 0, resumeOf |-> 0, replayOf |-> 0, oldest |-> 0, newest |-> 0,
   from |-> 0, start |-> 0, pos |-> 0, pending |-> <<>>, seen |-> <<>>, told |-> FALSE]

EventsInit ==
  /\ present = FALSE /\ epoch = 0 /\ nextId = 1 /\ buffer = <<>>
  /\ ring = [e \in 1 .. MaxChannels |-> <<>>]
  /\ publisher = [p \in Publishers |-> Quiet]
  /\ events = 0
  /\ connection = [c \in Clients |-> Away(0, 0, 0)]

Unlocked == \A p \in Publishers : publisher[p].at = "idle"

\* get_or_create_channel, under the write lock of the entry.
GetOrCreateChannel ==
  /\ Unlocked
  /\ IF present
     THEN UNCHANGED channel
     ELSE /\ epoch < MaxChannels
          /\ present' = TRUE /\ epoch' = epoch + 1
          /\ nextId' = 1 /\ buffer' = <<>> /\ UNCHANGED ring

-----------------------------------------------------------------------------
(* broadcast.                                                              *)

\* Mutant: the entry is released before the event is published.
EnterUnlocked(p) ==
  /\ publisher[p].at = "idle" /\ events < MaxEvents /\ present
  /\ events' = events + 1
  /\ publisher' = [publisher EXCEPT ![p].at = "entered"]
  /\ UNCHANGED <<channel, connection>>

Enter(p) ==
  /\ events < MaxEvents
  /\ GetOrCreateChannel
  /\ events' = events + 1
  /\ publisher' = [publisher EXCEPT ![p].at = "entered"]
  /\ UNCHANGED connection

TakeId(p) ==
  /\ publisher[p].at = "entered"
  /\ publisher' = [publisher EXCEPT ![p] = [at |-> "taken", id |-> nextId]]
  /\ nextId' = nextId + 1
  /\ UNCHANGED <<present, epoch, buffer, ring, events, connection>>

Buffer(p) ==
  /\ publisher[p].at = "taken"
  /\ publisher' = [publisher EXCEPT ![p].at = "buffered"]
  /\ buffer' = Append(IF Len(buffer) >= ReplayCapacity THEN Tail(buffer) ELSE buffer,
                      publisher[p].id)
  /\ UNCHANGED <<present, epoch, nextId, ring, events, connection>>

\* send, and the entry is released.
SendLive(p) ==
  /\ publisher[p].at = "buffered"
  /\ ring' = [ring EXCEPT ![epoch] = Append(@, publisher[p].id)]
  /\ publisher' = [publisher EXCEPT ![p] = Quiet]
  /\ UNCHANGED <<present, epoch, nextId, buffer, events, connection>>

-----------------------------------------------------------------------------
(* source_events_handler and the stream it returns.                        *)

SetClient(c, rec) ==
  /\ connection' = [connection EXCEPT ![c] = rec]
  /\ UNCHANGED <<channel, publisher, events>>

\* filter, collect: the ids after the last one, in the order of the buffer.
LaterThan(held, last) ==
  LET later == {i \in DOMAIN held : held[i] > last}
      ascending == {f \in [1 .. Cardinality(later) -> later] :
                      \A i, j \in DOMAIN f : i < j => f[i] < f[j]}
  IN {[i \in DOMAIN f |-> held[f[i]]] : f \in ascending}

\* replay_since: only a client that says where it was is replayed anything.
Replay(c) ==
  /\ connection[c].at = "away" /\ connection[c].connects < MaxConnects
  /\ LET held == IF present THEN buffer ELSE <<>>
     IN \E missed \in IF connection[c].last = 0 THEN {<<>>} ELSE LaterThan(held, connection[c].last) :
          SetClient(c, [connection[c] EXCEPT
            !.at = "replayed", !.connects = @ + 1,
            !.resume = connection[c].last, !.resumeOf = connection[c].lastOf,
            !.replayOf = IF present THEN epoch ELSE 0,
            !.oldest = IF held = <<>> THEN 0 ELSE Head(held),
            !.newest = IF held = <<>> THEN 0 ELSE Last(held),
            !.pending = missed])

Subscribe(c) ==
  /\ connection[c].at = "replayed"
  /\ GetOrCreateChannel
  /\ connection' = [connection EXCEPT ![c].at = "live", ![c].from = epoch',
                              ![c].start = Len(ring[epoch']), ![c].pos = Len(ring[epoch'])]
  /\ UNCHANGED <<publisher, events>>

Deliver(rec, id, of) ==
  [rec EXCEPT !.seen = Append(@, id), !.last = id, !.lastOf = of]

\* Replayed events come first (chain).
DeliverReplayed(c) ==
  /\ connection[c].at = "live" /\ connection[c].pending # <<>>
  /\ SetClient(c, Deliver([connection[c] EXCEPT !.pending = Tail(@)],
                          Head(connection[c].pending), connection[c].replayOf))

Following(c) == connection[c].at = "live" /\ connection[c].pending = <<>>

Sent(c) == ring[connection[c].from]

Behind(c) == Len(Sent(c)) - connection[c].pos

DeliverLive(c) ==
  /\ Following(c) /\ Behind(c) \in 1 .. RingCapacity
  /\ SetClient(c, Deliver([connection[c] EXCEPT !.pos = @ + 1], Sent(c)[connection[c].pos + 1], connection[c].from))

\* Mutant: a lag is skipped in silence.
LagSilently(c) ==
  /\ Following(c) /\ Behind(c) > RingCapacity
  /\ SetClient(c, [connection[c] EXCEPT !.pos = Len(Sent(c)) - RingCapacity])

\* Lagged(n): source:resync, which carries no id.
Lag(c) ==
  /\ Following(c) /\ Behind(c) > RingCapacity
  /\ SetClient(c, [connection[c] EXCEPT !.pos = Len(Sent(c)) - RingCapacity, !.told = TRUE])

\* The client goes away, or its stream ends with the channel's sender or with the
\* server's token; it remembers the last id it was given.
Disconnect(c) ==
  /\ connection[c].at \in {"replayed", "live"}
  /\ SetClient(c, Away(connection[c].connects, connection[c].last, connection[c].lastOf))

\* The stream of a removed channel ends after what was sent through it.
StreamEnds(c) ==
  /\ Following(c) /\ Behind(c) = 0
  /\ ~present \/ connection[c].from # epoch
  /\ SetClient(c, Away(connection[c].connects, connection[c].last, connection[c].lastOf))

\* cleanup_stale_channels: too old, or unused and silent for long enough.
CleanupStaleChannels ==
  /\ present /\ Unlocked
  /\ present' = FALSE
  /\ UNCHANGED <<epoch, nextId, buffer, ring, publisher, events, connection>>

-----------------------------------------------------------------------------
PublishStep(p) == Enter(p) \/ TakeId(p) \/ Buffer(p) \/ SendLive(p)

ClientStep(c) ==
  \/ Replay(c) \/ Subscribe(c) \/ DeliverReplayed(c) \/ DeliverLive(c)
  \/ Lag(c) \/ Disconnect(c) \/ StreamEnds(c)

EventsNext ==
  \/ \E p \in Publishers : PublishStep(p)
  \/ \E c \in Clients : ClientStep(c)
  \/ CleanupStaleChannels

EventsSpec == EventsInit /\ [][EventsNext]_eventVars

\* The streams are polled; nobody has to publish, connect, leave or sweep.
EventsFairness ==
  /\ \A p \in Publishers : WF_eventVars(TakeId(p) \/ Buffer(p) \/ SendLive(p))
  /\ \A c \in Clients :
       WF_eventVars(DeliverReplayed(c) \/ DeliverLive(c) \/ Lag(c) \/ StreamEnds(c))

FairEventsSpec == EventsSpec /\ EventsFairness

-----------------------------------------------------------------------------
EventsTypeOK ==
  /\ present \in BOOLEAN /\ epoch \in 0 .. MaxChannels /\ nextId \in 1 .. MaxEvents + 1
  /\ \A e \in 1 .. MaxChannels : ToSet(ring[e]) \subseteq 1 .. MaxEvents
  /\ Len(buffer) <= ReplayCapacity
  /\ publisher \in [Publishers ->
       [at : {"idle", "entered", "taken", "buffered"}, id : 0 .. MaxEvents]]
  /\ \A c \in Clients : connection[c].at \in {"away", "replayed", "live"}

Increasing(s) == \A i, j \in DOMAIN s : i < j => s[i] < s[j]

\* A connection whose replay and whose live stream are of one channel is given its
\* events in the order of their ids and each once: the entry's lock keeps one
\* broadcast from overtaking another and a subscription out of the middle of one.
SeenInOrder ==
  \A c \in Clients :
    (connection[c].at = "live" /\ connection[c].replayOf \in {0, connection[c].from})
      => Increasing(connection[c].seen)

\* What a client that resumes on the same channel may miss without being told:
\* what the buffer had dropped before it came, and what was broadcast between
\* its replay and its subscription.
Missable(r) == (1 .. r.oldest - 1) \cup (r.newest + 1 .. r.start)

\* Nothing else is ever lost: every event sent through the channel since the
\* connection's last one was delivered, is pending, or was announced by a resync.
NothingElseIsLost ==
  \A c \in Clients :
    LET r == connection[c]
    IN (/\ r.at = "live" /\ ~r.told
        /\ r.resume > 0 /\ r.resumeOf = r.from /\ r.replayOf = r.from) =>
         r.resume + 1 .. Len(Sent(c)) \subseteq
           ToSet(r.seen) \cup ToSet(r.pending) \cup (r.pos + 1 .. Len(Sent(c))) \cup Missable(r)

\* An event sent while a client is subscribed reaches it, unless it is told that
\* it fell behind or its stream ends.
LiveEventArrives ==
  \A c \in Clients, id \in 1 .. MaxEvents :
    (connection[c].at = "live" /\ id \in connection[c].start + 1 .. Len(Sent(c)))
      ~> (connection[c].told \/ connection[c].at # "live" \/ id \in ToSet(connection[c].seen))

\* A client of a channel that was swept is not left on a dead stream: the stream
\* ends, and the client can reconnect to the channel that replaces it.
SweptStreamEnds ==
  \A c \in Clients :
    (connection[c].at = "live" /\ (~present \/ connection[c].from # epoch)) ~> connection[c].at = "away"

\* The contract's promise to a client whose last id is older than the buffer: once
\* it is up to date it has been told to resync (docs/contracts/sse-protocol-v1.md).
TooOldIsTold ==
  \A c \in Clients :
    LET r == connection[c]
    IN (/\ r.at = "live" /\ r.pending = <<>> /\ r.pos = Len(Sent(c))
        /\ r.resume > 0 /\ r.resumeOf = r.replayOf /\ r.oldest > r.resume + 1) => r.told

\* What a client has seen at every step: events in the order of their ids, with a hole only
\* where the buffer had dropped, the ring overwritten or the gap of subscribing lost them.
EventsInv == EventsTypeOK /\ SeenInOrder /\ NothingElseIsLost

\* The live channel delivers: an event a connected client can still read reaches it or it is
\* told of a gap, and a stream whose channel was swept ends.
ChannelDelivers == LiveEventArrives /\ SweptStreamEnds

=============================================================================
