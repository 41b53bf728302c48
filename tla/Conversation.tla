----------------------------- MODULE Conversation -----------------------------
(***************************************************************************)
(* The chat of one notebook as rows (repositories/chat.rs, rag_log.rs):    *)
(* turns that store a question and an answer under a session, and a trace  *)
(* of what the answer rested on; the owner, who clears the conversation,   *)
(* deletes the notebook, rates answers and pages through the history.      *)
(*                                                                         *)
(* Statements of different requests interleave under READ COMMITTED: an    *)
(* action is a statement, and what clear_history deletes stays visible to  *)
(* the others until its commit.  Any call may fail and end its request.    *)
(* How an answer is generated and cited is ChatTurn's and Citations'.      *)
(***************************************************************************)
EXTENDS Integers, FiniteSets, FiniteSetsExt

CONSTANTS
  ChatTurns,          \* send_message requests
  SessionTimeout,     \* SESSION_TIMEOUT_SECS, in ticks
  LogRetention,          \* RAG_LOG_RETENTION_DAYS, in ticks
  PageLimit,          \* messages on a page of history
  LastTick,           \* bound: the clock
  MaxClears           \* bound: calls of clear_history

ASSUME ConversationAssumption ==
  /\ SessionTimeout \in Nat /\ PageLimit \in Nat /\ LastTick \in Nat
  /\ "earlier" \notin ChatTurns

VARIABLES
  open,               \* the notebook's row exists
  messages,           \* chat_messages, ordered by stamp (created_at)
  logs,               \* rag_logs
  request,            \* ChatTurns -> where a turn is, its session, the start of its transaction
  clear,              \* clear_history's transaction: where it is and what it deletes
  page,               \* one reader of the history, page after page
  clock, nextStamp, nextSession, clears,
  raced               \* history: sessions resolved from a conversation that was changing

chatRows == <<open, messages, logs>>
counters == <<clock, nextStamp, nextSession, clears>>
conversationVars == <<chatRows, request, clear, page, counters, raced>>

NoStamp == 0
NotClearing == [at |-> "idle", logs |-> {}, messages |-> {}]
NotPaging == [at |-> "idle", offset |-> 0, total |-> 0, more |-> TRUE, seen |-> {}, known |-> {}, late |-> {}]

\* A conversation may have an exchange already, with its trace.
Earlier(role, stamp) == [turn |-> "earlier", role |-> role, stamp |-> stamp, session |-> 1, time |-> 0]

ConversationInit ==
  /\ open = TRUE
  /\ messages \in {{}, {Earlier("user", 1), Earlier("assistant", 2)}}
  /\ logs = {[of |-> m.stamp, answer |-> m.stamp, liked |-> FALSE, slipped |-> FALSE, time |-> 0] :
               m \in {m \in messages : m.role = "assistant"}}
  /\ request = [t \in ChatTurns |-> [at |-> "idle", session |-> 0, stamp |-> NoStamp, since |-> 0]]
  /\ clear = NotClearing /\ page = NotPaging
  /\ clock = 0 /\ nextStamp = 3 /\ nextSession = 2 /\ clears = 0 /\ raced = {}

-----------------------------------------------------------------------------
(* validate_and_authorize *)
Go(t, next) == request' = [request EXCEPT ![t] = next]
Move(t, at) == Go(t, [request[t] EXCEPT !.at = at])

VerifyAccess(t) ==
  /\ request[t].at = "idle"
  /\ Move(t, IF open THEN "policy" ELSE "refused")
  /\ UNCHANGED <<chatRows, clear, page, counters, raced>>

Authorize(t) ==
  /\ request[t].at = "policy"
  /\ \E next \in {"model", "refused"} : Move(t, next)
  /\ UNCHANGED <<chatRows, clear, page, counters, raced>>

\* get_provider, then the policy on the model it resolved to.
SelectModel(t) ==
  /\ request[t].at = "model"
  /\ \E next \in {"session", "refused"} : Move(t, next)
  /\ UNCHANGED <<chatRows, clear, page, counters, raced>>

ShouldReuseSession(latest) == clock - latest.time < SessionTimeout

Latest == {m \in messages : \A o \in messages : o.stamp <= m.stamp}

\* The latest message, if its session may go on.
Recent == {m \in Latest : ShouldReuseSession(m)}

\* The conversation changes under the turns that have resolved their session and not
\* yet stored their question.
Overtakes(others) ==
  raced' = raced \cup {request[u].session : u \in {u \in others : request[u].at = "store"}}

\* An answer that is stamped and not visible yet.
Pending == {u \in ChatTurns : request[u].at = "persist"}

Resolved(t, session, stale) ==
  /\ Go(t, [request[t] EXCEPT !.at = "store", !.session = session])
  /\ raced' = IF stale THEN raced \cup {session} ELSE raced

\* resolve_session_id reads the latest message; a failed read opens a new session.
ResolveSession(t) ==
  /\ request[t].at = "session"
  /\ \/ \E m \in Recent : Resolved(t, m.session, Pending # {}) /\ UNCHANGED nextSession
     \/ \E failed \in BOOLEAN :
          /\ failed \/ Recent = {}
          /\ Resolved(t, nextSession, failed \/ Pending # {})
          /\ nextSession' = nextSession + 1
  /\ UNCHANGED <<chatRows, clear, page, clock, nextStamp, clears>>

Message(t, role, stamp, time) ==
  [turn |-> t, role |-> role, stamp |-> stamp, session |-> request[t].session, time |-> time]

\* insert_message: the foreign key refuses a message of a notebook that has gone.
StoreQuestion(t) ==
  /\ request[t].at = "store"
  /\ IF open
     THEN /\ messages' = messages \cup {Message(t, "user", nextStamp, clock)}
          /\ nextStamp' = nextStamp + 1
          /\ Move(t, "answering") /\ Overtakes(ChatTurns \ {t})
     ELSE Move(t, "refused") /\ UNCHANGED <<messages, nextStamp, raced>>
  /\ UNCHANGED <<open, logs, clear, page, clock, nextSession, clears>>

-----------------------------------------------------------------------------
(* The rest of the turn *)
\* A failure before or during generation, a client that left, the end of the process.
EndUnanswered(t) ==
  /\ request[t].at \in {"answering", "persist", "log"}
  /\ Move(t, "done")
  /\ UNCHANGED <<chatRows, clear, page, counters, raced>>

\* created_at is the start of the lease's transaction.
BeginAnswer(t) ==
  /\ request[t].at = "answering"
  /\ Go(t, [request[t] EXCEPT !.at = "persist", !.stamp = nextStamp, !.since = clock])
  /\ nextStamp' = nextStamp + 1
  /\ Overtakes(ChatTurns)
  /\ UNCHANGED <<chatRows, clear, page, clock, nextSession, clears>>

\* A complete answer that rests on passages is logged; a constant or a truncated one is not.
Afterwards == {"log", "done"}

StoreAnswer(t) ==
  /\ request[t].at = "persist"
  /\ IF open
     THEN /\ messages' = messages \cup {Message(t, "assistant", request[t].stamp, request[t].since)}
          /\ \E next \in Afterwards : Move(t, next)
     ELSE Move(t, "done") /\ UNCHANGED messages
  /\ UNCHANGED <<open, logs, clear, page, counters, raced>>

Trace(m) == [of |-> m.stamp, answer |-> m.stamp, liked |-> FALSE,
             slipped |-> clear.at = "messages", time |-> clock]

Stored(t) == {m \in messages : m.turn = t /\ m.role = "assistant"}

\* record_rag_log: one attempt, whose failure leaves the turn a success.  The foreign
\* key waits for the transaction that is deleting the answer.
WriteLog(t) ==
  /\ request[t].at = "log"
  /\ Stored(t) \cap clear.messages = {}
  /\ logs' = logs \cup {Trace(m) : m \in Stored(t)}
  /\ Move(t, "done")
  /\ UNCHANGED <<open, messages, clear, page, counters, raced>>

-----------------------------------------------------------------------------
(* clear_history *)
Clearing(next) == clear' = next /\ UNCHANGED <<request, page, clock, nextStamp, nextSession>>

ClearLogs ==
  /\ clear.at = "idle" /\ open /\ clears < MaxClears
  /\ Clearing([at |-> "messages", logs |-> logs, messages |-> {}])
  /\ clears' = clears + 1
  /\ UNCHANGED <<chatRows, raced>>

ClearMessages ==
  /\ clear.at = "messages"
  /\ Clearing([clear EXCEPT !.at = "commit", !.messages = messages])
  /\ UNCHANGED <<chatRows, clears, raced>>

\* Mutant: the traces are left to the foreign key.
CommitMessagesOnly ==
  /\ clear.at = "commit"
  /\ messages' = messages \ clear.messages
  /\ logs' = {IF l.answer \in {m.stamp : m \in clear.messages} THEN [l EXCEPT !.answer = NoStamp] ELSE l :
                l \in logs}
  /\ Clearing(NotClearing) /\ Overtakes(ChatTurns)
  /\ UNCHANGED <<open, clears>>

\* ON DELETE SET NULL: a trace the first statement did not see loses its answer.
CommitClear ==
  /\ clear.at = "commit"
  /\ messages' = messages \ clear.messages
  /\ logs' = {IF l.answer \in {m.stamp : m \in clear.messages} THEN [l EXCEPT !.answer = NoStamp] ELSE l :
                l \in logs \ clear.logs}
  /\ Clearing(NotClearing) /\ Overtakes(ChatTurns)
  /\ UNCHANGED <<open, clears>>

AbortClear ==
  /\ clear.at # "idle"
  /\ Clearing(NotClearing)
  /\ UNCHANGED <<chatRows, clears, raced>>

\* The cascade waits for the rows a clear has locked.
DeleteNotebook ==
  /\ open /\ clear.at = "idle"
  /\ open' = FALSE /\ messages' = {} /\ logs' = {}
  /\ UNCHANGED <<request, clear, page, counters, raced>>

\* update_feedback of a trace; one that is being deleted is waited for and not found.
RateAnswer ==
  /\ \E l \in logs \ clear.logs, liked \in BOOLEAN :
       logs' = (logs \ {l}) \cup {[l EXCEPT !.liked = liked]}
  /\ UNCHANGED <<open, messages, request, clear, page, counters, raced>>

PurgeOldLogs ==
  /\ \E l \in logs \ clear.logs : clock - l.time > LogRetention
  /\ logs' = {l \in logs : clock - l.time <= LogRetention \/ l \in clear.logs}
  /\ UNCHANGED <<open, messages, request, clear, page, counters, raced>>

MinutesPass ==
  /\ clock < LastTick
  /\ clock' = clock + 1
  /\ UNCHANGED <<chatRows, request, clear, page, nextStamp, nextSession, clears, raced>>

-----------------------------------------------------------------------------
(* get_history_paginated, one page after the other *)
Paged(next) == page' = next /\ UNCHANGED <<chatRows, request, clear, counters, raced>>

CountMessages ==
  /\ page.at = "idle" /\ page.more /\ open
  /\ Paged([page EXCEPT !.at = "fetch", !.total = Cardinality(messages), !.late = messages,
                          !.known = IF page.offset = 0 THEN messages ELSE page.known])

HasMore(offset, count, total) == offset + count < total

\* The messages an offset skips are the newest.
NewestOf(ms, n) == {m \in ms : Cardinality({o \in ms : o.stamp > m.stamp}) < n}

FetchPage ==
  /\ page.at = "fetch"
  /\ LET found == NewestOf(messages, page.offset + PageLimit) \ NewestOf(messages, page.offset)
     IN  Paged([page EXCEPT
           !.at = "idle", !.offset = page.offset + Cardinality(found),
           !.more = HasMore(page.offset, Cardinality(found), page.total),
           !.seen = page.seen \cup found, !.late = messages \ page.late])

TurnStepsOf(t) ==
  \/ VerifyAccess(t) \/ Authorize(t) \/ SelectModel(t) \/ ResolveSession(t) \/ StoreQuestion(t)
  \/ EndUnanswered(t) \/ BeginAnswer(t) \/ StoreAnswer(t) \/ WriteLog(t)
ClearStep == ClearLogs \/ ClearMessages \/ CommitClear \/ AbortClear
ReadStep == CountMessages \/ FetchPage

ConversationNext ==
  \/ \E t \in ChatTurns : TurnStepsOf(t)
  \/ ClearStep \/ DeleteNotebook \/ RateAnswer \/ PurgeOldLogs \/ MinutesPass \/ ReadStep

ConversationSpec == ConversationInit /\ [][ConversationNext]_conversationVars

-----------------------------------------------------------------------------
ConversationTypeOK ==
  /\ open \in BOOLEAN /\ clock \in 0 .. LastTick /\ raced \subseteq 1 .. nextSession
  /\ \A m \in messages :
       m \in [turn : ChatTurns \cup {"earlier"}, role : {"user", "assistant"}, stamp : 1 .. nextStamp,
              session : 1 .. nextSession, time : 0 .. LastTick]
  /\ \A l \in logs : l \in [of : 1 .. nextStamp, answer : 0 .. nextStamp, liked : BOOLEAN,
                            slipped : BOOLEAN, time : 0 .. LastTick]
  /\ \A t \in ChatTurns : request[t].at \in {"idle", "policy", "model", "session", "store", "answering",
                                            "persist", "log", "done", "refused"}
  /\ clear.at \in {"idle", "messages", "commit"} /\ page.at \in {"idle", "fetch"}

\* A turn the policy, the model or the database refuses leaves no question behind.
RefusedLeavesNothing ==
  \A t \in ChatTurns :
    request[t].at = "refused" => \A m \in messages : m.turn # t

\* An answer comes after its question in the history, in the same session, although it
\* is stamped before it is visible and other turns store theirs meanwhile.
AnswersFollowQuestions ==
  \A a, q \in messages :
    a.turn = q.turn /\ a.role = "assistant" /\ q.role = "user"
      => q.stamp < a.stamp /\ q.session = a.session

\* Sessions split only on silence: when a question is about to be stored, its session is
\* still the latest message's, or one of its own and nothing was said for the timeout,
\* unless the conversation changed since the session was resolved, or the look-up failed.
SessionsSplitOnSilence ==
  \A t \in ChatTurns :
    request[t].at = "store" /\ request[t].session \notin raced /\ open
      => \/ \E m \in Latest : m.session = request[t].session
         \/ \A m \in messages :
              m.session # request[t].session /\ clock - m.time >= SessionTimeout

\* A cleared conversation leaves no trace, but one written between the two statements
\* that clear it; and a trace that names its answer names one that is there.
TracesGoWithAnswers ==
  \A l \in logs :
    /\ l.answer = NoStamp => l.slipped
    /\ l.answer # NoStamp => \E m \in messages : m.stamp = l.answer /\ m.role = "assistant"

\* Nothing a late turn writes outlives its notebook.
NothingOutlivesNotebook == ~open => messages = {} /\ logs = {}

\* Paging to the end of a history that nothing is deleted from shows every message there
\* was at the start, but for as many as arrived between the last page's count and its fetch.
PagesMissOnlyLate ==
  (page.at = "idle" /\ ~page.more /\ page.known \subseteq messages)
    => Cardinality(page.known \ page.seen) <= Cardinality(page.late)

\* The rows of a conversation hold together under overlapping turns, clears, deletion and readers.
ConversationInv ==
  /\ ConversationTypeOK /\ RefusedLeavesNothing /\ AnswersFollowQuestions /\ SessionsSplitOnSilence
  /\ TracesGoWithAnswers /\ NothingOutlivesNotebook /\ PagesMissOnlyLate
=============================================================================
