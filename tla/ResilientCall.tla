--------------------------- MODULE ResilientCall ---------------------------
(***************************************************************************)
(* ResilientExecutor::execute (clients/resilience.rs) around the breaker:  *)
(* one admission per call, then attempts with retries; and wrap_sse_stream,*)
(* whose stream may still fail after the headers counted as a success.     *)
(* The delays before a retry are not timed.                                *)
(***************************************************************************)
EXTENDS CircuitBreaker

CONSTANT MaxRetries

ASSUME RetryAssumption == MaxRetries \in Nat

VARIABLE attempt     \* Callers -> HTTP requests this call has made

callVars == <<breakerVars, attempt>>

Quietly == UNCHANGED <<inner, counters, nowAge>>

CallInit == BreakerInit /\ attempt = [c \in Callers |-> 0]

Execute(c) ==
  /\ Access(c, "idle", "check")
  /\ attempt' = [attempt EXCEPT ![c] = 0]
  /\ Quietly

FailFast(c) == Access(c, "refused", "idle") /\ Quietly /\ UNCHANGED attempt

\* operation() answers: a status, or no status for a transport error.
Attempt(c, to) ==
  /\ Access(c, "calling", to)
  /\ attempt' = [attempt EXCEPT ![c] = @ + 1]
  /\ Quietly

MayRetry(c) == attempt[c] < MaxRetries

AttemptSucceeds(c) == Attempt(c, "succeeded")

\* 429: retried, and never recorded.
Throttled(c) ==
  \/ MayRetry(c) /\ Attempt(c, "calling")
  \/ ~MayRetry(c) /\ Attempt(c, "throttled")

GiveUp(c) == Access(c, "throttled", "idle") /\ Quietly /\ UNCHANGED attempt

RetryableFailure(c) == MayRetry(c) /\ Attempt(c, "calling")

\* Not retryable, or out of attempts.
FinalFailure(c) == Attempt(c, "failed")

\* The caller has its response, or a stream to read.
Answer(c) == (Access(c, "done", "idle") \/ Access(c, "done", "streaming")) /\ Quietly /\ UNCHANGED attempt

StreamCloses(c) == Access(c, "streaming", "idle") /\ Quietly /\ UNCHANGED attempt

\* Idle timeout, wall clock or transport error: record_stream_error.
StreamFails(c) == Access(c, "streaming", "failed") /\ Quietly /\ UNCHANGED attempt

\* The future is dropped at an await; there is none inside a breaker operation.
Dropped(c) == (Access(c, "calling", "idle") \/ Access(c, "streaming", "idle")) /\ Quietly /\ UNCHANGED attempt

Outcome(c) ==
  \/ AttemptSucceeds(c) \/ Throttled(c) \/ RetryableFailure(c) \/ FinalFailure(c)

CallStep(c) ==
  \/ Execute(c) \/ FailFast(c) \/ Outcome(c) \/ GiveUp(c) \/ Answer(c)
  \/ StreamCloses(c) \/ StreamFails(c) \/ Dropped(c)
  \/ BreakerStep(c) /\ UNCHANGED attempt

CallNext == (\E c \in Callers : CallStep(c)) \/ (TimePasses /\ UNCHANGED attempt)

CallSpec == CallInit /\ [][CallNext]_callVars

\* Threads run, requests time out, time passes, and users keep asking.
CallFairness ==
  /\ WF_callVars(TimePasses /\ UNCHANGED attempt)
  /\ \A c \in Callers : WF_callVars(CallStep(c))

FairCallSpec == CallSpec /\ CallFairness

-----------------------------------------------------------------------------
CallTypeOK ==
  /\ state \in {"closed", "open", "half_open"}
  /\ openAge \in 0 .. OpenFor \cup 0 .. MaxStall
  /\ windowAge \in NoWindow .. OldWindow
  /\ failures \in Nat /\ successes \in Nat
  /\ access \in [Callers -> Writing \cup Reading \cup
       {"idle", "calling", "throttled", "refused", "done", "streaming"}]
  /\ nowAge \in [Callers -> 0 .. MaxStall]
  /\ attempt \in [Callers -> 0 .. MaxRetries + 1]

\* A service that is asked again after the cool-down is always let through again:
\* the breaker never stays open for ever, and no probe has to be paired with a slot.
OpenIsNotForEver == state = "open" ~> \E c \in Callers : access[c] = "calling"

\* A service that stops failing is closed again, whatever was in flight when it
\* recovered and however its probes raced the resets of the counters.
RecoversWhenHealthy ==
  (<>[][\A c \in Callers : ~FinalFailure(c) /\ ~StreamFails(c) /\ ~Dropped(c)
                           /\ ~Throttled(c) /\ ~RetryableFailure(c)]_callVars)
    => []<>(state = "closed")

\* Throttling alone never opens the circuit: a 429 says that the service is healthy
\* (the comment in execute).  Once nothing else fails, the circuit leaves the open
\* state and does not come back to it.
ThrottlingNeverOpens ==
  (<>[][\A c \in Callers : ~FinalFailure(c) /\ ~StreamFails(c)]_callVars)
    => <>[](state # "open")

\* The calls are well formed, and the breaker is consistent whenever nobody is between two
\* of its accesses.
BreakerInv == CallTypeOK /\ SettledIsConsistent

\* The breaker lets go: an open circuit is probed again, a healthy service closes it, and
\* throttling alone never opens it.
BreakerRecovers == OpenIsNotForEver /\ RecoversWhenHealthy /\ ThrottlingNeverOpens

=============================================================================
