--------------------------- MODULE CircuitBreaker ---------------------------
(***************************************************************************)
(* One provider's circuit breaker (clients/circuit_breaker.rs), as the     *)
(* accesses to shared memory its operations make: the state, opened_at and *)
(* the window are under a RwLock that every operation releases between a   *)
(* read and the write that follows it; the counters are atomics outside.   *)
(*                                                                         *)
(* access[c] is the next access of caller c.  Times are ages, so that the  *)
(* clock needs no bound; MaxStall bounds how long a caller may be held up  *)
(* between taking the time and using it.                                   *)
(***************************************************************************)
EXTENDS Integers

CONSTANTS
  Callers,
  FailureThreshold, SuccessThreshold,
  OpenFor,            \* open_duration
  Window,             \* failure_window
  MaxStall            \* bound

ASSUME BreakerAssumption ==
  /\ FailureThreshold \in Nat \ {0} /\ SuccessThreshold \in Nat \ {0}
  /\ OpenFor \in Nat /\ Window \in Nat /\ MaxStall \in Nat

VARIABLES
  state, openAge,      \* InnerState: the state and the age of opened_at
  windowAge,           \* age of failure_window_start, or NoWindow
  failures, successes,
  access,              \* Callers -> next access
  nowAge               \* Callers -> age of the time handle_closed_failure took

breakerVars == <<state, openAge, windowAge, failures, successes, access, nowAge>>

NoWindow == -1
OldWindow == Window + MaxStall + 1

\* Accesses of maybe_transition_to_half_open, record_success and record_failure
\* that still have a counter or the state to write.
Writing == {"halfOpening", "resetSuccesses", "resetFailures",
            "probeOk", "closing", "closedF", "closedS", "clearing", "clearWindow",
            "window", "newWindow", "openWindow", "counting", "tripping",
            "reopening", "reopened"}
Reading == {"check", "admitting", "succeeded", "failed"}

BreakerInit ==
  /\ state = "closed" /\ openAge = 0 /\ windowAge = NoWindow
  /\ failures = 0 /\ successes = 0
  /\ access = [c \in Callers |-> "idle"]
  /\ nowAge = [c \in Callers |-> 0]

Access(c, from, to) == access[c] = from /\ access' = [access EXCEPT ![c] = to]

inner    == <<state, openAge, windowAge>>
counters == <<failures, successes>>

-----------------------------------------------------------------------------
(* allow_request.                                                          *)

ReadCoolDown(c) ==
  /\ Access(c, "check", IF state = "open" /\ openAge >= OpenFor THEN "halfOpening" ELSE "admitting")
  /\ UNCHANGED <<inner, counters, nowAge>>

\* The second look is at the state only.
HalfOpen(c) ==
  /\ \/ state = "open" /\ state' = "half_open" /\ Access(c, "halfOpening", "resetSuccesses")
     \/ state # "open" /\ UNCHANGED state /\ Access(c, "halfOpening", "admitting")
  /\ UNCHANGED <<openAge, windowAge, counters, nowAge>>

\* A counter set to zero, on the way from one access to the next.
ResetSuccesses(c) ==
  /\ \/ Access(c, "resetSuccesses", "resetFailures") \/ Access(c, "closedS", "done") \/ Access(c, "reopened", "idle")
  /\ successes' = 0
  /\ UNCHANGED <<inner, failures, nowAge>>

ResetFailures(c) ==
  /\ \/ Access(c, "resetFailures", "admitting") \/ Access(c, "closedF", "closedS")
     \/ Access(c, "clearing", "clearWindow") \/ Access(c, "newWindow", "openWindow")
  /\ failures' = 0
  /\ UNCHANGED <<inner, successes, nowAge>>

AdmitOrRefuse(c) ==
  /\ Access(c, "admitting", IF state = "open" THEN "refused" ELSE "calling")
  /\ UNCHANGED <<inner, counters, nowAge>>

-----------------------------------------------------------------------------
(* record_success.                                                         *)

\* Mutant: successes of probes are not counted.
SeeSuccessUncounted(c) ==
  /\ Access(c, "succeeded", IF state = "closed" THEN "clearing" ELSE "done")
  /\ UNCHANGED <<inner, counters, nowAge>>

SeeSuccess(c) ==
  /\ Access(c, "succeeded", CASE state = "half_open" -> "probeOk"
                          [] state = "closed"    -> "clearing"
                          [] OTHER               -> "done")
  /\ UNCHANGED <<inner, counters, nowAge>>

CountSuccess(c) ==
  /\ successes' = successes + 1
  /\ Access(c, "probeOk", IF successes' >= SuccessThreshold THEN "closing" ELSE "done")
  /\ UNCHANGED <<inner, failures, nowAge>>

CloseCircuit(c) ==
  /\ Access(c, "closing", "closedF")
  /\ state' = "closed" /\ openAge' = 0 /\ windowAge' = NoWindow
  /\ UNCHANGED <<counters, nowAge>>

ClearWindow(c) ==
  /\ Access(c, "clearWindow", "done")
  /\ windowAge' = NoWindow
  /\ UNCHANGED <<state, openAge, counters, nowAge>>

-----------------------------------------------------------------------------
(* record_failure.                                                         *)

SeeFailure(c) ==
  /\ Access(c, "failed", CASE state = "closed"    -> "window"
                       [] state = "half_open" -> "reopening"
                       [] OTHER               -> "idle")
  /\ nowAge' = [nowAge EXCEPT ![c] = 0]
  /\ UNCHANGED <<inner, counters>>

\* A window opened after now was taken counts as one that has just begun.
CheckWindow(c) ==
  /\ Access(c, "window", IF windowAge = NoWindow \/ windowAge - nowAge[c] > Window
                     THEN "newWindow" ELSE "counting")
  /\ UNCHANGED <<inner, counters, nowAge>>

OpenWindow(c) ==
  /\ Access(c, "openWindow", "counting")
  /\ windowAge' = nowAge[c]
  /\ UNCHANGED <<state, openAge, counters, nowAge>>

\* Mutant: the circuit opens one failure late.
CountFailureLate(c) ==
  /\ failures' = failures + 1
  /\ Access(c, "counting", IF failures' > FailureThreshold THEN "tripping" ELSE "idle")
  /\ UNCHANGED <<inner, successes, nowAge>>

CountFailure(c) ==
  /\ failures' = failures + 1
  /\ Access(c, "counting", IF failures' >= FailureThreshold THEN "tripping" ELSE "idle")
  /\ UNCHANGED <<inner, successes, nowAge>>

\* opened_at is the time this failure was first looked at.
Trip(c) ==
  /\ Access(c, "tripping", "idle")
  /\ state' = "open" /\ openAge' = nowAge[c]
  /\ UNCHANGED <<windowAge, counters, nowAge>>

TransitionToOpen(c) ==
  /\ Access(c, "reopening", "reopened")
  /\ state' = "open" /\ openAge' = 0
  /\ UNCHANGED <<windowAge, counters, nowAge>>

BreakerStep(c) ==
  \/ ReadCoolDown(c) \/ HalfOpen(c) \/ ResetSuccesses(c) \/ ResetFailures(c)
  \/ AdmitOrRefuse(c) \/ SeeSuccess(c) \/ CountSuccess(c) \/ CloseCircuit(c)
  \/ ClearWindow(c) \/ SeeFailure(c) \/ CheckWindow(c) \/ OpenWindow(c)
  \/ CountFailure(c) \/ Trip(c) \/ TransitionToOpen(c)

Older(age, cap) == IF age < cap THEN age + 1 ELSE age

Stalled == {c \in Callers : access[c] \in {"window", "newWindow", "openWindow", "counting", "tripping"}}

TimePasses ==
  /\ \A c \in Stalled : nowAge[c] < MaxStall
  /\ openAge' = IF state = "open" THEN Older(openAge, OpenFor) ELSE openAge
  /\ windowAge' = IF windowAge = NoWindow THEN NoWindow ELSE Older(windowAge, OldWindow)
  /\ nowAge' = [c \in Callers |-> IF c \in Stalled THEN nowAge[c] + 1 ELSE 0]
  /\ UNCHANGED <<state, counters, access>>

-----------------------------------------------------------------------------
Settled == \A c \in Callers : access[c] \notin Writing

\* With no operation half done the counters agree with the state: a closed circuit
\* has not reached its threshold of failures, a half-open one not its threshold of
\* successes, whatever interleaving of stale and fresh outcomes came before.
SettledIsConsistent ==
  Settled =>
    /\ state = "closed" => failures < FailureThreshold
    /\ state = "half_open" => successes < SuccessThreshold
=============================================================================
