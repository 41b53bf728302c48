---------------------------- MODULE VoyageLimiter ----------------------------
(***************************************************************************)
(* The sliding window in front of the embedding provider                   *)
(* (clients/voyage_rate_limiter.rs): acquire looks at the requests, then   *)
(* at the tokens, then reserves a request, taking and releasing a mutex    *)
(* for each; record_usage enters the tokens when the answer is there.      *)
(*                                                                         *)
(* Times are ages.  A caller holds the time it took at the top of its loop *)
(* for at most MaxLag ticks; what it enters carries that time.             *)
(***************************************************************************)
EXTENDS Integers, Sequences, FiniteSets

CONSTANTS
  Askers,             \* calls of the Voyage client in flight
  MaxRpm, MaxTpm,
  Minute,             \* the 60 second window, in ticks
  MaxWait,            \* max_wait_secs, in ticks
  Estimates,          \* what estimate_tokens may say of a batch
  Usages,             \* what the provider may report
  MaxLag              \* bound

ASSUME LimiterAssumption ==
  /\ IsFiniteSet(Askers)
  /\ MaxRpm \in Nat \ {0} /\ MaxTpm \in Nat \ {0} /\ Minute \in Nat \ {0}
  /\ MaxWait \in Nat /\ Estimates \subseteq Nat /\ Usages \subseteq Nat /\ MaxLag \in Nat

VARIABLES
  requestTimes,       \* ages, oldest entry first
  tokenUsage,         \* [age, tokens], in the order recorded
  asker               \* Askers -> the call

limiterVars == <<requestTimes, tokenUsage, asker>>

\* lag is the age of `now', waited the age of `start', sleep what is left of a wait.
Resting ==
  [at |-> "idle", estimate |-> 0, lag |-> 0, waited |-> 0, sleep |-> 0,
   rpmOk |-> FALSE, tpmOk |-> FALSE]

LimiterInit ==
  /\ requestTimes = <<>> /\ tokenUsage = <<>>
  /\ asker = [a \in Askers |-> Resting]

At(a, where) == asker[a].at = where

Set(a, r) == asker' = [asker EXCEPT ![a] = r]

\* A queue without the leading entries for which `t < cutoff'.
Pruned(queue, a) ==
  LET kept == {i \in 1 .. Len(queue) : queue[i].age - asker[a].lag <= Minute}
  IN  IF kept = {} THEN <<>>
      ELSE SubSeq(queue, CHOOSE i \in kept : \A j \in kept : i <= j, Len(queue))

Tokens(queue) ==
  LET sum[n \in 0 .. Len(queue)] == IF n = 0 THEN 0 ELSE sum[n - 1] + queue[n].tokens
  IN  sum[Len(queue)]

-----------------------------------------------------------------------------
(* acquire.                                                                *)

Acquire(a, estimate) ==
  /\ At(a, "idle")
  /\ Set(a, [Resting EXCEPT !.at = "top", !.estimate = estimate])
  /\ UNCHANGED <<requestTimes, tokenUsage>>

TakeTime(a) ==
  /\ At(a, "top")
  /\ Set(a, IF asker[a].waited >= MaxWait THEN Resting
            ELSE [asker[a] EXCEPT !.lag = 0, !.at = "requests"])
  /\ UNCHANGED <<requestTimes, tokenUsage>>

CheckRequests(a) ==
  /\ At(a, "requests")
  /\ requestTimes' = Pruned(requestTimes, a)
  /\ Set(a, [asker[a] EXCEPT !.at = "tokens", !.rpmOk = Len(requestTimes') < MaxRpm])
  /\ UNCHANGED tokenUsage

\* Mutant: the answer about the requests is forgotten.
CheckTokensOnly(a) ==
  /\ At(a, "tokens")
  /\ tokenUsage' = Pruned(tokenUsage, a)
  /\ LET ok == Tokens(tokenUsage') + asker[a].estimate <= MaxTpm
     IN  Set(a, [asker[a] EXCEPT !.at = IF ok THEN "reserve" ELSE "plan", !.tpmOk = ok])
  /\ UNCHANGED requestTimes

CheckTokens(a) ==
  /\ At(a, "tokens")
  /\ tokenUsage' = Pruned(tokenUsage, a)
  /\ LET ok == Tokens(tokenUsage') + asker[a].estimate <= MaxTpm
     IN  Set(a, [asker[a] EXCEPT !.at = IF ok /\ asker[a].rpmOk THEN "reserve" ELSE "plan",
                                 !.tpmOk = ok])
  /\ UNCHANGED requestTimes

\* What is entered is the time taken before the checks.
Reserve(a) ==
  /\ At(a, "reserve")
  /\ requestTimes' = Append(requestTimes, [age |-> asker[a].lag, tokens |-> 0])
  /\ Set(a, [Resting EXCEPT !.at = "calling"])
  /\ UNCHANGED tokenUsage

\* Until the first entry of a full window leaves it; 100 ms, less than a tick, when
\* there is none or it is about to.
Leaves(queue, a) ==
  IF queue = <<>> \/ queue[1].age - asker[a].lag >= Minute THEN 0
  ELSE Minute - (queue[1].age - asker[a].lag)

Least(m, n) == IF m < n THEN m ELSE n

SleepFor(a) ==
  LET rpmWait == Leaves(requestTimes, a)
      tpmWait == Leaves(tokenUsage, a)
      wait == IF asker[a].rpmOk THEN tpmWait
              ELSE IF asker[a].tpmOk \/ tokenUsage = <<>> THEN rpmWait
              ELSE IF requestTimes = <<>> THEN tpmWait
              ELSE Least(rpmWait, tpmWait)
  IN  Least(wait, MaxWait - (asker[a].waited - asker[a].lag))

Plan(a) ==
  /\ At(a, "plan")
  /\ Set(a, [asker[a] EXCEPT !.at = "sleeping", !.sleep = SleepFor(a), !.lag = 0,
                             !.rpmOk = FALSE, !.tpmOk = FALSE])
  /\ UNCHANGED <<requestTimes, tokenUsage>>

Wake(a) ==
  /\ At(a, "sleeping") /\ asker[a].sleep = 0
  /\ Set(a, [asker[a] EXCEPT !.at = "top"])
  /\ UNCHANGED <<requestTimes, tokenUsage>>

-----------------------------------------------------------------------------
(* The provider answers: record_usage, and notify_waiters.                 *)

RecordUsage(a, tokens) ==
  /\ At(a, "calling")
  /\ tokenUsage' = Append(tokenUsage, [age |-> 0, tokens |-> tokens])
  /\ asker' = [b \in Askers |->
                 IF b = a THEN Resting
                 ELSE IF At(b, "sleeping") THEN [asker[b] EXCEPT !.at = "top", !.sleep = 0]
                 ELSE asker[b]]
  /\ UNCHANGED requestTimes

\* The call fails or reports no usage, or the future is dropped at an await.
Unrecorded(a) ==
  /\ ~At(a, "idle")
  /\ Set(a, Resting)
  /\ UNCHANGED <<requestTimes, tokenUsage>>

Aged(queue) ==
  [i \in DOMAIN queue |->
     [queue[i] EXCEPT !.age = Least(@ + 1, Minute + MaxLag + 1)]]

Clocked(a) == asker[a].at \in {"requests", "tokens", "reserve", "plan"}

MinutePasses ==
  /\ \A a \in Askers : Clocked(a) => asker[a].lag < MaxLag
  /\ requestTimes' = Aged(requestTimes)
  /\ tokenUsage' = Aged(tokenUsage)
  /\ asker' = [a \in Askers |->
       [asker[a] EXCEPT !.lag = IF Clocked(a) THEN @ + 1 ELSE @,
                        !.waited = IF asker[a].at \in {"idle", "calling"} THEN @
                                   ELSE Least(@ + 1, MaxWait + MaxLag),
                        !.sleep = IF @ > 0 THEN @ - 1 ELSE @]]

Turn(a) ==
  TakeTime(a) \/ CheckRequests(a) \/ CheckTokens(a) \/ Reserve(a) \/ Plan(a) \/ Wake(a)

LimiterNext ==
  \/ \E a \in Askers, e \in Estimates : Acquire(a, e)
  \/ \E a \in Askers : Turn(a) \/ Unrecorded(a)
  \/ \E a \in Askers, t \in Usages : RecordUsage(a, t)
  \/ MinutePasses

LimiterSpec == LimiterInit /\ [][LimiterNext]_limiterVars

\* The runtime polls the calls and time passes; nothing is assumed of the provider.
LimiterFairness ==
  /\ \A a \in Askers : WF_limiterVars(Turn(a))
  /\ WF_limiterVars(MinutePasses)

FairLimiterSpec == LimiterSpec /\ LimiterFairness

-----------------------------------------------------------------------------
Entry == [age : Nat, tokens : Nat]

LimiterTypeOK ==
  /\ requestTimes \in Seq(Entry) /\ tokenUsage \in Seq(Entry)
  /\ asker \in [Askers ->
       [at : {"idle", "top", "requests", "tokens", "reserve", "plan", "sleeping", "calling"},
        estimate : Nat, lag : 0 .. MaxLag, waited : Nat, sleep : Nat,
        rpmOk : BOOLEAN, tpmOk : BOOLEAN]]

\* Callers that have seen a free slot and not taken it yet.
Promised == {a \in Askers : asker[a].at = "reserve" \/ (At(a, "tokens") /\ asker[a].rpmOk)}

\* Checking and reserving under separate locks lets the window overflow, but only by
\* the callers that looked at the same time: with n of them at most n - 1 too many.
OvershootIsBounded ==
  Len(requestTimes) + Cardinality(Promised) <= MaxRpm + Cardinality(Askers) - 1

\* acquire's `fails if the wait would exceed max_wait_secs': it returns, one way or
\* the other, also when the batch alone is larger than the window or others keep
\* taking what it waits for.
AcquireReturns ==
  \A a \in Askers : At(a, "top") ~> At(a, "calling") \/ At(a, "idle")

\* The windows are well formed, and callers that race for the last slot overshoot the limit on
\* requests by no more than their number less one.
LimiterInv == LimiterTypeOK /\ OvershootIsBounded

=============================================================================
