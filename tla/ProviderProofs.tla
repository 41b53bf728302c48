--------------------------- MODULE ProviderProofs ---------------------------
(***************************************************************************)
(* Proofs about what stands between the server and those it talks to: the  *)
(* vectors of questions, the circuit breaker, the embedding limiter, the   *)
(* exchange on the wire and the limit on incoming requests, for any number *)
(* of callers, any streams and any limits, thresholds, windows and delays. *)
(***************************************************************************)
EXTENDS ResilientCall, VoyageLimiter, QueryVectors, ProviderWire, RateLimiter,
        PlacesProofs, FiniteSetTheorems, TLAPS

-----------------------------------------------------------------------------
(* Question vectors. *)

Texts == Questions \cup {"none"}

Vectors == {<<>>} \cup {Itself(q) : q \in Texts} \cup {Document(q) : q \in Texts}

CachedSet == [kind : Kinds, text : Texts, vec : Vectors]

LookupSet ==
  [step : {"idle", "generating", "embedding", "answered", "failed"},
   kind : SearchKinds \cup {"memory"}, text : Texts, vec : Vectors, keep : Kinds]

(* A generated document stands for a short question that is searched for.  *)
MayStandIn(l) == l.kind \in SearchKinds /\ hyde /\ l.text \in short

LookupOK(l) ==
  /\ l.step = "generating" => MayStandIn(l) /\ l.vec = Itself(l.text) /\ l.keep = l.kind
  /\ l.step = "embedding" =>
       \/ l.vec = Itself(l.text) /\ l.keep = l.kind
       \/ l.vec = Document(l.text) /\ l.keep = "hyde" /\ MayStandIn(l)
  /\ l.step = "answered" =>
       \/ l.vec = Itself(l.text)
       \/ l.vec = Document(l.text) /\ MayStandIn(l)

(* What an entry holds follows from its namespace.                         *)
CachedOK(e) ==
  /\ e.kind = "hyde" => e.vec = Document(e.text) /\ hyde /\ e.text \in short
  /\ e.kind # "hyde" => e.vec = Itself(e.text)

OneEntryPerKey == \A e, f \in cache : e.kind = f.kind /\ e.text = f.text => e = f

QueryIInv ==
  /\ cache \subseteq CachedSet /\ lookup \in [Lookups -> LookupSet]
  /\ \A a \in Lookups : LookupOK(lookup[a])
  /\ \A e \in cache : CachedOK(e)
  /\ OneEntryPerKey

LEMMA QueryStarts == QueryInit => QueryIInv
BY DEF QueryInit, QueryIInv, NoLookup, LookupSet, LookupOK, OneEntryPerKey, Vectors, Texts,
       Kinds, SearchKinds

LEMMA QueryLooks ==
  ASSUME QueryIInv, NEW a \in Lookups, NEW kind \in SearchKinds \cup {"memory"},
         NEW q \in Questions, Look(a, kind, q)
  PROVE  QueryIInv'
<1> USE DEF QueryIInv, LookupSet, CachedSet, Vectors, Texts, Kinds, SearchKinds
<1>1. UNCHANGED <<cache, hyde, short>>
  BY DEF Look
<1>2. (\A e \in cache : CachedOK(e))' /\ OneEntryPerKey'
  BY <1>1 DEF CachedOK, OneEntryPerKey
<1>3. ASSUME NEW e \in FirstHit(kind, q),
             lookup' = [lookup EXCEPT ![a] = [step |-> "answered", kind |-> kind, text |-> q,
                                              vec |-> e.vec, keep |-> e.kind]]
      PROVE  lookup' \in [Lookups -> LookupSet] /\ \A b \in Lookups : LookupOK(lookup[b])'
  <2>1. e \in cache /\ e.text = q /\ (e.kind = kind \/ (e.kind = "hyde" /\ kind \in SearchKinds))
    BY <1>3 DEF FirstHit, Found
  <2>2. CachedOK(e) /\ e \in CachedSet
    BY <2>1
  <2>. QED
    BY <1>1, <1>3, <2>1, <2>2 DEF LookupOK, CachedOK, MayStandIn
<1>4. ASSUME lookup' = [lookup EXCEPT ![a] =
                [step |-> IF kind \in SearchKinds /\ hyde /\ q \in short
                          THEN "generating" ELSE "embedding",
                 kind |-> kind, text |-> q, vec |-> Itself(q), keep |-> kind]]
      PROVE  lookup' \in [Lookups -> LookupSet] /\ \A b \in Lookups : LookupOK(lookup[b])'
  BY <1>1, <1>4 DEF LookupOK, MayStandIn
<1>. QED
  BY <1>1, <1>2, <1>3, <1>4 DEF Look

LEMMA QueryGenerates ==
  ASSUME QueryIInv, NEW a \in Lookups, Generate(a)
  PROVE  QueryIInv'
BY DEF QueryIInv, LookupSet, CachedSet, Vectors, Texts, Kinds, SearchKinds, Generate,
       LookupOK, CachedOK, MayStandIn, OneEntryPerKey

LEMMA QueryEmbeds ==
  ASSUME QueryIInv, NEW a \in Lookups, Embed(a)
  PROVE  QueryIInv'
<1> USE DEF QueryIInv, LookupSet, CachedSet, Vectors, Texts, Kinds, SearchKinds
<1>1. UNCHANGED <<hyde, short>> /\ lookup[a].step = "embedding" /\ LookupOK(lookup[a])
  BY DEF Embed
<1>2. lookup' \in [Lookups -> LookupSet] /\ \A b \in Lookups : LookupOK(lookup[b])'
  BY <1>1 DEF Embed, LookupOK, MayStandIn
<1>3. cache' \subseteq CachedSet /\ (\A e \in cache : CachedOK(e))' /\ OneEntryPerKey'
  <2>1. CASE UNCHANGED cache
    BY <1>1, <2>1 DEF CachedOK, OneEntryPerKey
  <2>2. CASE Insert(lookup[a].keep, lookup[a].text, lookup[a].vec)
    <3> DEFINE new == [kind |-> lookup[a].keep, text |-> lookup[a].text, vec |-> lookup[a].vec]
    <3>1. new \in CachedSet /\ CachedOK(new)
      BY <1>1 DEF CachedOK, LookupOK, MayStandIn
    <3>2. cache' = {e \in cache : ~(e.kind = new.kind /\ e.text = new.text)} \cup {new}
      BY <2>2 DEF Insert
    <3>. QED
      BY <1>1, <3>1, <3>2 DEF CachedOK, OneEntryPerKey
  <2>. QED
    BY <2>1, <2>2 DEF Embed
<1>. QED
  BY <1>2, <1>3

LEMMA QueryKeeps == QueryIInv /\ [QueryNext]_queryVars => QueryIInv'
<1> SUFFICES ASSUME QueryIInv, [QueryNext]_queryVars PROVE QueryIInv'
  OBVIOUS
<1>1. ASSUME NEW a \in Lookups, Finish(a) PROVE QueryIInv'
  BY <1>1 DEF Finish, QueryIInv, NoLookup, LookupSet, LookupOK, MayStandIn, CachedOK,
              OneEntryPerKey, Vectors, Texts, Kinds, SearchKinds
<1>2. CASE Evict
  BY <1>2 DEF Evict, QueryIInv, LookupOK, MayStandIn, CachedOK, OneEntryPerKey
<1>3. CASE UNCHANGED queryVars
  BY <1>3 DEF queryVars, QueryIInv, LookupOK, MayStandIn, CachedOK, OneEntryPerKey
<1>. QED
  BY <1>1, <1>2, <1>3, QueryLooks, QueryGenerates, QueryEmbeds DEF QueryNext

(* A question is answered with the vector of its own text, or of a document *)
(* generated for it when it is short and searched for, whatever other calls *)
(* put into the cache meanwhile; the cache has one entry per key, and only   *)
(* the HyDE namespace holds documents.                                      *)
THEOREM QuestionsFindTheirVector == QuerySpec => []QueryInv
<1>1. QueryIInv => QueryInv
  BY DEF QueryIInv, QueryInv, AnswersItsQuestion, CacheIsNamed, LookupOK, CachedOK, MayStandIn,
         OneEntryPerKey, Itself, Document
<1>. QED
  BY <1>1, QueryStarts, QueryKeeps, PTL DEF QuerySpec

-----------------------------------------------------------------------------
(* The circuit breaker. *)

(* The accesses before the first request of a call.                        *)
Asking == {"check", "halfOpening", "resetSuccesses", "resetFailures", "admitting"}

AttemptsOK ==
  \A c \in Callers :
    /\ access[c] \in Asking => attempt[c] = 0
    /\ access[c] = "calling" => attempt[c] <= MaxRetries

(* A counter at its threshold in the state that counts it is about to trip *)
(* the circuit or close it, or to be reset by the caller that just changed *)
(* the state.                                                              *)
SomeoneSettles ==
  /\ state = "closed" /\ failures >= FailureThreshold
       => \E c \in Callers : access[c] \in {"tripping", "closedF"}
  /\ state = "half_open" /\ successes >= SuccessThreshold
       => \E c \in Callers : access[c] \in {"closing", "resetSuccesses"}

BreakerIInv == CallTypeOK /\ AttemptsOK /\ SomeoneSettles

LEMMA BreakerStarts == CallInit => BreakerIInv
BY BreakerAssumption, RetryAssumption
DEF CallInit, BreakerInit, BreakerIInv, CallTypeOK, AttemptsOK, Asking, SomeoneSettles, NoWindow,
    OldWindow, Writing, Reading

(* A step of a call outside the breaker leaves it alone.                   *)
LEMMA CallKeepsBreaker ==
  ASSUME BreakerIInv, NEW c \in Callers,
         \/ Execute(c) \/ FailFast(c) \/ Outcome(c) \/ GiveUp(c) \/ Answer(c)
         \/ StreamCloses(c) \/ StreamFails(c) \/ Dropped(c)
  PROVE  BreakerIInv'
<1> USE BreakerAssumption, RetryAssumption
    DEF BreakerIInv, Writing, Reading, Access, Quietly, inner, counters
<1>1. UNCHANGED <<state, openAge, windowAge, failures, successes, nowAge>>
  BY DEF Execute, FailFast, Outcome, GiveUp, Answer, StreamCloses, StreamFails, Dropped,
         AttemptSucceeds, Throttled, RetryableFailure, FinalFailure, Attempt
<1>2. /\ access' \in [Callers -> Writing \cup Reading \cup
           {"idle", "calling", "throttled", "refused", "done", "streaming"}]
      /\ attempt' \in [Callers -> 0 .. MaxRetries + 1]
      /\ AttemptsOK'
  BY DEF CallTypeOK, AttemptsOK, Asking, Execute, FailFast, Outcome, GiveUp, Answer, StreamCloses,
         StreamFails, Dropped, AttemptSucceeds, Throttled, RetryableFailure, FinalFailure, Attempt,
         MayRetry
<1>3. SomeoneSettles'
  BY <1>1 DEF CallTypeOK, SomeoneSettles, Execute, FailFast, Outcome, GiveUp, Answer, StreamCloses,
         StreamFails, Dropped, AttemptSucceeds, Throttled, RetryableFailure, FinalFailure, Attempt
<1>. QED
  BY <1>1, <1>2, <1>3 DEF CallTypeOK

LEMMA BreakerStepKeeps ==
  ASSUME BreakerIInv, NEW c \in Callers, BreakerStep(c), UNCHANGED attempt
  PROVE  BreakerIInv'
<1> USE BreakerAssumption, RetryAssumption
    DEF BreakerIInv, Writing, Reading, Access, inner, counters
<1>1. CallTypeOK' /\ AttemptsOK'
  BY DEF CallTypeOK, AttemptsOK, Asking, NoWindow, OldWindow, BreakerStep, ReadCoolDown, HalfOpen,
         ResetSuccesses, ResetFailures, AdmitOrRefuse, SeeSuccess, CountSuccess, CloseCircuit,
         ClearWindow, SeeFailure, CheckWindow, OpenWindow, CountFailure, Trip, TransitionToOpen
<1>2. SomeoneSettles'
  BY DEF CallTypeOK, SomeoneSettles, BreakerStep, ReadCoolDown, HalfOpen,
         ResetSuccesses, ResetFailures, AdmitOrRefuse, SeeSuccess, CountSuccess, CloseCircuit,
         ClearWindow, SeeFailure, CheckWindow, OpenWindow, CountFailure, Trip, TransitionToOpen
<1>. QED
  BY <1>1, <1>2

LEMMA TimeKeepsBreaker ==
  ASSUME BreakerIInv, TimePasses, UNCHANGED attempt
  PROVE  BreakerIInv'
BY BreakerAssumption, RetryAssumption
DEF BreakerIInv, CallTypeOK, AttemptsOK, SomeoneSettles, TimePasses, Stalled, Older, NoWindow,
    OldWindow, counters

LEMMA BreakerKeeps == BreakerIInv /\ [CallNext]_callVars => BreakerIInv'
<1>1. BreakerIInv /\ UNCHANGED callVars => BreakerIInv'
  BY DEF BreakerIInv, CallTypeOK, AttemptsOK, SomeoneSettles, callVars, breakerVars
<1>. QED
  BY <1>1, CallKeepsBreaker, BreakerStepKeeps, TimeKeepsBreaker DEF CallNext, CallStep

(* Whenever no caller is between two accesses of the breaker, a closed       *)
(* circuit is below its threshold of failures and a half-open one below its *)
(* threshold of successes, for any thresholds and number of callers and     *)
(* whatever interleaving of stale and fresh outcomes came before.           *)
THEOREM BreakerSettles == CallSpec => []BreakerInv
<1>1. BreakerIInv => BreakerInv
  BY BreakerAssumption
  DEF BreakerIInv, BreakerInv, SettledIsConsistent, Settled, SomeoneSettles, CallTypeOK, Writing
<1>. QED
  BY <1>1, BreakerStarts, BreakerKeeps, PTL DEF CallSpec

-----------------------------------------------------------------------------
(* The limiter of the embedding client. *)

(* Pruning leaves a window that is no longer than it was.                  *)
LEMMA PrunedIsWindow ==
  ASSUME NEW queue \in Seq(Entry), NEW a, asker[a].lag \in Nat
  PROVE  Pruned(queue, a) \in Seq(Entry) /\ Len(Pruned(queue, a)) <= Len(queue)
<1> DEFINE kept == {i \in 1 .. Len(queue) : queue[i].age - asker[a].lag <= Minute}
           first == CHOOSE i \in kept : \A j \in kept : i <= j
<1>1. CASE kept = {}
  BY <1>1 DEF Pruned
<1>2. CASE kept # {}
  <2>1. kept \subseteq Nat
    OBVIOUS
  <2>2. first \in kept
    <3> HIDE DEF kept
    <3>. QED
      BY <1>2, <2>1, LeastOf
  <2>3. first \in 1 .. Len(queue) /\ Len(queue) \in Nat
    BY <2>2
  <2>4. Pruned(queue, a) = SubSeq(queue, first, Len(queue))
    BY <1>2 DEF Pruned
  <2> HIDE DEF first
  <2>5. /\ SubSeq(queue, first, Len(queue)) \in Seq(Entry)
        /\ Len(SubSeq(queue, first, Len(queue))) = Len(queue) - first + 1
    BY <2>3
  <2>. QED
    BY <2>3, <2>4, <2>5
<1>. QED
  BY <1>1, <1>2

LEMMA AgedIsWindow ==
  ASSUME NEW queue \in Seq(Entry)
  PROVE  Aged(queue) \in Seq(Entry) /\ Len(Aged(queue)) = Len(queue)
<1>1. \A e \in Entry : [e EXCEPT !.age = Least(@ + 1, Minute + MaxLag + 1)] \in Entry
  BY LimiterAssumption DEF Entry, Least
<1>2. DOMAIN queue = 1 .. Len(queue) /\ Len(queue) \in Nat
  OBVIOUS
<1>3. Aged(queue) \in [1 .. Len(queue) -> Entry]
  BY <1>1, <1>2 DEF Aged
<1>. QED
  BY <1>2, <1>3

(* A caller whose time is running began to wait less than max_wait_secs    *)
(* before it took that time.                                               *)
WaitsInTime == \A a \in Askers : Clocked(a) => asker[a].waited - asker[a].lag < MaxWait

LimiterIInv == LimiterTypeOK /\ WaitsInTime /\ OvershootIsBounded

LEMMA PromisedAreCounted ==
  /\ IsFiniteSet(Promised) /\ Cardinality(Promised) \in Nat
  /\ Cardinality(Askers) \in Nat /\ Cardinality(Promised) <= Cardinality(Askers)
BY LimiterAssumption, FS_Subset, FS_CardinalityType DEF Promised

(* Who neither enters a request nor sees a free slot adds no overshoot.    *)
LEMMA NothingPromised ==
  ASSUME LimiterTypeOK, OvershootIsBounded, Len(requestTimes') <= Len(requestTimes),
         Len(requestTimes') \in Nat, Promised' \subseteq Promised
  PROVE  OvershootIsBounded'
<1>1. Cardinality(Promised') <= Cardinality(Promised) /\ Cardinality(Promised') \in Nat
  BY PromisedAreCounted, FS_Subset, FS_CardinalityType
<1>2. Len(requestTimes) \in Nat
  BY DEF LimiterTypeOK
<1>. QED
  BY <1>1, <1>2, PromisedAreCounted, LimiterAssumption DEF OvershootIsBounded

LEMMA LimiterStarts == LimiterInit => LimiterIInv
<1> SUFFICES ASSUME LimiterInit PROVE LimiterIInv
  OBVIOUS
<1>1. LimiterTypeOK /\ WaitsInTime
  BY LimiterAssumption DEF LimiterInit, LimiterTypeOK, WaitsInTime, Resting, Clocked
<1>2. Promised = {}
  BY DEF LimiterInit, Promised, Resting, At
<1>3. Cardinality(Promised) = 0 /\ Len(requestTimes) = 0
  BY <1>2, FS_EmptySet DEF LimiterInit
<1>. QED
  BY <1>1, <1>3, PromisedAreCounted, LimiterAssumption DEF LimiterIInv, OvershootIsBounded

Lags == 0 .. MaxLag

AskerSet ==
  [at : {"idle", "top", "requests", "tokens", "reserve", "plan", "sleeping", "calling"},
   estimate : Nat, lag : Lags, waited : Nat, sleep : Nat, rpmOk : BOOLEAN, tpmOk : BOOLEAN]

Running(r) == r.at \in {"requests", "tokens", "reserve", "plan"}

Promises(r) == r.at = "reserve" \/ (r.at = "tokens" /\ r.rpmOk)

(* What an asker's record has to be, and a step that changes one record.   *)
AskerOK(r) == r \in AskerSet /\ (Running(r) => r.waited - r.lag < MaxWait)

LEMMA LagsAre == 0 \in Lags /\ \A lag \in Lags : lag \in Nat /\ (lag < MaxLag => lag + 1 \in Lags)
BY LimiterAssumption DEF Lags

LEMMA AskerIs ==
  ASSUME LimiterIInv
  PROVE  /\ requestTimes \in Seq(Entry) /\ tokenUsage \in Seq(Entry)
         /\ Len(requestTimes) \in Nat
         /\ asker \in [Askers -> AskerSet] /\ \A a \in Askers : AskerOK(asker[a])
BY DEF LimiterIInv, LimiterTypeOK, AskerSet, Lags, AskerOK, WaitsInTime, Clocked, Running

LEMMA AskersAreWell ==
  ASSUME requestTimes' \in Seq(Entry), tokenUsage' \in Seq(Entry),
         asker' \in [Askers -> AskerSet], \A a \in Askers : AskerOK(asker'[a])
  PROVE  LimiterTypeOK' /\ WaitsInTime'
<1>1. LimiterTypeOK'
  BY DEF LimiterTypeOK, AskerSet, Lags
<1>2. WaitsInTime'
  BY DEF AskerOK, WaitsInTime, Clocked, Running
<1>. QED
  BY <1>1, <1>2

LEMMA OneAskerMoves ==
  ASSUME LimiterIInv, NEW a \in Askers, NEW r, AskerOK(r),
         requestTimes' \in Seq(Entry), tokenUsage' \in Seq(Entry),
         asker' = [asker EXCEPT ![a] = r]
  PROVE  /\ LimiterTypeOK' /\ WaitsInTime'
         /\ Promised' = IF Promises(r) THEN Promised \cup {a} ELSE Promised \ {a}
<1>1. asker' \in [Askers -> AskerSet] /\ asker'[a] = r /\ \A b \in Askers \ {a} : asker'[b] = asker[b]
  BY AskerIs DEF AskerOK
<1>2. \A b \in Askers : AskerOK(asker'[b])
  BY <1>1, AskerIs
<1>3. \A b \in Askers : (b \in Promised <=> Promises(asker[b])) /\ (b \in Promised' <=> Promises(asker'[b]))
  BY DEF Promised, Promises, At
<1>4. Promised \subseteq Askers /\ Promised' \subseteq Askers
  BY DEF Promised
<1>5. LimiterTypeOK' /\ WaitsInTime'
  BY <1>1, <1>2, AskersAreWell
<1>. QED
  BY <1>1, <1>3, <1>4, <1>5

LEMMA RestingIsWell == AskerOK(Resting) /\ ~Promises(Resting)
BY LimiterAssumption, LagsAre DEF AskerOK, AskerSet, Running, Promises, Resting

(* The record an action of one asker leaves.                               *)
LEMMA LimiterActs ==
  ASSUME LimiterIInv, NEW a \in Askers,
         \/ \E e \in Estimates : Acquire(a, e)
         \/ TakeTime(a) \/ Plan(a) \/ Wake(a) \/ Unrecorded(a)
  PROVE  LimiterIInv'
<1> DEFINE old == asker[a]
<1>1. UNCHANGED <<requestTimes, tokenUsage>>
  BY DEF Acquire, TakeTime, Plan, Wake, Unrecorded
<1>2. old \in AskerSet /\ AskerOK(old)
  BY AskerIs
<1> DEFINE Moved == \E r : AskerOK(r) /\ ~Promises(r) /\ asker' = [asker EXCEPT ![a] = r]
<1>3. Moved
  <2>1. ASSUME NEW e \in Estimates, Acquire(a, e) PROVE Moved
    <3>1. asker' = [asker EXCEPT ![a] = [Resting EXCEPT !.at = "top", !.estimate = e]]
      BY <2>1 DEF Acquire, Set
    <3>2. AskerOK([Resting EXCEPT !.at = "top", !.estimate = e])
          /\ ~Promises([Resting EXCEPT !.at = "top", !.estimate = e])
      BY LimiterAssumption, LagsAre DEF AskerOK, AskerSet, Running, Promises, Resting
    <3>. QED
      BY <3>1, <3>2
  <2>2. CASE TakeTime(a)
    <3>1. CASE old.waited >= MaxWait
      BY <2>2, <3>1, RestingIsWell DEF TakeTime, Set
    <3>2. CASE ~(old.waited >= MaxWait)
      <4>1. asker' = [asker EXCEPT ![a] = [old EXCEPT !.lag = 0, !.at = "requests"]]
        BY <2>2, <3>2 DEF TakeTime, Set
      <4> DEFINE new == [old EXCEPT !.lag = 0, !.at = "requests"]
      <4>2. new \in AskerSet /\ new.at = "requests" /\ new.lag = 0 /\ new.waited = old.waited
        BY <1>2, LagsAre DEF AskerSet
      <4>3. old.waited \in Nat
        BY <1>2 DEF AskerSet
      <4> HIDE DEF new
      <4>4. AskerOK(new) /\ ~Promises(new)
        BY <3>2, <4>2, <4>3, LimiterAssumption DEF AskerOK, Promises
      <4>. QED
        BY <4>1, <4>4 DEF new
    <3>. QED
      BY <3>1, <3>2
  <2>3. CASE Plan(a)
    <3>1. SleepFor(a) \in Nat
      <4>1. old.waited - old.lag \in Int /\ old.waited - old.lag < MaxWait
        <5>1. old.waited \in Nat /\ old.lag \in Nat /\ old.at = "plan"
          BY <1>2, <2>3, LagsAre DEF AskerSet, Plan, At
        <5>. QED
          BY <1>2, <5>1, LimiterAssumption DEF AskerOK, Running
      <4>2. ASSUME NEW queue \in Seq(Entry) PROVE Leaves(queue, a) \in Nat
        <5>1. CASE queue # <<>>
          <6>1. queue[1] \in Entry
            BY <5>1
          <6>2. queue[1].age \in Nat /\ old.lag \in Nat
            BY <1>2, <6>1, LimiterAssumption, LagsAre DEF Entry, AskerSet
          <6>. QED
            BY <5>1, <6>2, LimiterAssumption, LagsAre DEF Leaves
        <5>2. CASE queue = <<>>
          BY <5>2 DEF Leaves
        <5>. QED
          BY <5>1, <5>2
      <4>3. Leaves(requestTimes, a) \in Nat /\ Leaves(tokenUsage, a) \in Nat
        BY <4>2, AskerIs
      <4>. QED
        BY <4>1, <4>3, LimiterAssumption, LagsAre DEF SleepFor, Least
    <3> DEFINE new == [old EXCEPT !.at = "sleeping", !.sleep = SleepFor(a), !.lag = 0,
                                  !.rpmOk = FALSE, !.tpmOk = FALSE]
    <3>2. asker' = [asker EXCEPT ![a] = new]
      BY <2>3 DEF Plan, Set
    <3>3. AskerOK(new) /\ ~Promises(new)
      BY <1>2, <3>1, LimiterAssumption, LagsAre DEF AskerOK, AskerSet, Running, Promises
    <3>. QED
      BY <3>2, <3>3
  <2>4. CASE Wake(a)
    <3>1. asker' = [asker EXCEPT ![a] = [old EXCEPT !.at = "top"]]
      BY <2>4 DEF Wake, Set
    <3>2. AskerOK([old EXCEPT !.at = "top"]) /\ ~Promises([old EXCEPT !.at = "top"])
      BY <1>2 DEF AskerOK, AskerSet, Running, Promises
    <3>. QED
      BY <3>1, <3>2
  <2>5. CASE Unrecorded(a)
    BY <2>5, RestingIsWell DEF Unrecorded, Set
  <2>. QED
    BY <2>1, <2>2, <2>3, <2>4, <2>5
<1>4. LimiterTypeOK' /\ WaitsInTime' /\ Promised' \subseteq Promised
  BY <1>1, <1>3, AskerIs, OneAskerMoves
<1>5. Len(requestTimes') <= Len(requestTimes) /\ Len(requestTimes') \in Nat
  BY <1>1, AskerIs
<1>. QED
  BY <1>4, <1>5, NothingPromised DEF LimiterIInv

(* A free slot is seen below the limit, so one more caller may count on it *)
(* than has.                                                               *)
LEMMA LimiterLooks ==
  ASSUME LimiterIInv, NEW a \in Askers, CheckRequests(a)
  PROVE  LimiterIInv'
<1> DEFINE free == Len(requestTimes') < MaxRpm
           new == [asker[a] EXCEPT !.at = "tokens", !.rpmOk = free]
<1>1. asker[a] \in AskerSet /\ AskerOK(asker[a]) /\ asker[a].at = "requests"
  BY AskerIs DEF CheckRequests, At
<1>2. requestTimes' \in Seq(Entry) /\ Len(requestTimes') <= Len(requestTimes)
  BY <1>1, AskerIs, PrunedIsWindow, LimiterAssumption, LagsAre DEF CheckRequests, AskerSet
<1>3. Len(requestTimes') \in Nat /\ UNCHANGED tokenUsage
  BY <1>2 DEF CheckRequests
<1>4. asker' = [asker EXCEPT ![a] = new]
  BY DEF CheckRequests, Set
<1>5. AskerOK(new) /\ (Promises(new) <=> free)
  <2>1. free \in BOOLEAN
    BY <1>3, LimiterAssumption
  <2> HIDE DEF free
  <2>2. new \in AskerSet /\ new.at = "tokens" /\ (new.rpmOk <=> free)
    BY <1>1, <2>1 DEF AskerSet
  <2>3. new.waited = asker[a].waited /\ new.lag = asker[a].lag
    BY <1>1 DEF AskerSet
  <2> HIDE DEF new
  <2>. QED
    BY <1>1, <2>2, <2>3 DEF AskerOK, Running, Promises
<1>6. LimiterTypeOK' /\ WaitsInTime'
  BY <1>2, <1>3, <1>4, <1>5, AskerIs, OneAskerMoves
<1>7. CASE free
  <2>1. (Cardinality(Promised) <= Cardinality(Askers) /\ Cardinality(Promised) \in Nat)'
    BY LimiterAssumption, LagsAre, FS_Subset, FS_CardinalityType DEF Promised
  <2>. QED
    BY <1>3, <1>6, <1>7, <2>1, PromisedAreCounted, LimiterAssumption, LagsAre
    DEF OvershootIsBounded, LimiterIInv
<1>8. CASE ~free
  <2>1. Promised' \subseteq Promised
    <3> HIDE DEF new
    <3>. QED
      BY <1>2, <1>3, <1>4, <1>5, <1>8, AskerIs, OneAskerMoves
  <2>. QED
    BY <1>2, <1>3, <1>6, <2>1, NothingPromised DEF LimiterIInv
<1>. QED
  BY <1>7, <1>8

LEMMA LimiterWeighs ==
  ASSUME LimiterIInv, NEW a \in Askers, CheckTokens(a)
  PROVE  LimiterIInv'
<1> DEFINE ok == Tokens(tokenUsage') + asker[a].estimate <= MaxTpm
           new == [asker[a] EXCEPT !.at = IF ok /\ asker[a].rpmOk THEN "reserve" ELSE "plan",
                                   !.tpmOk = ok]
<1>1. asker[a] \in AskerSet /\ AskerOK(asker[a]) /\ asker[a].at = "tokens"
  BY AskerIs DEF CheckTokens, At
<1>2. tokenUsage' \in Seq(Entry) /\ UNCHANGED requestTimes
  BY <1>1, AskerIs, PrunedIsWindow, LimiterAssumption, LagsAre DEF CheckTokens, AskerSet
<1>3. asker' = [asker EXCEPT ![a] = new]
  BY DEF CheckTokens, Set
<1>4. AskerOK(new) /\ (Promises(new) => Promises(asker[a]))
  <2>1. ok \in BOOLEAN
    OBVIOUS
  <2> HIDE DEF ok
  <2>2. new \in AskerSet /\ new.at \in {"reserve", "plan"} /\ (new.at = "reserve" => asker[a].rpmOk)
    BY <1>1, <2>1 DEF AskerSet
  <2>3. new.waited = asker[a].waited /\ new.lag = asker[a].lag
    BY <1>1 DEF AskerSet
  <2> HIDE DEF new
  <2>. QED
    BY <1>1, <2>2, <2>3 DEF AskerOK, Running, Promises
<1>5. Promises(asker[a]) <=> a \in Promised
  BY DEF Promises, Promised, At
<1>6. LimiterTypeOK' /\ WaitsInTime' /\ Promised' \subseteq Promised
  <2> HIDE DEF new
  <2>. QED
    BY <1>2, <1>3, <1>4, <1>5, AskerIs, OneAskerMoves
<1>. QED
  BY <1>2, <1>6, AskerIs, NothingPromised DEF LimiterIInv

(* The slot a caller counted on is the one it takes.                       *)
LEMMA LimiterReserves ==
  ASSUME LimiterIInv, NEW a \in Askers, Reserve(a)
  PROVE  LimiterIInv'
<1> DEFINE entry == [age |-> asker[a].lag, tokens |-> 0]
           new == [Resting EXCEPT !.at = "calling"]
<1>1. entry \in Entry
  BY AskerIs, LimiterAssumption, LagsAre DEF AskerSet, Entry
<1>2. requestTimes' = Append(requestTimes, entry) /\ UNCHANGED tokenUsage
  BY DEF Reserve
<1>3. requestTimes' \in Seq(Entry) /\ Len(requestTimes') = Len(requestTimes) + 1
  <2> HIDE DEF entry
  <2>. QED
    BY <1>1, <1>2, AskerIs
<1>4. asker' = [asker EXCEPT ![a] = new]
  BY DEF Reserve, Set
<1>5. AskerOK(new) /\ ~Promises(new)
  BY LimiterAssumption, LagsAre DEF AskerOK, AskerSet, Running, Promises, Resting
<1>6. a \in Promised
  BY DEF Promised, Reserve, At
<1>7. LimiterTypeOK' /\ WaitsInTime' /\ Promised' = Promised \ {a}
  <2> HIDE DEF new
  <2>. QED
    BY <1>2, <1>3, <1>4, <1>5, AskerIs, OneAskerMoves
<1>8. Cardinality(Promised') = Cardinality(Promised) - 1
  BY <1>6, <1>7, PromisedAreCounted, FS_RemoveElement
<1>. QED
  BY <1>3, <1>7, <1>8, AskerIs, PromisedAreCounted, LimiterAssumption, LagsAre
  DEF OvershootIsBounded, LimiterIInv

LEMMA LimiterRecords ==
  ASSUME LimiterIInv, NEW a \in Askers, NEW tokens \in Usages, RecordUsage(a, tokens)
  PROVE  LimiterIInv'
<1> DEFINE entry == [age |-> 0, tokens |-> tokens]
<1>1. entry \in Entry
  BY LimiterAssumption, LagsAre DEF Entry
<1>2. tokenUsage' = Append(tokenUsage, entry) /\ UNCHANGED requestTimes
  BY DEF RecordUsage
<1>3. tokenUsage' \in Seq(Entry)
  <2> HIDE DEF entry
  <2>. QED
    BY <1>1, <1>2, AskerIs
<1>4. ASSUME NEW b \in Askers
      PROVE  /\ AskerOK(IF b = a THEN Resting
                        ELSE IF At(b, "sleeping") THEN [asker[b] EXCEPT !.at = "top", !.sleep = 0]
                        ELSE asker[b])
             /\ Promises(asker'[b]) => Promises(asker[b])
  <2>1. asker[b] \in AskerSet /\ AskerOK(asker[b])
    BY AskerIs
  <2>2. AskerOK([asker[b] EXCEPT !.at = "top", !.sleep = 0])
        /\ ~Promises([asker[b] EXCEPT !.at = "top", !.sleep = 0])
    BY <2>1 DEF AskerOK, AskerSet, Running, Promises
  <2>3. asker'[b] = IF b = a THEN Resting
                    ELSE IF At(b, "sleeping") THEN [asker[b] EXCEPT !.at = "top", !.sleep = 0]
                    ELSE asker[b]
    BY DEF RecordUsage
  <2>. QED
    BY <2>1, <2>2, <2>3, RestingIsWell
<1>5. asker' \in [Askers -> AskerSet] /\ \A b \in Askers : AskerOK(asker'[b])
  BY <1>4 DEF RecordUsage, AskerOK
<1>6. Promised' \subseteq Promised
  BY <1>4 DEF Promised, Promises, At
<1>7. LimiterTypeOK' /\ WaitsInTime'
  BY <1>2, <1>3, <1>5, AskerIs, AskersAreWell
<1>. QED
  BY <1>2, <1>6, <1>7, AskerIs, NothingPromised DEF LimiterIInv

LEMMA LimiterAges ==
  ASSUME LimiterIInv, MinutePasses
  PROVE  LimiterIInv'
<1>1. /\ requestTimes' \in Seq(Entry) /\ tokenUsage' \in Seq(Entry)
      /\ Len(requestTimes') = Len(requestTimes)
  BY AgedIsWindow, AskerIs DEF MinutePasses
<1> DEFINE Next(a) ==
      [asker[a] EXCEPT !.lag = IF Clocked(a) THEN @ + 1 ELSE @,
                       !.waited = IF asker[a].at \in {"idle", "calling"} THEN @
                                  ELSE Least(@ + 1, MaxWait + MaxLag),
                       !.sleep = IF @ > 0 THEN @ - 1 ELSE @]
<1>2. asker' = [a \in Askers |-> Next(a)]
  BY DEF MinutePasses
<1>3. ASSUME NEW a \in Askers
      PROVE  Next(a) \in AskerSet /\ AskerOK(Next(a)) /\ (Promises(Next(a)) => Promises(asker[a]))
  <2>1. asker[a] \in AskerSet /\ AskerOK(asker[a])
    BY AskerIs
  <2>2. Clocked(a) => asker[a].lag < MaxLag
    BY DEF MinutePasses
  <2> DEFINE lag == IF Clocked(a) THEN asker[a].lag + 1 ELSE asker[a].lag
             waited == IF asker[a].at \in {"idle", "calling"} THEN asker[a].waited
                       ELSE Least(asker[a].waited + 1, MaxWait + MaxLag)
             sleep == IF asker[a].sleep > 0 THEN asker[a].sleep - 1 ELSE asker[a].sleep
  <2>3. lag \in Lags /\ waited \in Nat /\ sleep \in Nat
    BY <2>1, <2>2, LimiterAssumption, LagsAre DEF AskerSet, Least
  <2>4. Running(asker[a]) => waited - lag < MaxWait
    BY <2>1, LimiterAssumption, LagsAre DEF AskerOK, AskerSet, Running, Clocked, Least
  <2>5. Next(a) = [asker[a] EXCEPT !.lag = lag, !.waited = waited, !.sleep = sleep]
    OBVIOUS
  <2> HIDE DEF lag, waited, sleep, Next
  <2>6. /\ Next(a) \in AskerSet
        /\ Next(a).lag = lag /\ Next(a).waited = waited /\ Next(a).at = asker[a].at
        /\ Next(a).rpmOk = asker[a].rpmOk
    BY <2>1, <2>3, <2>5 DEF AskerSet
  <2>. QED
    BY <2>4, <2>6 DEF AskerOK, Running, Promises
<1> HIDE DEF Next
<1>4. asker' \in [Askers -> AskerSet] /\ \A a \in Askers : AskerOK(asker'[a])
  BY <1>2, <1>3
<1>5. Promised' \subseteq Promised
  BY <1>2, <1>3 DEF Promised, Promises, At
<1>6. LimiterTypeOK' /\ WaitsInTime'
  BY <1>1, <1>4, AskersAreWell
<1>. QED
  BY <1>1, <1>5, <1>6, AskerIs, NothingPromised DEF LimiterIInv

LEMMA LimiterKeeps == LimiterIInv /\ [LimiterNext]_limiterVars => LimiterIInv'
<1>1. LimiterIInv /\ UNCHANGED limiterVars => LimiterIInv'
  BY DEF LimiterIInv, LimiterTypeOK, WaitsInTime, OvershootIsBounded, Promised, At, Clocked,
         limiterVars
<1>. QED
  BY <1>1, LimiterActs, LimiterLooks, LimiterWeighs, LimiterReserves, LimiterRecords, LimiterAges
  DEF LimiterNext, Turn

(* Checking and reserving under separate locks lets the window of requests *)
(* overflow by no more than the number of callers that may look at once    *)
(* less one, for any number of callers, limit, window and estimates.       *)
THEOREM LimiterOvershootsLittle == LimiterSpec => []LimiterInv
<1>1. LimiterIInv => LimiterInv
  BY DEF LimiterIInv, LimiterInv
<1>. QED
  BY <1>1, LimiterStarts, LimiterKeeps, PTL DEF LimiterSpec

-----------------------------------------------------------------------------
(* The request on the wire. *)

(* What the selection authorizes is what the client's choice will come to. *)
SelectionOK ==
  /\ exchange \in {"routing", "selected"} => body = Unsent
  /\ exchange = "selected" => chosen.id = ModelForStream

LEMMA WireStarts == WireInit => SelectionOK /\ PricedModelIsSent
BY DEF WireInit, SelectionOK, PricedModelIsSent, Unsent, Nobody

LEMMA WireKeeps ==
  SelectionOK /\ PricedModelIsSent /\ [WireNext]_wireVars => (SelectionOK /\ PricedModelIsSent)'
<1> SUFFICES ASSUME SelectionOK, PricedModelIsSent, [WireNext]_wireVars
             PROVE  (SelectionOK /\ PricedModelIsSent)'
  OBVIOUS
<1>1. CASE GetProvider
  <2>1. exchange = "routing" /\ UNCHANGED <<body, wanted>>
    BY <1>1 DEF GetProvider
  <2>2. body' = Unsent
    BY <2>1 DEF SelectionOK
  <2>3. exchange' = "selected" => chosen'.id = ModelForStream'
    <3>1. ASSUME NEW p, NEW override, Choose(p, override) PROVE chosen'.id = ModelForStream'
      BY <2>1, <3>1 DEF Choose, ModelForStream
    <3>2. \/ \E p, override : Choose(p, override)
          \/ exchange' \in {"not_configured", "throttled"}
      BY <1>1 DEF GetProvider, Refuse
    <3>. QED
      BY <3>1, <3>2
  <2>. QED
    BY <2>2, <2>3 DEF SelectionOK, PricedModelIsSent, Unsent, Nobody
<1>2. CASE StreamChat
  BY <1>2 DEF StreamChat, SelectionOK, PricedModelIsSent, Measured
<1>3. CASE BreakerTurns
  BY <1>3 DEF BreakerTurns, SelectionOK, PricedModelIsSent, ModelForStream
<1>4. CASE DropUnmeasured \/ AnswerRefused
  BY <1>4 DEF DropUnmeasured, AnswerRefused, Refuse, SelectionOK, PricedModelIsSent
<1>5. CASE HeadersArrive \/ ProcessChunk
  BY <1>5 DEF HeadersArrive, ProcessChunk, SelectionOK, PricedModelIsSent
<1>6. CASE AnswerDone \/ AnswerTruncated \/ AnswerBreaks \/ ConnectionCloses
  BY <1>6 DEF AnswerDone, AnswerTruncated, AnswerBreaks, ConnectionCloses, Ended, SelectionOK,
              PricedModelIsSent
<1>7. CASE UNCHANGED wireVars
  BY <1>7 DEF wireVars, SelectionOK, PricedModelIsSent, ModelForStream
<1>. QED
  BY <1>1, <1>2, <1>3, <1>4, <1>5, <1>6, <1>7 DEF WireNext

(* The provider that was authorized and priced is the one a request goes to, *)
(* with the model that was, and that model is one of the provider's, also    *)
(* when it stands in for another: for any providers, catalogue and fallbacks. *)
THEOREM RequestsNameTheirModel == WireSpec => []PricedModelIsSent
BY WireStarts, WireKeeps, PTL DEF WireSpec

-----------------------------------------------------------------------------
(* The lines of a stream. *)

(* A line starts at the beginning or after an end, and has no end in it.   *)
IsOpening(bytes, i, k) ==
  /\ k \in 1 .. i /\ (k = 1 \/ bytes[k - 1] = "nl")
  /\ \A j \in k .. i - 1 : bytes[j] # "nl"

LEMMA OpensIs ==
  ASSUME NEW bytes, NEW i \in Nat, NEW k, IsOpening(bytes, i, k)
  PROVE  Opens(bytes, i) = k
<1>1. k \in 1 .. i
  BY DEF IsOpening
<1>2. ASSUME NEW l \in 1 .. i, IsOpening(bytes, i, l)
      PROVE  l = k
  <2>1. ~(l < k)
    <3> SUFFICES ASSUME l < k PROVE FALSE
      OBVIOUS
    <3>1. k - 1 \in l .. i - 1 /\ k # 1
      BY <1>1
    <3>2. bytes[k - 1] = "nl"
      BY <3>1 DEF IsOpening
    <3> QED BY <1>2, <3>1, <3>2 DEF IsOpening
  <2>2. ~(k < l)
    <3> SUFFICES ASSUME k < l PROVE FALSE
      OBVIOUS
    <3>1. l - 1 \in k .. i - 1 /\ l # 1
      BY <1>1
    <3>2. bytes[l - 1] = "nl"
      BY <1>2, <3>1 DEF IsOpening
    <3> QED BY <3>1, <3>2 DEF IsOpening
  <2> QED BY <1>1, <2>1, <2>2
<1>3. Opens(bytes, i) = CHOOSE l \in 1 .. i : IsOpening(bytes, i, l)
  <2>1. \A l \in 1 .. i : IsOpening(bytes, i, l) <=>
          /\ l = 1 \/ bytes[l - 1] = "nl"
          /\ \A j \in l .. i - 1 : bytes[j] # "nl"
    BY DEF IsOpening
  <2> QED BY <2>1 DEF Opens
<1> QED BY <1>1, <1>2, <1>3

LEMMA OpensAt ==
  ASSUME NEW bytes, NEW i \in Nat \ {0}
  PROVE  IsOpening(bytes, i, Opens(bytes, i)) /\ Opens(bytes, i) \in 1 .. i
<1> DEFINE Dist == {d \in 0 .. i - 1 : i - d = 1 \/ bytes[(i - d) - 1] = "nl"}
<1>1. i - 1 \in Dist
  OBVIOUS
<1>2. PICK d \in Dist : \A e \in Dist : d <= e
  <2>1. Dist \subseteq Nat /\ Dist # {}
    BY <1>1
  <2> HIDE DEF Dist
  <2> QED BY <2>1, LeastOf
<1>3. IsOpening(bytes, i, i - d)
  <2>1. i - d \in 1 .. i /\ (i - d = 1 \/ bytes[(i - d) - 1] = "nl")
    OBVIOUS
  <2>2. ASSUME NEW j \in i - d .. i - 1 PROVE bytes[j] # "nl"
    <3> DEFINE e == i - (j + 1)
    <3>1. e \in 0 .. i - 1 /\ e < d /\ (i - e) - 1 = j
      BY <2>1
    <3>2. e \notin Dist
      BY <1>2, <3>1
    <3> QED BY <3>1, <3>2
  <2> QED BY <2>1, <2>2 DEF IsOpening
<1>4. Opens(bytes, i) = i - d
  BY <1>3, OpensIs
<1> QED BY <1>3, <1>4 DEF IsOpening

(* Cut after the end of a line, a stream is two streams.                   *)
LEMMA OpensSplit ==
  ASSUME NEW T, NEW s \in Seq(T), NEW off \in 0 .. Len(s), off = 0 \/ s[off] = "nl"
  PROVE  /\ \A i \in 1 .. off : Opens(s, i) = Opens(SubSeq(s, 1, off), i)
         /\ \A j \in 1 .. Len(s) - off + 1 :
              Opens(s, off + j) = off + Opens(SubSeq(s, off + 1, Len(s)), j)
<1> DEFINE a == SubSeq(s, 1, off)
           b == SubSeq(s, off + 1, Len(s))
<1>1. Len(s) \in Nat /\ off \in Nat
  OBVIOUS
<1>2. Len(a) = off /\ \A i \in 1 .. off : a[i] = s[i]
  OBVIOUS
<1>3. Len(b) = Len(s) - off /\ \A j \in 1 .. Len(s) - off : b[j] = s[off + j]
  OBVIOUS
<1> HIDE DEF a, b
<1>4. ASSUME NEW i \in 1 .. off PROVE Opens(s, i) = Opens(a, i)
  <2> DEFINE k == Opens(a, i)
  <2>1. IsOpening(a, i, k) /\ k \in 1 .. i
    BY <1>1, OpensAt
  <2> HIDE DEF k
  <2>2. IsOpening(s, i, k)
    <3>1. k # 1 => s[k - 1] = a[k - 1]
      BY <1>1, <1>2, <2>1
    <3>2. \A j \in k .. i - 1 : s[j] = a[j]
      BY <1>1, <1>2, <2>1
    <3> QED BY <2>1, <3>1, <3>2 DEF IsOpening
  <2> QED BY <1>1, <2>2, OpensIs DEF k
<1>5. ASSUME NEW j \in 1 .. Len(s) - off + 1 PROVE Opens(s, off + j) = off + Opens(b, j)
  <2> DEFINE k == Opens(b, j)
  <2>1. IsOpening(b, j, k) /\ k \in 1 .. j
    BY <1>1, OpensAt
  <2> HIDE DEF k
  <2>2. IsOpening(s, off + j, off + k)
    <3>1. off + k \in 1 .. off + j
      BY <1>1, <2>1
    <3>2. off + k = 1 \/ s[(off + k) - 1] = "nl"
      <4>1. CASE k = 1
        <5>1. (off + k) - 1 = off
          BY <1>1, <4>1
        <5> QED BY <1>1, <4>1, <5>1
      <4>2. CASE k # 1
        <5>1. b[k - 1] = "nl" /\ k - 1 \in 1 .. Len(s) - off /\ off + (k - 1) = (off + k) - 1
          BY <1>1, <2>1, <4>2 DEF IsOpening
        <5> QED BY <1>3, <5>1
      <4> QED BY <4>1, <4>2
    <3>3. ASSUME NEW m \in off + k .. (off + j) - 1 PROVE s[m] # "nl"
      <4>1. m - off \in k .. j - 1 /\ m - off \in 1 .. Len(s) - off /\ off + (m - off) = m
        BY <1>1, <2>1
      <4>2. b[m - off] # "nl"
        BY <2>1, <4>1 DEF IsOpening
      <4> QED BY <1>3, <4>1, <4>2
    <3> QED BY <3>1, <3>2, <3>3 DEF IsOpening
  <2> QED BY <1>1, <2>2, OpensIs DEF k
<1> QED BY <1>4, <1>5 DEF a, b

(* A line is made of what stands between its opening and its end.          *)
Between(bytes, i) == SubSeq(bytes, Opens(bytes, i), i - 1)

LEMMA SliceIs ==
  ASSUME NEW T, NEW s \in Seq(T), NEW k \in Nat, NEW i \in Nat, k >= 1, k <= i, i <= Len(s)
  PROVE  SubSeq(s, k, i) = [n \in 1 .. i - k + 1 |-> s[k + n - 1]]
OBVIOUS

LEMMA SameSlice ==
  ASSUME NEW T, NEW s \in Seq(T), NEW t \in Seq(T), NEW k \in Nat, NEW i \in Nat,
         NEW d \in Nat, k >= 1, i <= Len(t), k + d >= 1, i + d <= Len(s),
         \A j \in k .. i : t[j] = s[j + d]
  PROVE  SubSeq(s, k + d, i + d) = SubSeq(t, k, i)
<1>1. CASE i < k
  BY <1>1
<1>2. CASE k <= i
  <2>1. SubSeq(s, k + d, i + d) = [n \in 1 .. (i + d) - (k + d) + 1 |-> s[(k + d) + n - 1]]
    <3>1. k + d \in Nat /\ i + d \in Nat /\ k + d <= i + d
      BY <1>2
    <3> QED BY <3>1, SliceIs
  <2>2. SubSeq(t, k, i) = [n \in 1 .. i - k + 1 |-> t[k + n - 1]]
    BY <1>2, SliceIs, Zenon
  <2>3. (i + d) - (k + d) + 1 = i - k + 1
    OBVIOUS
  <2>4. ASSUME NEW n \in 1 .. i - k + 1 PROVE s[(k + d) + n - 1] = t[k + n - 1]
    <3>1. k + n - 1 \in k .. i /\ (k + n - 1) + d = (k + d) + n - 1
      BY <1>2
    <3> QED BY <3>1
  <2> QED BY <2>1, <2>2, <2>3, <2>4
<1> QED BY <1>1, <1>2

LEMMA LineSplit ==
  ASSUME NEW T, NEW s \in Seq(T), NEW off \in 0 .. Len(s), off = 0 \/ s[off] = "nl"
  PROVE  /\ \A i \in 1 .. off : Line(s, i) = Line(SubSeq(s, 1, off), i)
         /\ \A j \in 1 .. Len(s) - off :
              Line(s, off + j) = Line(SubSeq(s, off + 1, Len(s)), j)
<1> DEFINE a == SubSeq(s, 1, off)
           b == SubSeq(s, off + 1, Len(s))
<1>1. Len(s) \in Nat /\ off \in Nat /\ off <= Len(s)
  OBVIOUS
<1>2. a \in Seq(T) /\ Len(a) = off /\ \A i \in 1 .. off : a[i] = s[i]
  OBVIOUS
<1>3. b \in Seq(T) /\ Len(b) = Len(s) - off /\ \A j \in 1 .. Len(s) - off : b[j] = s[off + j]
  OBVIOUS
<1>4. /\ \A i \in 1 .. off : Opens(s, i) = Opens(a, i)
      /\ \A j \in 1 .. Len(s) - off + 1 : Opens(s, off + j) = off + Opens(b, j)
  BY OpensSplit
<1> HIDE DEF a, b
<1>5. ASSUME NEW i \in 1 .. off PROVE Line(s, i) = Line(a, i)
  <2>1. Opens(a, i) \in 1 .. i
    BY <1>1, OpensAt
  <2> DEFINE k == Opens(a, i)
  <2> HIDE DEF k
  <2>2. SubSeq(s, k + 0, (i - 1) + 0) = SubSeq(a, k, i - 1)
    <3>1. k \in Nat /\ k >= 1 /\ i - 1 \in Nat /\ i - 1 <= Len(a) /\ (i - 1) + 0 <= Len(s)
      BY <1>1, <1>2, <2>1 DEF k
    <3>2. \A j \in k .. i - 1 : a[j] = s[j + 0]
      BY <1>1, <1>2, <3>1
    <3> QED BY <1>2, <3>1, <3>2, SameSlice
  <2>3. k + 0 = k /\ (i - 1) + 0 = i - 1
    BY <1>1, <2>1 DEF k
  <2>4. Between(s, i) = Between(a, i)
    BY <1>4, <2>2, <2>3 DEF k, Between
  <2> QED BY <2>4 DEF Line, Between
<1>6. ASSUME NEW j \in 1 .. Len(s) - off PROVE Line(s, off + j) = Line(b, j)
  <2>1. Opens(b, j) \in 1 .. j
    BY <1>1, OpensAt
  <2> DEFINE k == Opens(b, j)
  <2> HIDE DEF k
  <2>2. SubSeq(s, k + off, (j - 1) + off) = SubSeq(b, k, j - 1)
    <3>1. k \in Nat /\ k >= 1 /\ j - 1 \in Nat /\ j - 1 <= Len(b) /\ (j - 1) + off <= Len(s)
          /\ k + off >= 1
      BY <1>1, <1>3, <2>1 DEF k
    <3>2. \A m \in k .. j - 1 : b[m] = s[m + off]
      <4> SUFFICES ASSUME NEW m \in k .. j - 1 PROVE b[m] = s[m + off]
        OBVIOUS
      <4>1. m \in 1 .. Len(s) - off /\ off + m = m + off
        BY <1>1, <3>1
      <4> QED BY <1>3, <4>1
    <3> QED BY <1>1, <1>3, <3>1, <3>2, SameSlice
  <2>3. k + off = off + k /\ (j - 1) + off = (off + j) - 1
    BY <1>1, <2>1 DEF k
  <2>4. Opens(s, off + j) = off + k
    BY <1>1, <1>4 DEF k
  <2>5. Between(s, off + j) = Between(b, j)
    BY <2>2, <2>3, <2>4 DEF k, Between
  <2> QED BY <2>5 DEF Line, Between
<1> QED BY <1>5, <1>6 DEF a, b

LEMMA DataLinesAre ==
  ASSUME NEW T, NEW s \in Seq(T)
  PROVE  DataLines(s) \subseteq 1 .. Len(s) /\ IsFiniteSet(DataLines(s))
<1>1. DataLines(s) \in SUBSET (1 .. Len(s))
  BY DEF DataLines, Ends
<1>2. IsFiniteSet(1 .. Len(s))
  BY FS_Interval
<1> QED BY <1>1, <1>2, FS_Subset

LEMMA DataLinesSplit ==
  ASSUME NEW T, NEW s \in Seq(T), NEW off \in 0 .. Len(s), off = 0 \/ s[off] = "nl"
  PROVE  \A i \in 1 .. Len(s) :
           i \in DataLines(s) <=>
             \/ i <= off /\ i \in DataLines(SubSeq(s, 1, off))
             \/ i > off /\ i - off \in DataLines(SubSeq(s, off + 1, Len(s)))
<1> DEFINE a == SubSeq(s, 1, off)
           b == SubSeq(s, off + 1, Len(s))
<1>1. Len(s) \in Nat /\ off \in Nat /\ off <= Len(s)
  OBVIOUS
<1>2. DOMAIN a = 1 .. off /\ \A i \in 1 .. off : a[i] = s[i]
  OBVIOUS
<1>3. DOMAIN b = 1 .. Len(s) - off /\ \A j \in 1 .. Len(s) - off : b[j] = s[off + j]
  OBVIOUS
<1>4. DOMAIN s = 1 .. Len(s)
  OBVIOUS
<1>5. /\ \A i \in 1 .. off : Line(s, i) = Line(a, i)
      /\ \A j \in 1 .. Len(s) - off : Line(s, off + j) = Line(b, j)
  BY LineSplit
<1> HIDE DEF a, b
<1> SUFFICES ASSUME NEW i \in 1 .. Len(s)
             PROVE  i \in DataLines(s) <=> \/ i <= off /\ i \in DataLines(a)
                                           \/ i > off /\ i - off \in DataLines(b)
  BY DEF a, b
<1>6. CASE i <= off
  <2>1. i \in 1 .. off /\ ~(i > off)
    BY <1>1, <1>6
  <2>2. Line(s, i) = Line(a, i) /\ a[i] = s[i]
    BY <1>2, <1>5, <2>1
  <2> QED BY <1>2, <1>4, <2>1, <2>2 DEF DataLines, Ends
<1>7. CASE i > off
  <2> DEFINE j == i - off
  <2>1. j \in 1 .. Len(s) - off /\ off + j = i /\ ~(i <= off)
    BY <1>1, <1>7
  <2> HIDE DEF j
  <2>2. Line(s, i) = Line(b, j) /\ b[j] = s[i]
    BY <1>3, <1>5, <2>1
  <2>3. i \in DataLines(s) <=> j \in DataLines(b)
    BY <1>3, <1>4, <2>1, <2>2 DEF DataLines, Ends
  <2> QED BY <1>7, <2>1, <2>3 DEF j
<1> QED BY <1>1, <1>6, <1>7

(* Two lists of numbers, the second shifted behind the first.              *)
Behind(q, r, off) ==
  [k \in 1 .. Len(q) + Len(r) |-> IF k <= Len(q) THEN q[k] ELSE off + r[k - Len(q)]]

LEMMA AscendingSplit ==
  ASSUME NEW off \in Nat, NEW A \in SUBSET (1 .. off), NEW B \in SUBSET Nat, IsFiniteSet(B),
         \A j \in B : j > 0,
         NEW S \in SUBSET Nat, A \subseteq S, \A j \in B : off + j \in S,
         \A i \in S : i \in A \/ \E j \in B : i = off + j
  PROVE  /\ Cardinality(S) = Cardinality(A) + Cardinality(B)
         /\ Ascending(S) = Behind(Ascending(A), Ascending(B), off)
<1> DEFINE f == Ascending(A)
           g == Ascending(B)
           m == Cardinality(A)
           n == Cardinality(B)
           q == [k \in 1 .. m + n |-> IF k <= m THEN f[k] ELSE off + g[k - m]]
<1>1. IsFiniteSet(A)
  <2>1. IsFiniteSet(1 .. off)
    BY FS_Interval
  <2> QED BY <2>1, FS_Subset
<1>2. /\ m \in Nat /\ f \in [1 .. m -> A] /\ Len(f) = m
      /\ \A k, l \in 1 .. m : k < l => f[k] < f[l]
      /\ \A i \in A : \E k \in 1 .. m : f[k] = i
  <2>1. A \in SUBSET Int
    OBVIOUS
  <2>2. \A i \in A : Rank(A, i) + 1 \in 1 .. m /\ f[Rank(A, i) + 1] = i
    BY <1>1, <2>1, AscendingIsInOrder
  <2> QED BY <1>1, <2>1, <2>2, AscendingIsInOrder
<1>3. /\ n \in Nat /\ g \in [1 .. n -> B] /\ Len(g) = n
      /\ \A k, l \in 1 .. n : k < l => g[k] < g[l]
      /\ \A i \in B : \E k \in 1 .. n : g[k] = i
  <2>1. B \in SUBSET Int
    OBVIOUS
  <2>2. \A i \in B : Rank(B, i) + 1 \in 1 .. n /\ g[Rank(B, i) + 1] = i
    BY <2>1, AscendingIsInOrder
  <2> QED BY <2>1, <2>2, AscendingIsInOrder
<1> HIDE DEF f, g, m, n
<1>4. ASSUME NEW k \in 1 .. m
      PROVE  k \in 1 .. m + n /\ q[k] = f[k] /\ f[k] \in A /\ f[k] <= off
  <2>1. k \in 1 .. m + n /\ k <= m
    BY <1>2, <1>3
  <2>2. f[k] \in A
    BY <1>2
  <2>3. q[k] = f[k]
    BY <2>1
  <2>4. f[k] <= off
    <3> DEFINE x == f[k]
    <3>1. x \in 1 .. off
      BY <2>2
    <3> HIDE DEF x
    <3>2. x <= off
      BY <3>1
    <3> QED BY <3>2 DEF x
  <2> HIDE DEF q
  <2> QED BY <2>1, <2>2, <2>3, <2>4
<1>5. ASSUME NEW k \in 1 .. m + n, k > m
      PROVE  k - m \in 1 .. n /\ q[k] = off + g[k - m] /\ g[k - m] \in B
  <2>1. k - m \in 1 .. n /\ ~(k <= m)
    BY <1>2, <1>3, <1>5
  <2> QED BY <1>3, <2>1
<1>6. q \in [1 .. m + n -> S]
  <2>1. \A k \in 1 .. m + n : q[k] \in S
    <3> SUFFICES ASSUME NEW k \in 1 .. m + n PROVE q[k] \in S
      OBVIOUS
    <3>1. CASE k <= m
      <4>1. k \in 1 .. m
        BY <1>2, <1>3, <3>1
      <4> QED BY <1>4, <4>1
    <3>2. CASE k > m
      <4>1. q[k] = off + g[k - m] /\ g[k - m] \in B
        BY <1>5, <3>2
      <4> QED BY <4>1
    <3> QED BY <1>2, <1>3, <3>1, <3>2
  <2> QED BY <2>1
<1>7. ASSUME NEW k \in 1 .. m + n, NEW l \in 1 .. m + n, k < l
      PROVE  q[k] < q[l]
  <2>1. CASE l <= m
    <3>1. k \in 1 .. m /\ l \in 1 .. m
      BY <1>2, <1>3, <1>7, <2>1
    <3>2. f[k] < f[l]
      BY <1>2, <1>7, <3>1
    <3> QED BY <1>4, <3>1, <3>2
  <2>2. CASE k <= m /\ l > m
    <3>1. k \in 1 .. m
      BY <1>2, <1>3, <2>2
    <3>2. q[k] = f[k] /\ f[k] \in Nat /\ f[k] <= off
      BY <1>4, <3>1
    <3>3. q[l] = off + g[l - m] /\ g[l - m] \in Nat /\ g[l - m] > 0
      BY <1>5, <2>2
    <3> HIDE DEF q
    <3> QED BY <3>2, <3>3
  <2>3. CASE k > m
    <3>1. l > m
      BY <1>2, <1>3, <1>7, <2>3
    <3>2. q[k] = off + g[k - m] /\ g[k - m] \in Nat /\ k - m \in 1 .. n
      BY <1>5, <2>3
    <3>3. q[l] = off + g[l - m] /\ g[l - m] \in Nat /\ l - m \in 1 .. n
      BY <1>5, <3>1
    <3>4. k - m < l - m
      BY <1>2, <1>3, <1>7
    <3>5. g[k - m] < g[l - m]
      BY <1>3, <3>2, <3>3, <3>4
    <3> HIDE DEF q
    <3> QED BY <3>2, <3>3, <3>5
  <2> QED BY <1>2, <1>3, <2>1, <2>2, <2>3
<1>8. ASSUME NEW i \in S PROVE \E k \in 1 .. m + n : q[k] = i
  <2>1. CASE i \in A
    BY <1>2, <1>4, <2>1
  <2>2. CASE i \notin A
    <3>1. PICK j \in B : i = off + j
      BY <2>2
    <3>2. PICK l \in 1 .. n : g[l] = j
      BY <1>3
    <3> DEFINE k == m + l
    <3>3. k \in 1 .. m + n /\ k > m /\ k - m = l
      BY <1>2, <1>3
    <3> HIDE DEF k
    <3>4. q[k] = off + g[l]
      BY <1>5, <3>3
    <3> QED BY <3>1, <3>2, <3>3, <3>4
  <2> QED BY <2>1, <2>2
<1>9. m + n \in Nat /\ S \in SUBSET Int
  BY <1>2, <1>3
<1>10. q = Behind(f, g, off)
  BY <1>2, <1>3 DEF Behind
<1> HIDE DEF q
<1>11. Cardinality(S) = m + n /\ Ascending(S) = q
  BY <1>6, <1>7, <1>8, <1>9, AscendingIs
<1> QED BY <1>10, <1>11 DEF f, g, m, n

LEMMA LineIs ==
  ASSUME NEW T, NEW s \in Seq(T), NEW i \in 1 .. Len(s) + 1
  PROVE  Line(s, i) \in Seq(T)
<1> DEFINE line == SubSeq(s, Opens(s, i), i - 1)
<1>1. line \in Seq(T)
  <2>1. Len(s) \in Nat /\ i \in Nat \ {0} /\ i - 1 <= Len(s)
    OBVIOUS
  <2>2. Opens(s, i) \in 1 .. i
    BY <2>1, OpensAt
  <2> DEFINE k == Opens(s, i)
  <2> HIDE DEF k
  <2>3. \A j \in k .. i - 1 : j \in 1 .. Len(s)
    BY <2>1, <2>2 DEF k
  <2>4. \A j \in k .. i - 1 : s[j] \in T
    BY <2>3
  <2>5. SubSeq(s, k, i - 1) \in Seq(T)
    BY <2>1, <2>2, <2>4 DEF k
  <2> QED BY <2>5 DEF k
<1> HIDE DEF line
<1>2. SubSeq(line, 1, Len(line) - 1) \in Seq(T)
  <2>1. CASE line = <<>>
    BY <2>1
  <2>2. CASE line # <<>>
    <3>1. Len(line) \in Nat \ {0}
      BY <1>1, <2>2
    <3> QED BY <1>1, <3>1
  <2> QED BY <2>1, <2>2
<1> QED BY <1>1, <1>2 DEF Line, line

LEMMA DataIs ==
  ASSUME NEW T, NEW s \in Seq(T)
  PROVE  /\ Data(s) \in Seq(T \cup {"noise"}) /\ Len(Data(s)) = Cardinality(DataLines(s))
         /\ \A n \in 1 .. Len(Data(s)) : Data(s)[n] = Payload(Line(s, Ascending(DataLines(s))[n]))
<1> DEFINE D == DataLines(s)
           m == Cardinality(D)
           f == Ascending(D)
           d == Data(s)
<1>1. D \subseteq 1 .. Len(s) /\ IsFiniteSet(D) /\ Len(s) \in Nat
  BY DataLinesAre
<1>2. D \in SUBSET Int
  BY <1>1
<1>3. m \in Nat /\ f \in [1 .. m -> D]
  <2> HIDE DEF D
  <2> QED BY <1>1, <1>2, AscendingIsInOrder
<1>4. d = [n \in 1 .. m |-> Payload(Line(s, f[n]))]
  BY DEF Data
<1>5. ASSUME NEW i \in D PROVE Payload(Line(s, i)) \in T \cup {"noise"}
  <2>1. i \in 1 .. Len(s) + 1
    BY <1>1
  <2>2. Line(s, i) \in Seq(T)
    BY <2>1, LineIs
  <2> QED BY <2>2 DEF Payload
<1> HIDE DEF D, m, f, d
<1>6. \A n \in 1 .. m : Payload(Line(s, f[n])) \in T \cup {"noise"}
  BY <1>3, <1>5
<1>7. d \in Seq(T \cup {"noise"}) /\ Len(d) = m
  BY <1>3, <1>4, <1>6
<1>8. \A n \in 1 .. m : d[n] = Payload(Line(s, f[n]))
  BY <1>4
<1> QED BY <1>7, <1>8 DEF D, m, f, d

LEMMA DataSplit ==
  ASSUME NEW T, NEW s \in Seq(T), NEW off \in 0 .. Len(s), off = 0 \/ s[off] = "nl"
  PROVE  Data(s) = Data(SubSeq(s, 1, off)) \o Data(SubSeq(s, off + 1, Len(s)))
<1> DEFINE a == SubSeq(s, 1, off)
           b == SubSeq(s, off + 1, Len(s))
           A == DataLines(a)
           B == DataLines(b)
           S == DataLines(s)
           f == Ascending(A)
           g == Ascending(B)
           h == Ascending(S)
           m == Cardinality(A)
           n == Cardinality(B)
           w == Data(a) \o Data(b)
<1>1. Len(s) \in Nat /\ off \in Nat /\ off <= Len(s)
  OBVIOUS
<1>2. a \in Seq(T) /\ Len(a) = off /\ b \in Seq(T) /\ Len(b) = Len(s) - off
  OBVIOUS
<1>3. /\ \A i \in 1 .. off : Line(s, i) = Line(a, i)
      /\ \A j \in 1 .. Len(s) - off : Line(s, off + j) = Line(b, j)
  BY LineSplit
<1>4. \A i \in 1 .. Len(s) : i \in S <=> \/ i <= off /\ i \in A
                                         \/ i > off /\ i - off \in B
  BY DataLinesSplit
<1>5. /\ Data(a) \in Seq(T \cup {"noise"}) /\ Len(Data(a)) = m
      /\ \A k \in 1 .. m : Data(a)[k] = Payload(Line(a, f[k]))
  <2> HIDE DEF a
  <2> QED BY <1>2, DataIs
<1>6. /\ Data(b) \in Seq(T \cup {"noise"}) /\ Len(Data(b)) = n
      /\ \A k \in 1 .. n : Data(b)[k] = Payload(Line(b, g[k]))
  <2> HIDE DEF b
  <2> QED BY <1>2, DataIs
<1>7. /\ Data(s) \in Seq(T \cup {"noise"}) /\ Len(Data(s)) = Cardinality(S)
      /\ \A k \in 1 .. Cardinality(S) : Data(s)[k] = Payload(Line(s, h[k]))
  BY DataIs
<1>8. A \subseteq 1 .. off /\ IsFiniteSet(A) /\ B \subseteq 1 .. Len(s) - off /\ IsFiniteSet(B)
      /\ S \subseteq 1 .. Len(s)
  <2> HIDE DEF a, b
  <2> QED BY <1>2, DataLinesAre
<1> HIDE DEF a, b, A, B, S
<1>9. Cardinality(S) = m + n /\ h = Behind(f, g, off)
  <2>1. A \in SUBSET (1 .. off) /\ B \in SUBSET Nat /\ S \in SUBSET Nat /\ \A j \in B : j > 0
    BY <1>1, <1>8
  <2>2. A \subseteq S
    BY <1>1, <1>4, <1>8
  <2>3. \A j \in B : off + j \in S
    <3> SUFFICES ASSUME NEW j \in B PROVE off + j \in S
      OBVIOUS
    <3>1. off + j \in 1 .. Len(s) /\ off + j > off /\ (off + j) - off = j
      BY <1>1, <1>8
    <3> QED BY <1>4, <3>1
  <2>4. \A i \in S : i \in A \/ \E j \in B : i = off + j
    <3> SUFFICES ASSUME NEW i \in S, i \notin A PROVE \E j \in B : i = off + j
      OBVIOUS
    <3>1. i \in 1 .. Len(s) /\ off + (i - off) = i
      BY <1>1, <1>8
    <3> QED BY <1>4, <3>1
  <2> QED BY <1>1, <1>8, <2>1, <2>2, <2>3, <2>4, AscendingSplit
<1>10. /\ m \in Nat /\ f \in [1 .. m -> A] /\ Len(f) = m
       /\ n \in Nat /\ g \in [1 .. n -> B] /\ Len(g) = n
  <2>1. A \in SUBSET Int /\ B \in SUBSET Int
    BY <1>1, <1>8
  <2> QED BY <1>8, <2>1, AscendingIsInOrder
<1> HIDE DEF f, g, h, m, n
<1>11. ASSUME NEW k \in 1 .. m + n PROVE Data(s)[k] = w[k]
  <2>1. h[k] = IF k <= m THEN f[k] ELSE off + g[k - m]
    BY <1>9, <1>10 DEF Behind
  <2>2. Data(s)[k] = Payload(Line(s, h[k]))
    BY <1>7, <1>9
  <2>3. CASE k <= m
    <3>1. k \in 1 .. m
      BY <1>10, <2>3
    <3>2. f[k] \in 1 .. off
      BY <1>8, <1>10, <3>1
    <3>3. w[k] = Data(a)[k]
      BY <1>5, <1>6, <3>1
    <3> QED BY <1>3, <1>5, <2>1, <2>2, <2>3, <3>1, <3>2, <3>3
  <2>4. CASE k > m
    <3>1. k - m \in 1 .. n /\ ~(k <= m)
      BY <1>10, <2>4
    <3>2. g[k - m] \in 1 .. Len(s) - off
      BY <1>8, <1>10, <3>1
    <3>3. w[k] = Data(b)[k - m]
      BY <1>5, <1>6, <1>10, <3>1
    <3>4. Data(b)[k - m] = Payload(Line(b, g[k - m]))
      BY <1>6, <3>1
    <3>5. h[k] = off + g[k - m]
      BY <2>1, <3>1
    <3>6. Line(s, off + g[k - m]) = Line(b, g[k - m])
      BY <1>3, <3>2
    <3> QED BY <2>2, <3>3, <3>4, <3>5, <3>6
  <2> HIDE DEF w
  <2>5. k <= m \/ k > m
    BY <1>10
  <2> QED BY <2>3, <2>4, <2>5
<1>12. w \in Seq(T \cup {"noise"}) /\ Len(w) = m + n
  <2>1. Data(a) \in Seq(T \cup {"noise"}) /\ Data(b) \in Seq(T \cup {"noise"})
    BY <1>5, <1>6
  <2>2. w \in Seq(T \cup {"noise"}) /\ Len(w) = Len(Data(a)) + Len(Data(b))
    BY <2>1
  <2> HIDE DEF w
  <2> QED BY <1>5, <1>6, <2>2
<1> HIDE DEF w
<1>13. Data(s) = w
  <2>1. Data(s) = [k \in 1 .. m + n |-> Data(s)[k]]
    BY <1>7, <1>9
  <2>2. w = [k \in 1 .. m + n |-> w[k]]
    BY <1>12
  <2> QED BY <1>11, <2>1, <2>2
<1> QED BY <1>13 DEF w, a, b

LEMMA RestSplit ==
  ASSUME NEW T, NEW s \in Seq(T), NEW off \in 0 .. Len(s), off = 0 \/ s[off] = "nl"
  PROVE  Rest(s) = Rest(SubSeq(s, off + 1, Len(s)))
<1> DEFINE b == SubSeq(s, off + 1, Len(s))
<1>1. Len(s) \in Nat /\ off \in Nat /\ off <= Len(s)
  OBVIOUS
<1>2. b \in Seq(T) /\ Len(b) = Len(s) - off /\ \A j \in 1 .. Len(s) - off : b[j] = s[off + j]
  OBVIOUS
<1>3. \A j \in 1 .. Len(s) - off + 1 : Opens(s, off + j) = off + Opens(b, j)
  BY OpensSplit
<1> HIDE DEF b
<1> DEFINE j == Len(b) + 1
           k == Opens(b, j)
<1>4. j \in 1 .. Len(s) - off + 1 /\ off + j = Len(s) + 1 /\ j - 1 = Len(b)
  BY <1>1, <1>2
<1>5. k \in 1 .. j
  <2>1. j \in Nat \ {0}
    BY <1>1, <1>4
  <2> QED BY <2>1, OpensAt
<1>6. Opens(s, Len(s) + 1) = off + k
  BY <1>3, <1>4
<1> HIDE DEF k
<1>7. SubSeq(s, k + off, Len(b) + off) = SubSeq(b, k, Len(b))
  <2>1. k \in Nat /\ k >= 1 /\ Len(b) \in Nat /\ Len(b) + off = Len(s) /\ k + off >= 1
    BY <1>1, <1>2, <1>5
  <2>2. \A i \in k .. Len(b) : b[i] = s[i + off]
    <3> SUFFICES ASSUME NEW i \in k .. Len(b) PROVE b[i] = s[i + off]
      OBVIOUS
    <3>1. i \in 1 .. Len(s) - off /\ off + i = i + off
      BY <1>1, <1>2, <2>1
    <3> QED BY <1>2, <3>1
  <2> QED BY <1>1, <1>2, <2>1, <2>2, SameSlice
<1>8. k + off = off + k /\ Len(b) + off = Len(s)
  BY <1>1, <1>2, <1>5
<1>9. Rest(s) = SubSeq(b, k, Len(b))
  BY <1>6, <1>7, <1>8 DEF Rest
<1> QED BY <1>9 DEF Rest, k, b

(* What has arrived is cut at its last end of line; no line of it lies     *)
(* behind that.                                                            *)
LEMMA RestIs ==
  ASSUME NEW T, NEW s \in Seq(T)
  PROVE  \E off \in 0 .. Len(s) :
           /\ off = 0 \/ s[off] = "nl"
           /\ Rest(s) = SubSeq(s, off + 1, Len(s))
           /\ Data(Rest(s)) = <<>>
           /\ Data(s) = Data(SubSeq(s, 1, off))
<1> DEFINE i == Len(s) + 1
           k == Opens(s, i)
           off == k - 1
           r == Rest(s)
<1>1. Len(s) \in Nat /\ i \in Nat \ {0}
  OBVIOUS
<1>2. IsOpening(s, i, k) /\ k \in 1 .. i
  BY <1>1, OpensAt
<1>3. r = SubSeq(s, k, Len(s))
  BY DEF Rest
<1> HIDE DEF k, r
<1>4. off \in 0 .. Len(s) /\ off + 1 = k /\ (off = 0 \/ s[off] = "nl")
  BY <1>1, <1>2 DEF IsOpening
<1>5. r \in Seq(T) /\ DOMAIN r = 1 .. Len(s) - off /\ \A j \in 1 .. Len(s) - off : r[j] = s[off + j]
  BY <1>1, <1>3, <1>4
<1>6. \A j \in DOMAIN r : r[j] # "nl"
  <2> SUFFICES ASSUME NEW j \in 1 .. Len(s) - off PROVE s[off + j] # "nl"
    BY <1>5
  <2>1. off + j \in k .. i - 1
    BY <1>1, <1>4
  <2> QED BY <1>2, <2>1 DEF IsOpening
<1>7. DataLines(r) = {}
  BY <1>6 DEF DataLines, Ends
<1>8. Data(r) = <<>>
  <2>1. Len(Data(r)) = 0 /\ Data(r) \in Seq(T \cup {"noise"})
    BY <1>5, <1>7, DataIs, FS_EmptySet
  <2> QED BY <2>1
<1> HIDE DEF off
<1>9. Data(s) = Data(SubSeq(s, 1, off))
  <2> DEFINE a == SubSeq(s, 1, off)
  <2>1. Data(s) = Data(a) \o Data(SubSeq(s, off + 1, Len(s)))
    BY <1>4, DataSplit
  <2>2. SubSeq(s, off + 1, Len(s)) = r
    BY <1>3, <1>4
  <2>3. a \in Seq(T)
    BY <1>1, <1>4
  <2>4. Data(a) \in Seq(T \cup {"noise"})
    <3> HIDE DEF a
    <3> QED BY <2>3, DataIs
  <2> HIDE DEF a
  <2>5. Data(a) \o <<>> = Data(a)
    BY <2>4
  <2>6. Data(s) = Data(a)
    BY <1>8, <2>1, <2>2, <2>5
  <2> QED BY <2>6 DEF a
<1>10. r = SubSeq(s, off + 1, Len(s))
  BY <1>3, <1>4
<1> QED BY <1>4, <1>8, <1>9, <1>10 DEF r

(* Where a stream is cut does not matter: its lines are those that came    *)
(* before, and those of what was left together with what comes.            *)
LEMMA ChunkContinues ==
  ASSUME NEW T, NEW p \in Seq(T), NEW c \in Seq(T)
  PROVE  /\ Data(p \o c) = Data(p) \o Data(Rest(p) \o c)
         /\ Rest(p \o c) = Rest(Rest(p) \o c)
<1> DEFINE s == p \o c
<1>1. s \in Seq(T) /\ Len(s) = Len(p) + Len(c) /\ Len(p) \in Nat /\ Len(c) \in Nat
      /\ (\A j \in 1 .. Len(p) : s[j] = p[j]) /\ (\A j \in 1 .. Len(c) : s[Len(p) + j] = c[j])
  OBVIOUS
<1>2. PICK off \in 0 .. Len(p) :
           /\ off = 0 \/ p[off] = "nl"
           /\ Rest(p) = SubSeq(p, off + 1, Len(p))
           /\ Data(p) = Data(SubSeq(p, 1, off))
  BY RestIs
<1>3. SubSeq(s, off + 1, Len(s)) = Rest(p) \o c
  <2> DEFINE r == SubSeq(p, off + 1, Len(p))
             u == SubSeq(s, off + 1, Len(s))
             v == r \o c
  <2>1. r \in Seq(T) /\ Len(r) = Len(p) - off /\ \A j \in 1 .. Len(p) - off : r[j] = p[off + j]
    BY <1>1
  <2> HIDE DEF s
  <2>2. u \in Seq(T) /\ Len(u) = Len(s) - off /\ \A j \in 1 .. Len(s) - off : u[j] = s[off + j]
    BY <1>1
  <2> HIDE DEF r, u
  <2>3. v \in Seq(T) /\ Len(v) = Len(s) - off
    <3>1. v \in Seq(T) /\ Len(v) = Len(r) + Len(c)
      <4>1. r \in Seq(T)
        BY <2>1
      <4> QED BY <4>1
    <3> HIDE DEF v
    <3> QED BY <1>1, <2>1, <3>1
  <2>4. ASSUME NEW j \in 1 .. Len(s) - off PROVE u[j] = v[j]
    <3>1. u[j] = s[off + j]
      BY <2>2
    <3>2. CASE j <= Len(p) - off
      <4>1. j \in 1 .. Len(p) - off /\ off + j \in 1 .. Len(p)
        BY <1>1, <3>2
      <4>2. v[j] = r[j]
        BY <2>1, <4>1
      <4> QED BY <1>1, <2>1, <3>1, <4>1, <4>2
    <3>3. CASE j > Len(p) - off
      <4> DEFINE l == j - (Len(p) - off)
      <4>1. l \in 1 .. Len(c) /\ off + j = Len(p) + l /\ ~(j <= Len(p) - off)
        BY <1>1, <3>3
      <4>2. v[j] = c[l]
        BY <1>1, <2>1, <4>1
      <4> HIDE DEF l, v
      <4> QED BY <1>1, <3>1, <4>1, <4>2
    <3> HIDE DEF v
    <3>4. j <= Len(p) - off \/ j > Len(p) - off
      BY <1>1
    <3> QED BY <3>2, <3>3, <3>4
  <2> HIDE DEF v
  <2>5. u = [j \in 1 .. Len(s) - off |-> u[j]] /\ v = [j \in 1 .. Len(s) - off |-> v[j]]
    BY <2>2, <2>3
  <2>6. u = v
    BY <2>4, <2>5
  <2> QED BY <1>2, <2>6 DEF u, v, r
<1>4. SubSeq(s, 1, off) = SubSeq(p, 1, off)
  <2> HIDE DEF s
  <2> QED BY <1>1
<1>5. off \in 0 .. Len(s) /\ (off = 0 \/ s[off] = "nl")
  <2> HIDE DEF s
  <2> QED BY <1>1, <1>2
<1> HIDE DEF s
<1>6. Data(s) = Data(SubSeq(s, 1, off)) \o Data(SubSeq(s, off + 1, Len(s)))
  BY <1>1, <1>5, DataSplit
<1>7. Rest(s) = Rest(SubSeq(s, off + 1, Len(s)))
  BY <1>1, <1>5, RestSplit
<1> QED BY <1>2, <1>3, <1>4, <1>6, <1>7 DEF s

-----------------------------------------------------------------------------
(* What a stream's events make of the answer. *)

DocNames == {"doc1", "doc2"}
Events == {"done", "text", "error", "none"} \cup DocNames
Cites == [doc : DocNames, at : Nat]
Replies == [text : Seq(Nat), numbers : Seq(DocNames), cites : Seq(Cites),
            how : {"open", "done", "truncated", "error"}]

(* A citation says where its marker stands, and the marker's number is its document's. *)
Marked(r, c) ==
  /\ c.at \in DOMAIN r.text /\ r.text[c.at] \in DOMAIN r.numbers
  /\ r.numbers[r.text[c.at]] = c.doc

GoodReplies ==
  {r \in Replies : IsInjective(r.numbers) /\ \A i \in DOMAIN r.cites : Marked(r, r.cites[i])}

LEMMA ParsedIs ==
  ASSUME NEW p, NEW payload
  PROVE  Parsed(p, payload) \in Events
BY DEF Parsed, Events, DocNames

LEMMA NoReplyIsGood == NoReply \in GoodReplies
BY DEF NoReply, GoodReplies, Replies, IsInjective

LEMMA OverIsGood ==
  ASSUME NEW r \in GoodReplies, NEW how \in {"open", "done", "truncated", "error"}
  PROVE  Over(r, how) \in GoodReplies /\ Over(r, how).how = how /\ Over(r, how).text = r.text
<1>1. r \in Replies
  BY DEF GoodReplies
<1>2. Over(r, how) \in Replies /\ Over(r, how).how = how /\ Over(r, how).text = r.text
      /\ Over(r, how).numbers = r.numbers /\ Over(r, how).cites = r.cites
  BY <1>1 DEF Over, Replies
<1> QED BY <1>2 DEF GoodReplies, Marked

LEMMA TextIsGood ==
  ASSUME NEW r \in GoodReplies
  PROVE  [r EXCEPT !.text = Append(@, 0)] \in GoodReplies
<1> DEFINE q == [r EXCEPT !.text = Append(@, 0)]
<1>1. r \in Replies /\ r.text \in Seq(Nat) /\ r.numbers \in Seq(DocNames) /\ r.cites \in Seq(Cites)
  BY DEF GoodReplies, Replies
<1>2. q \in Replies /\ q.text = Append(r.text, 0) /\ q.numbers = r.numbers /\ q.cites = r.cites
  <2>1. Append(r.text, 0) \in Seq(Nat)
    BY <1>1
  <2> QED BY <1>1, <2>1 DEF Replies
<1> HIDE DEF q
<1>3. DOMAIN r.text \subseteq DOMAIN q.text /\ \A i \in DOMAIN r.text : q.text[i] = r.text[i]
  BY <1>1, <1>2
<1>4. \A c : Marked(r, c) => Marked(q, c)
  BY <1>2, <1>3 DEF Marked
<1>5. q \in GoodReplies
  BY <1>2, <1>4 DEF GoodReplies
<1> QED BY <1>5 DEF q

(* The numbers once a document is cited, and its number among them.        *)
Numbered(r, doc) ==
  IF Contains(r.numbers, doc) THEN r.numbers ELSE Append(r.numbers, doc)

LEMMA NumberedIs ==
  ASSUME NEW r \in GoodReplies, NEW doc \in DocNames
  PROVE  /\ Numbered(r, doc) \in Seq(DocNames) /\ IsInjective(Numbered(r, doc))
         /\ \E n \in DOMAIN Numbered(r, doc) : Numbered(r, doc)[n] = doc
         /\ DOMAIN r.numbers \subseteq DOMAIN Numbered(r, doc)
         /\ \A n \in DOMAIN r.numbers : Numbered(r, doc)[n] = r.numbers[n]
<1> DEFINE u == r.numbers
           v == Numbered(r, doc)
<1>1. u \in Seq(DocNames) /\ IsInjective(u)
  BY DEF GoodReplies, Replies
<1>2. CASE Contains(u, doc)
  <2>1. v = u
    BY <1>2 DEF Numbered
  <2>2. \E n \in DOMAIN u : u[n] = doc
    BY <1>1, <1>2 DEF Contains
  <2> QED BY <1>1, <2>1, <2>2
<1>3. CASE ~Contains(u, doc)
  <2>1. v = Append(u, doc)
    BY <1>3 DEF Numbered
  <2> HIDE DEF u, v
  <2>2. v \in Seq(DocNames) /\ Len(v) = Len(u) + 1 /\ v[Len(u) + 1] = doc
        /\ \A n \in 1 .. Len(u) : v[n] = u[n]
    BY <1>1, <2>1
  <2>3. Len(u) \in Nat /\ DOMAIN u = 1 .. Len(u) /\ DOMAIN v = 1 .. Len(u) + 1
    BY <1>1, <2>2
  <2>4. \A n \in 1 .. Len(u) : u[n] # doc
    BY <1>3 DEF Contains, u
  <2>5. ASSUME NEW m \in 1 .. Len(u) + 1, NEW n \in 1 .. Len(u) + 1, v[m] = v[n]
        PROVE  m = n
    <3>1. \A k, l \in 1 .. Len(u) : u[k] = u[l] => k = l
      BY <1>1, <2>3 DEF IsInjective
    <3>2. \A k \in 1 .. Len(u) + 1 : k \in 1 .. Len(u) \/ k = Len(u) + 1
      BY <2>3
    <3> QED BY <2>2, <2>4, <2>5, <3>1, <3>2
  <2>6. IsInjective(v)
    BY <2>3, <2>5 DEF IsInjective
  <2>7. Len(u) + 1 \in DOMAIN v /\ DOMAIN u \subseteq DOMAIN v
    BY <2>3
  <2> QED BY <2>2, <2>3, <2>6, <2>7 DEF u, v
<1> QED BY <1>2, <1>3

LEMMA CitedIsGood ==
  ASSUME NEW r \in GoodReplies, NEW doc \in DocNames, MaxResponse \in Nat
  PROVE  /\ Cited(r, doc) \in GoodReplies
         /\ \/ Cited(r, doc).how = "truncated"
            \/ /\ Cited(r, doc).how = r.how
               /\ \E number \in Nat \ {0} : Cited(r, doc).text = Append(r.text, number)
<1> DEFINE v == Numbered(r, doc)
           number == CHOOSE n \in DOMAIN v : v[n] = doc
           w == [r EXCEPT !.numbers = v]
           c == [doc |-> doc, at |-> Len(r.text) + 1]
           q == [r EXCEPT !.numbers = v, !.text = Append(@, number), !.cites = Append(@, c)]
<1>1. /\ r \in Replies /\ r.text \in Seq(Nat) /\ r.numbers \in Seq(DocNames)
      /\ r.cites \in Seq(Cites) /\ \A i \in DOMAIN r.cites : Marked(r, r.cites[i])
  BY DEF GoodReplies, Replies
<1>2. /\ v \in Seq(DocNames) /\ IsInjective(v)
      /\ \E n \in DOMAIN v : v[n] = doc
      /\ DOMAIN r.numbers \subseteq DOMAIN v
      /\ \A n \in DOMAIN r.numbers : v[n] = r.numbers[n]
  BY NumberedIs
<1>3. Cited(r, doc) = IF HasRoom(r) THEN q ELSE Over(w, "truncated")
  BY DEF Cited, Numbered
<1> HIDE DEF v
<1>4. number \in DOMAIN v /\ v[number] = doc /\ number \in Nat \ {0}
  BY <1>2
<1>5. w \in GoodReplies
  <2>1. w \in Replies /\ w.numbers = v /\ w.text = r.text /\ w.cites = r.cites
    BY <1>1, <1>2 DEF Replies
  <2> HIDE DEF w
  <2>2. \A x : Marked(r, x) => Marked(w, x)
    BY <1>2, <2>1 DEF Marked
  <2> QED BY <1>1, <1>2, <2>1, <2>2 DEF GoodReplies
<1> HIDE DEF number, w
<1>6. c \in Cites /\ c.doc = doc /\ c.at = Len(r.text) + 1
  BY <1>1 DEF Cites
<1> HIDE DEF c
<1>7. q \in Replies /\ q.numbers = v /\ q.text = Append(r.text, number)
      /\ q.cites = Append(r.cites, c) /\ q.how = r.how
  <2>1. Append(r.text, number) \in Seq(Nat) /\ Append(r.cites, c) \in Seq(Cites)
    BY <1>1, <1>4, <1>6
  <2> QED BY <1>1, <1>2, <2>1 DEF Replies
<1> HIDE DEF q
<1>8. q \in GoodReplies
  <2>1. /\ DOMAIN r.text \subseteq DOMAIN q.text /\ \A i \in DOMAIN r.text : q.text[i] = r.text[i]
        /\ c.at \in DOMAIN q.text /\ q.text[c.at] = number
    BY <1>1, <1>4, <1>6, <1>7
  <2>2. \A x : Marked(r, x) => Marked(q, x)
    BY <1>2, <1>7, <2>1 DEF Marked
  <2>3. Marked(q, c)
    BY <1>4, <1>6, <1>7, <2>1 DEF Marked
  <2>4. \A i \in DOMAIN q.cites : q.cites[i] = c \/ \E k \in DOMAIN r.cites : q.cites[i] = r.cites[k]
    BY <1>1, <1>6, <1>7
  <2>5. \A i \in DOMAIN q.cites : Marked(q, q.cites[i])
    BY <1>1, <2>2, <2>3, <2>4
  <2> QED BY <1>2, <1>7, <2>5 DEF GoodReplies
<1>9. CASE HasRoom(r)
  <2>1. Cited(r, doc) = q
    BY <1>3, <1>9
  <2> QED BY <1>4, <1>7, <1>8, <2>1
<1>10. CASE ~HasRoom(r)
  <2>1. Cited(r, doc) = Over(w, "truncated")
    BY <1>3, <1>10
  <2> QED BY <1>5, <2>1, OverIsGood
<1> QED BY <1>9, <1>10

(* What an event makes of the answer r is t.                               *)
Effect(r, event, t) ==
  /\ t \in GoodReplies
  /\ r.how # "open" \/ event = "none" => t = r
  /\ r.how = "open" /\ event = "text" =>
       t.how = "truncated" \/ (t.how = "open" /\ t.text = Append(r.text, 0))
  /\ r.how = "open" /\ event \in DocNames =>
       \/ t.how = "truncated" \/ t = r
       \/ t.how = "open" /\ \E number \in Nat \ {0} : t.text = Append(r.text, number)
  /\ r.how = "open" /\ event \in {"done", "error"} => t.how = event /\ t.text = r.text

LEMMA ToldIs ==
  ASSUME NEW request, NEW r \in GoodReplies, NEW event \in Events, MaxResponse \in Nat
  PROVE  Effect(r, event, Told(request, r, event))
<1> DEFINE t == Told(request, r, event)
<1> SUFFICES Effect(r, event, t)
  OBVIOUS
<1>1. CASE r.how # "open" \/ event = "none"
  <2>1. t = r
    BY <1>1 DEF Told
  <2> HIDE DEF t
  <2> QED BY <1>1, <2>1 DEF Effect, DocNames
<1>2. CASE r.how = "open" /\ event = "text"
  <2>1. t = IF HasRoom(r) THEN [r EXCEPT !.text = Append(@, 0)] ELSE Over(r, "truncated")
    BY <1>2 DEF Told
  <2>2. r \in Replies
    BY DEF GoodReplies
  <2>3. CASE HasRoom(r)
    <3>1. t = [r EXCEPT !.text = Append(@, 0)]
      BY <2>1, <2>3
    <3>2. t \in GoodReplies
      BY <3>1, TextIsGood
    <3>3. t.how = r.how /\ t.text = Append(r.text, 0)
      BY <2>2, <3>1 DEF Replies
    <3> HIDE DEF t
    <3> QED BY <1>2, <3>2, <3>3 DEF Effect, DocNames
  <2>4. CASE ~HasRoom(r)
    <3>1. t = Over(r, "truncated")
      BY <2>1, <2>4
    <3>2. t \in GoodReplies /\ t.how = "truncated"
      BY <3>1, OverIsGood
    <3> HIDE DEF t
    <3> QED BY <1>2, <3>2 DEF Effect, DocNames
  <2> QED BY <2>3, <2>4
<1>3. CASE r.how = "open" /\ event \in DocNames
  <2>1. t = r \/ t = Cited(r, event)
    BY <1>3 DEF Told, DocNames
  <2> HIDE DEF t
  <2>2. CASE t = r
    BY <1>3, <2>2 DEF Effect, DocNames
  <2>3. CASE t = Cited(r, event)
    <3>1. /\ t \in GoodReplies
          /\ \/ t.how = "truncated"
             \/ t.how = "open" /\ \E number \in Nat \ {0} : t.text = Append(r.text, number)
      BY <1>3, <2>3, CitedIsGood
    <3> QED BY <1>3, <3>1 DEF Effect, DocNames
  <2> QED BY <2>1, <2>2, <2>3
<1>4. CASE r.how = "open" /\ event \in {"done", "error"}
  <2>1. t = Over(r, event)
    BY <1>4 DEF Told
  <2>2. t \in GoodReplies /\ t.how = event /\ t.text = r.text
    BY <1>4, <2>1, OverIsGood
  <2> HIDE DEF t
  <2> QED BY <1>4, <2>2 DEF Effect, DocNames
<1> QED BY <1>1, <1>2, <1>3, <1>4 DEF Events

(* The answers that go by, one payload after the other.                    *)
Step(request, r, payload) == Told(request, r, Parsed(request.provider, payload))

Follows(f, request, r, ps) ==
  f[0] = r /\ \A n \in 1 .. Len(ps) : f[n] = Step(request, f[n - 1], ps[n])

IsRun(f, request, r, ps) ==
  f \in [0 .. Len(ps) -> GoodReplies] /\ Follows(f, request, r, ps)

LEMMA StepIsGood ==
  ASSUME NEW request, NEW r \in GoodReplies, NEW payload, MaxResponse \in Nat
  PROVE  Step(request, r, payload) \in GoodReplies
BY ParsedIs, ToldIs DEF Step, Effect

LEMMA RunExists ==
  ASSUME NEW request, NEW r \in GoodReplies, NEW T, NEW ps \in Seq(T), MaxResponse \in Nat
  PROVE  \E f : IsRun(f, request, r, ps)
<1> DEFINE N == Len(ps)
           F == [n \in 1 .. N |-> [q \in GoodReplies |-> Step(request, q, ps[n])]]
<1>1. F \in [1 .. N -> [GoodReplies -> GoodReplies]]
  BY StepIsGood
<1>2. \A n \in 1 .. N, q \in GoodReplies : F[n][q] = Step(request, q, ps[n])
  OBVIOUS
<1>3. N \in Nat
  OBVIOUS
<1> HIDE DEF N, F
<1>4. PICK f : Along(f, GoodReplies, N, r, F)
  BY <1>1, <1>3, DefinedAlong
<1>5. \A n \in 1 .. N : f[n - 1] \in GoodReplies
  BY <1>3, <1>4 DEF Along
<1>6. IsRun(f, request, r, ps)
  BY <1>2, <1>4, <1>5 DEF Along, IsRun, Follows, N
<1> QED BY <1>6

LEMMA RunIsTheOne ==
  ASSUME NEW request, NEW r, NEW ps, Len(ps) \in Nat, NEW f, NEW g,
         Follows(f, request, r, ps), Follows(g, request, r, ps)
  PROVE  \A n \in 0 .. Len(ps) : f[n] = g[n]
<1> DEFINE Bad == {n \in 0 .. Len(ps) : f[n] # g[n]}
<1> SUFFICES ASSUME Bad # {} PROVE FALSE
  OBVIOUS
<1>1. Len(ps) \in Nat /\ Bad \subseteq Nat
  OBVIOUS
<1>2. PICK m \in Bad : \A k \in Bad : m <= k
  BY <1>1, LeastOf
<1>3. m \in 1 .. Len(ps) /\ f[m] # g[m]
  BY <1>1, <1>2 DEF Follows
<1>4. m - 1 \in 0 .. Len(ps) /\ m - 1 \notin Bad
  BY <1>1, <1>2, <1>3
<1>5. f[m - 1] = g[m - 1]
  BY <1>4
<1> QED BY <1>3, <1>5 DEF Follows

LEMMA ProcessedRuns ==
  ASSUME NEW request, NEW r \in GoodReplies, NEW T, NEW ps \in Seq(T), MaxResponse \in Nat,
         NEW f, IsRun(f, request, r, ps)
  PROVE  Processed(request, r, ps) = f[Len(ps)] /\ f[Len(ps)] \in GoodReplies
<1> DEFINE N == Len(ps)
           Fill(h) == [n \in 0 .. Len(ps) |->
                         IF n = 0 THEN r
                         ELSE Told(request, h[n - 1], Parsed(request.provider, ps[n]))]
           after == CHOOSE h : h = Fill(h)
<1>1. N \in Nat
  OBVIOUS
<1>2. f \in [0 .. N -> GoodReplies] /\ f[0] = r
      /\ \A n \in 1 .. N : f[n] = Step(request, f[n - 1], ps[n])
  BY DEF IsRun, Follows
<1>3. f = Fill(f)
  <2> DEFINE u == Fill(f)
  <2>1. \A n \in 0 .. N : u[n] = f[n]
    <3> SUFFICES ASSUME NEW n \in 0 .. N PROVE u[n] = f[n]
      OBVIOUS
    <3>1. CASE n = 0
      BY <1>1, <1>2, <3>1
    <3>2. CASE n # 0
      <4>1. n \in 1 .. N
        BY <1>1, <3>2
      <4>2. u[n] = Step(request, f[n - 1], ps[n])
        BY <3>2 DEF Step
      <4> QED BY <1>2, <4>1, <4>2
    <3> QED BY <3>1, <3>2
  <2>2. u = [n \in 0 .. N |-> u[n]] /\ f = [n \in 0 .. N |-> f[n]]
    BY <1>2
  <2> HIDE DEF u
  <2>3. u = f
    BY <2>1, <2>2
  <2> QED BY <2>3 DEF u
<1>4. after = Fill(after)
  BY <1>3
<1>5. after[0] = r /\ \A n \in 1 .. N : after[n] = Step(request, after[n - 1], ps[n])
  <2> HIDE DEF after
  <2>1. after[0] = r
    BY <1>1, <1>4
  <2>2. ASSUME NEW n \in 1 .. N PROVE after[n] = Step(request, after[n - 1], ps[n])
    <3>1. n \in 0 .. N /\ n # 0
      BY <1>1
    <3> QED BY <1>4, <3>1 DEF Step
  <2> QED BY <2>1, <2>2
<1>6. Processed(request, r, ps) = after[N]
  BY DEF Processed
<1> HIDE DEF after
<1>7. \A n \in 0 .. N : after[n] = f[n]
  <2>1. Follows(f, request, r, ps) /\ Follows(after, request, r, ps)
    BY <1>2, <1>5 DEF Follows
  <2> QED BY <1>1, <2>1, RunIsTheOne
<1> QED BY <1>1, <1>2, <1>6, <1>7

(* What comes in two parts makes the answer it makes at once.              *)
LEMMA ProcessedOn ==
  ASSUME NEW request, NEW r \in GoodReplies, NEW T, NEW x \in Seq(T), NEW y \in Seq(T),
         MaxResponse \in Nat
  PROVE  /\ Processed(request, r, x) \in GoodReplies
         /\ Processed(request, r, x \o y) = Processed(request, Processed(request, r, x), y)
<1> DEFINE z == x \o y
           m == Len(x)
           n == Len(y)
<1>1. z \in Seq(T) /\ Len(z) = m + n /\ m \in Nat /\ n \in Nat
      /\ (\A i \in 1 .. m : z[i] = x[i]) /\ (\A i \in 1 .. n : z[m + i] = y[i])
  OBVIOUS
<1> HIDE DEF z
<1>2. PICK f : IsRun(f, request, r, z)
  BY <1>1, RunExists
<1>3. f \in [0 .. m + n -> GoodReplies] /\ f[0] = r
      /\ \A i \in 1 .. m + n : f[i] = Step(request, f[i - 1], z[i])
  BY <1>1, <1>2 DEF IsRun, Follows
<1> DEFINE g == [i \in 0 .. m |-> f[i]]
           h == [i \in 0 .. n |-> f[m + i]]
<1>4. IsRun(g, request, r, x)
  <2>1. g \in [0 .. m -> GoodReplies]
    <3>1. \A i \in 0 .. m : i \in 0 .. m + n
      BY <1>1
    <3> QED BY <1>3, <3>1
  <2>2. g[0] = r
    BY <1>1, <1>3
  <2>3. ASSUME NEW i \in 1 .. m PROVE g[i] = Step(request, g[i - 1], x[i])
    <3>1. i \in 1 .. m + n /\ g[i] = f[i] /\ g[i - 1] = f[i - 1] /\ z[i] = x[i]
      BY <1>1
    <3> HIDE DEF g
    <3> QED BY <1>3, <3>1
  <2> HIDE DEF g
  <2> QED BY <2>1, <2>2, <2>3 DEF IsRun, Follows
<1>5. IsRun(h, request, f[m], y)
  <2>1. h \in [0 .. n -> GoodReplies]
    <3>1. \A i \in 0 .. n : m + i \in 0 .. m + n
      BY <1>1
    <3> QED BY <1>3, <3>1
  <2>2. h[0] = f[m]
    BY <1>1
  <2>3. ASSUME NEW i \in 1 .. n PROVE h[i] = Step(request, h[i - 1], y[i])
    <3>1. m + i \in 1 .. m + n /\ h[i] = f[m + i] /\ h[i - 1] = f[(m + i) - 1] /\ z[m + i] = y[i]
      BY <1>1
    <3> HIDE DEF h
    <3> QED BY <1>3, <3>1
  <2> HIDE DEF h
  <2> QED BY <2>1, <2>2, <2>3 DEF IsRun, Follows
<1>6. g[m] = f[m] /\ h[n] = f[m + n]
  BY <1>1
<1> HIDE DEF g, h
<1>7. f[m] \in GoodReplies
  BY <1>1, <1>3
<1>8. Processed(request, r, z) = f[m + n]
  <2>1. z \in Seq(T) /\ Len(z) = m + n
    BY <1>1
  <2>2. Processed(request, r, z) = f[Len(z)]
    BY <1>2, <2>1, ProcessedRuns
  <2> HIDE DEF m, n
  <2> QED BY <2>1, <2>2
<1>9. Processed(request, r, x) = g[m] /\ Processed(request, f[m], y) = h[n]
  BY <1>4, <1>5, <1>7, ProcessedRuns
<1> QED BY <1>6, <1>7, <1>8, <1>9 DEF z

LEMMA ProcessedNothing ==
  ASSUME NEW request, NEW r \in GoodReplies, NEW T, NEW ps \in Seq(T), Len(ps) = 0,
         MaxResponse \in Nat
  PROVE  Processed(request, r, ps) = r
<1>1. PICK f : IsRun(f, request, r, ps)
  BY RunExists
<1>2. f[Len(ps)] = r
  BY <1>1 DEF IsRun, Follows
<1> QED BY <1>1, <1>2, ProcessedRuns

-----------------------------------------------------------------------------
(* The words of an answer. *)

Closing == {"done", "finish"}

(* The payloads among the first n that bring a word before one ends the answer. *)
Words(ps, n) ==
  {i \in 1 .. n : ps[i] \in {"text", "text_finish"} /\ \A j \in 1 .. i - 1 : ps[j] \notin Closing}

Zeros(text) == {i \in DOMAIN text : text[i] = 0}

LEMMA ZerosGrow ==
  ASSUME NEW text \in Seq(Nat), NEW number \in Nat
  PROVE  /\ IsFiniteSet(Zeros(text))
         /\ number # 0 => Zeros(Append(text, number)) = Zeros(text)
         /\ number = 0 => Cardinality(Zeros(Append(text, number))) = Cardinality(Zeros(text)) + 1
<1> DEFINE u == Append(text, number)
           n == Len(text)
<1>1. n \in Nat /\ DOMAIN text = 1 .. n /\ DOMAIN u = 1 .. n + 1
      /\ u[n + 1] = number /\ \A i \in 1 .. n : u[i] = text[i]
  OBVIOUS
<1>2. IsFiniteSet(Zeros(text))
  <2>1. IsFiniteSet(1 .. n)
    BY <1>1, FS_Interval
  <2>2. Zeros(text) \in SUBSET (1 .. n)
    BY <1>1 DEF Zeros
  <2> QED BY <2>1, <2>2, FS_Subset
<1> HIDE DEF u, n
<1>3. number # 0 => Zeros(u) = Zeros(text)
  BY <1>1 DEF Zeros
<1>4. number = 0 => Zeros(u) = Zeros(text) \cup {n + 1} /\ n + 1 \notin Zeros(text)
  BY <1>1 DEF Zeros
<1>5. number = 0 => Cardinality(Zeros(u)) = Cardinality(Zeros(text)) + 1
  BY <1>2, <1>4, FS_AddElement
<1> QED BY <1>2, <1>3, <1>5 DEF u

(* So far the answer has the words it was sent.                            *)
HasWords(r, ps, n) ==
  r.how \in {"open", "done"} =>
    /\ Cardinality(Zeros(r.text)) = Cardinality(Words(ps, n))
    /\ r.how = "open" <=> \A j \in 1 .. n : ps[j] \notin Closing

LEMMA StepHasWords ==
  ASSUME NEW request, NEW r \in GoodReplies, NEW T, NEW ps \in Seq(T), NEW n \in 1 .. Len(ps),
         MaxResponse \in Nat, HasWords(r, ps, n - 1)
  PROVE  HasWords(Step(request, r, ps[n]), ps, n)
<1> DEFINE p == ps[n]
           e == Parsed(request.provider, p)
           t == Step(request, r, p)
           W == Words(ps, n - 1)
           V == Words(ps, n)
<1> SUFFICES HasWords(t, ps, n)
  OBVIOUS
<1>1. Effect(r, e, t)
  <2>1. e \in Events
    BY ParsedIs
  <2> QED BY <2>1, ToldIs DEF Step
<1>2. /\ e = "done" <=> p \in Closing
      /\ e = "text" <=> p \in {"text", "text_finish"}
  BY DEF Parsed, Closing
<1>3. e \in Events
  BY ParsedIs
<1>4. n \in Nat /\ n >= 1 /\ 1 .. n = (1 .. n - 1) \cup {n} /\ n \notin 1 .. n - 1
  OBVIOUS
<1>5. W = {i \in 1 .. n - 1 : ps[i] \in {"text", "text_finish"} /\ \A j \in 1 .. i - 1 : ps[j] \notin Closing}
  BY DEF Words
<1>6. V = {i \in 1 .. n : ps[i] \in {"text", "text_finish"} /\ \A j \in 1 .. i - 1 : ps[j] \notin Closing}
  BY DEF Words
<1>7. p = ps[n]
  OBVIOUS
<1>8. IsFiniteSet(W)
  <2>1. IsFiniteSet(1 .. n - 1)
    BY FS_Interval
  <2>2. W \in SUBSET (1 .. n - 1)
    BY <1>5
  <2> QED BY <2>1, <2>2, FS_Subset
<1> HIDE DEF p, e, t, W, V
<1>9. IF p \in {"text", "text_finish"} /\ \A j \in 1 .. n - 1 : ps[j] \notin Closing
      THEN V = W \cup {n} /\ n \notin W
      ELSE V = W
  BY <1>4, <1>5, <1>6, <1>7
<1>10. (\A j \in 1 .. n : ps[j] \notin Closing)
         <=> (\A j \in 1 .. n - 1 : ps[j] \notin Closing) /\ p \notin Closing
  BY <1>4, <1>7
<1>11. r.text \in Seq(Nat) /\ r.how \in {"open", "done", "truncated", "error"}
  BY DEF GoodReplies, Replies
<1>12. CASE r.how \notin {"open", "done"}
  BY <1>1, <1>12 DEF Effect, HasWords
<1>13. CASE r.how = "done"
  <2>1. t = r
    BY <1>1, <1>13 DEF Effect
  <2>2. ~(\A j \in 1 .. n - 1 : ps[j] \notin Closing) /\ Cardinality(Zeros(r.text)) = Cardinality(W)
    BY <1>13 DEF HasWords, W
  <2> QED BY <1>9, <1>10, <1>13, <2>1, <2>2 DEF HasWords, V
<1>14. CASE r.how = "open"
  <2>1. (\A j \in 1 .. n - 1 : ps[j] \notin Closing) /\ Cardinality(Zeros(r.text)) = Cardinality(W)
    BY <1>14 DEF HasWords, W
  <2>2. CASE e = "text"
    <3>1. t.how = "truncated" \/ (t.how = "open" /\ t.text = Append(r.text, 0))
      BY <1>1, <1>14, <2>2 DEF Effect
    <3>2. p \notin Closing /\ p \in {"text", "text_finish"}
      BY <1>2, <2>2
    <3>3. Cardinality(V) = Cardinality(W) + 1
      BY <1>8, <1>9, <2>1, <3>2, FS_AddElement
    <3>4. Cardinality(Zeros(Append(r.text, 0))) = Cardinality(Zeros(r.text)) + 1
      BY <1>11, ZerosGrow
    <3> QED BY <1>10, <2>1, <3>1, <3>2, <3>3, <3>4 DEF HasWords, V
  <2>3. CASE e = "none"
    <3>1. t = r /\ p \notin Closing /\ p \notin {"text", "text_finish"}
      BY <1>1, <1>2, <2>3 DEF Effect
    <3> QED BY <1>9, <1>10, <1>14, <2>1, <3>1 DEF HasWords, V
  <2>4. CASE e \in DocNames
    <3>1. \/ t.how = "truncated" \/ t = r
          \/ t.how = "open" /\ \E number \in Nat \ {0} : t.text = Append(r.text, number)
      BY <1>1, <1>14, <2>4 DEF Effect
    <3>2. p \notin Closing /\ p \notin {"text", "text_finish"}
      BY <1>2, <2>4 DEF DocNames
    <3>3. t.how = "open" => Zeros(t.text) = Zeros(r.text)
      BY <1>11, <3>1, ZerosGrow
    <3> QED BY <1>9, <1>10, <1>14, <2>1, <3>1, <3>2, <3>3 DEF HasWords, V
  <2>5. CASE e \in {"done", "error"}
    <3>1. t.how = e /\ t.text = r.text /\ p \notin {"text", "text_finish"}
      BY <1>1, <1>2, <1>14, <2>5 DEF Effect
    <3>2. e = "done" => p \in Closing
      BY <1>2
    <3> QED BY <1>9, <1>10, <2>1, <2>5, <3>1, <3>2 DEF HasWords, V
  <2> QED BY <1>3, <2>2, <2>3, <2>4, <2>5 DEF Events
<1> QED BY <1>11, <1>12, <1>13, <1>14

LEMMA ProcessedHasWords ==
  ASSUME NEW request, NEW T, NEW ps \in Seq(T), MaxResponse \in Nat
  PROVE  HasWords(Processed(request, NoReply, ps), ps, Len(ps))
<1>1. PICK f : IsRun(f, request, NoReply, ps)
  BY NoReplyIsGood, RunExists
<1>2. f \in [0 .. Len(ps) -> GoodReplies] /\ f[0] = NoReply
      /\ \A n \in 1 .. Len(ps) : f[n] = Step(request, f[n - 1], ps[n])
  BY <1>1 DEF IsRun, Follows
<1> DEFINE Bad == {n \in 0 .. Len(ps) : ~HasWords(f[n], ps, n)}
<1>3. Len(ps) \in Nat /\ Bad \subseteq Nat
  OBVIOUS
<1>4. HasWords(NoReply, ps, 0)
  <2>1. Zeros(<<>>) = {} /\ Words(ps, 0) = {}
    BY DEF Zeros, Words
  <2>2. NoReply.text = <<>> /\ NoReply.how = "open"
    BY DEF NoReply
  <2>3. \A j \in 1 .. 0 : ps[j] \notin Closing
    OBVIOUS
  <2>4. Cardinality(Zeros(NoReply.text)) = Cardinality(Words(ps, 0))
    BY <2>1, <2>2
  <2> QED BY <2>2, <2>3, <2>4 DEF HasWords
<1>5. Bad = {}
  <2> SUFFICES ASSUME Bad # {} PROVE FALSE
    OBVIOUS
  <2>1. PICK m \in Bad : \A k \in Bad : m <= k
    BY <1>3, LeastOf
  <2>2. m \in 1 .. Len(ps) /\ ~HasWords(f[m], ps, m)
    BY <1>2, <1>3, <1>4, <2>1
  <2>3. m - 1 \in 0 .. Len(ps) /\ m - 1 \notin Bad
    BY <1>3, <2>1, <2>2
  <2>4. HasWords(f[m - 1], ps, m - 1) /\ f[m - 1] \in GoodReplies
    BY <1>2, <2>3
  <2>5. HasWords(Step(request, f[m - 1], ps[m]), ps, m)
    BY <2>2, <2>4, StepHasWords
  <2> QED BY <1>2, <2>2, <2>5
<1>6. HasWords(f[Len(ps)], ps, Len(ps))
  BY <1>3, <1>5
<1> QED BY <1>1, <1>6, NoReplyIsGood, ProcessedRuns

-----------------------------------------------------------------------------
(* What is sent, and what comes back.                                      *)

(* A list of lists, one behind the other, is a list.                       *)
LEMMA FlatIs ==
  ASSUME NEW T, NEW lists \in Seq(Seq(T))
  PROVE  FlattenSeq(lists) \in Seq(T)
<1> DEFINE N == Len(lists)
           R == Seq(T)
           Fill(h) == [i \in 1 .. Len(lists) |-> IF i = 1 THEN lists[i] ELSE h[i - 1] \o lists[i]]
           flat == CHOOSE h : h = Fill(h)
           F == [n \in 1 .. N |-> [q \in R |-> IF n = 1 THEN lists[n] ELSE q \o lists[n]]]
<1>1. N \in Nat /\ \A n \in 1 .. N : lists[n] \in R
  OBVIOUS
<1>2. CASE N = 0
  <2>1. FlattenSeq(lists) = lists /\ lists = <<>>
    BY <1>2 DEF FlattenSeq
  <2> QED BY <2>1
<1>3. CASE N # 0
  <2>1. FlattenSeq(lists) = flat[N]
    BY <1>3 DEF FlattenSeq
  <2>2. F \in [1 .. N -> [R -> R]] /\ <<>> \in R
    BY <1>1
  <2>3. \A n \in 1 .. N, q \in R : F[n][q] = IF n = 1 THEN lists[n] ELSE q \o lists[n]
    OBVIOUS
  <2> HIDE DEF N, R, F, flat
  <2>4. PICK f : Along(f, R, N, <<>>, F)
    BY <1>1, <2>2, DefinedAlong
  <2> DEFINE g == [n \in 1 .. N |-> f[n]]
  <2>5. \A n \in 1 .. N : f[n - 1] \in R /\ f[n] \in R
    BY <1>1, <2>4 DEF Along
  <2>6. \A n \in 1 .. N : f[n] = IF n = 1 THEN lists[n] ELSE f[n - 1] \o lists[n]
    BY <2>3, <2>4, <2>5 DEF Along
  <2>7. g = Fill(g)
    <3> DEFINE u == Fill(g)
    <3>1. \A n \in 1 .. N : u[n] = g[n]
      <4> SUFFICES ASSUME NEW n \in 1 .. N PROVE u[n] = g[n]
        OBVIOUS
      <4>1. u[n] = IF n = 1 THEN lists[n] ELSE g[n - 1] \o lists[n]
        BY DEF N
      <4>2. n # 1 => g[n - 1] = f[n - 1]
        BY <1>1
      <4>3. g[n] = f[n]
        OBVIOUS
      <4> HIDE DEF u, g
      <4> QED BY <2>6, <4>1, <4>2, <4>3
    <3>2. u = [n \in 1 .. N |-> u[n]]
      BY DEF N
    <3>3. g = [n \in 1 .. N |-> g[n]]
      OBVIOUS
    <3> HIDE DEF u, g
    <3>4. u = g
      BY <3>1, <3>2, <3>3
    <3> QED BY <3>4 DEF u
  <2> HIDE DEF g
  <2>8. flat = Fill(flat)
    BY <2>7 DEF flat
  <2>9. \A n \in 1 .. N : flat[n] = IF n = 1 THEN lists[n] ELSE flat[n - 1] \o lists[n]
    BY <2>8 DEF N
  <2> DEFINE Bad == {n \in 1 .. N : flat[n] \notin R}
  <2>10. Bad = {}
    <3> SUFFICES ASSUME Bad # {} PROVE FALSE
      OBVIOUS
    <3>1. Bad \subseteq Nat
      OBVIOUS
    <3>2. PICK m \in Bad : \A k \in Bad : m <= k
      BY <3>1, LeastOf
    <3>3. m \in 1 .. N /\ flat[m] \notin R
      BY <3>2
    <3>4. m # 1
      BY <1>1, <2>9, <3>3
    <3>5. m - 1 \in 1 .. N /\ m - 1 \notin Bad
      BY <1>1, <3>2, <3>3, <3>4
    <3>6. flat[m - 1] \in R /\ lists[m] \in R /\ flat[m] = flat[m - 1] \o lists[m]
      BY <1>1, <2>9, <3>3, <3>4, <3>5
    <3>7. \A x, y \in R : x \o y \in R
      BY DEF R
    <3> QED BY <3>3, <3>6, <3>7
  <2>11. flat[N] \in R
    BY <1>1, <1>3, <2>10
  <2> QED BY <2>1, <2>11 DEF R
<1> QED BY <1>2, <1>3

Symbols == {"data", "event", "nl", "cr"} \cup Frames

LEMMA EncodedIs ==
  ASSUME MaxResponse \in Nat, NEW script \in Seq(Frames)
  PROVE  Encoded(script) \in Seq(Symbols)
<1>1. ASSUME NEW frame \in Frames PROVE Bytes(frame) \in Seq(Symbols)
  <2>1. frame \in Symbols /\ "data" \in Symbols /\ "event" \in Symbols /\ "nl" \in Symbols
        /\ "cr" \in Symbols /\ "text" \in Symbols
    BY DEF Symbols, Frames
  <2> HIDE DEF Symbols
  <2>2. <<"event", "nl", "nl">> \in Seq(Symbols) /\ <<"data", "text">> \in Seq(Symbols)
        /\ <<"data", frame, "cr", "nl">> \in Seq(Symbols)
    BY <2>1
  <2>3. [i \in 1 .. MaxResponse + 1 |-> "data"] \in Seq(Symbols)
    BY <2>1
  <2> QED BY <2>2, <2>3 DEF Bytes
<1> DEFINE lists == [i \in DOMAIN script |-> Bytes(script[i])]
<1>2. lists \in Seq(Seq(Symbols))
  <2>1. lists = [i \in 1 .. Len(script) |-> Bytes(script[i])] /\ Len(script) \in Nat
    OBVIOUS
  <2>2. \A i \in 1 .. Len(script) : Bytes(script[i]) \in Seq(Symbols)
    BY <1>1
  <2> QED BY <2>1, <2>2
<1> HIDE DEF lists
<1>3. FlattenSeq(lists) \in Seq(Symbols)
  BY <1>2, FlatIs
<1> QED BY <1>3 DEF Encoded, lists

Messages == [role : {"user", "assistant", "system"}, documents : Nat]

(* The last message is the question and those before it are not.           *)
Asks(messages, docs) ==
  /\ messages[Len(messages)] = [role |-> "user", documents |-> docs]
  /\ \A i \in 1 .. Len(messages) - 1 :
       messages[i].role # "user" /\ messages[i].documents = 0

LEMMA HistoryAsks ==
  ASSUME NEW h \in Histories
  PROVE  /\ Append(Past(h), Question) \in Seq(Messages) \ {<<>>}
         /\ Asks(Append(Past(h), Question), 0)
<1> DEFINE p == Past(h)
           m == Append(p, Question)
<1>1. h \in Seq({"assistant", "system"})
  <2>1. <<>> \in Seq({"assistant", "system"}) /\ <<"assistant", "system">> \in Seq({"assistant", "system"})
    OBVIOUS
  <2>2. h = <<>> \/ h = <<"assistant", "system">>
    BY DEF Histories
  <2> QED BY <2>1, <2>2
<1>2. p = [i \in 1 .. Len(h) |-> [role |-> h[i], documents |-> 0]] /\ Len(h) \in Nat
  BY <1>1 DEF Past
<1>3. p \in Seq(Messages) /\ Len(p) = Len(h)
      /\ \A i \in 1 .. Len(p) : p[i].role # "user" /\ p[i].documents = 0
  <2>1. \A i \in 1 .. Len(h) : h[i] \in {"assistant", "system"}
    BY <1>1
  <2> QED BY <1>2, <2>1 DEF Messages
<1> HIDE DEF p
<1>4. Question \in Messages
  BY DEF Question, Messages
<1>5. m \in Seq(Messages) /\ Len(m) = Len(p) + 1 /\ m[Len(p) + 1] = Question
      /\ \A i \in 1 .. Len(p) : m[i] = p[i]
  BY <1>3, <1>4
<1> HIDE DEF m
<1>6. Len(p) \in Nat
  BY <1>3
<1>7. Len(m) - 1 = Len(p) /\ m # <<>>
  BY <1>5, <1>6
<1>8. Asks(m, 0)
  BY <1>3, <1>5, <1>7 DEF Asks, Question
<1> QED BY <1>5, <1>7, <1>8 DEF m, p

LEMMA AssembledAsks ==
  ASSUME NEW p, NEW messages \in Seq(Messages) \ {<<>>}, Asks(messages, 0), NEW docs
  PROVE  Asks(Assembled(p, messages, docs), docs) \/ Asks(Assembled(p, messages, docs), 0)
<1> DEFINE L == Len(messages)
           S == {i \in DOMAIN messages : messages[i].role # "system"}
           said == Picked(messages, S)
           c == Cardinality(S)
           f == Ascending(S)
<1>1. L \in Nat \ {0} /\ DOMAIN messages = 1 .. L /\ messages \in Seq(Messages)
  OBVIOUS
<1>2. /\ messages[L] = [role |-> "user", documents |-> 0]
      /\ \A i \in 1 .. L - 1 : messages[i].role # "user" /\ messages[i].documents = 0
  BY DEF Asks
<1>3. CASE p \notin Native
  <2> DEFINE m == <<[role |-> "system", documents |-> 0]>> \o messages
  <2>1. Assembled(p, messages, docs) = m
    BY <1>3 DEF Assembled
  <2>2. Len(m) = L + 1 /\ m[1] = [role |-> "system", documents |-> 0]
        /\ \A i \in 1 .. L : m[i + 1] = messages[i]
    BY <1>1
  <2> HIDE DEF m, L
  <2>3. m[Len(m)] = [role |-> "user", documents |-> 0]
    BY <1>1, <1>2, <2>2
  <2>4. ASSUME NEW i \in 1 .. Len(m) - 1
        PROVE  m[i].role # "user" /\ m[i].documents = 0
    <3>1. CASE i = 1
      BY <2>2, <3>1
    <3>2. CASE i # 1
      <4>1. i - 1 \in 1 .. L - 1 /\ (i - 1) + 1 = i /\ i - 1 \in 1 .. L
        BY <1>1, <2>2, <3>2
      <4>2. m[i] = messages[i - 1]
        BY <2>2, <4>1
      <4> QED BY <1>2, <4>1, <4>2
    <3> QED BY <3>1, <3>2
  <2>5. Asks(m, 0)
    BY <2>3, <2>4 DEF Asks
  <2> QED BY <2>1, <2>5
<1>4. CASE p \in Native
  <2>1. Assembled(p, messages, docs) =
          IF docs = 0 THEN said
          ELSE Append(Front(said), [role |-> "user", documents |-> docs])
    BY <1>4 DEF Assembled
  <2>2. S \in SUBSET (1 .. L) /\ S \in SUBSET (DOMAIN messages) /\ L \in S
    BY <1>1, <1>2
  <2>3. IsFiniteSet(S) /\ S \in SUBSET Int
    <3>1. IsFiniteSet(1 .. L)
      BY <1>1, FS_Interval
    <3> HIDE DEF S
    <3> QED BY <1>1, <2>2, <3>1, FS_Subset
  <2> HIDE DEF S, L
  <2>4. /\ c \in Nat /\ f \in [1 .. c -> S] /\ said \in Seq(Messages) /\ Len(said) = c
        /\ (\A k, l \in 1 .. c : k < l => f[k] < f[l])
        /\ \A k \in 1 .. c : said[k] = messages[f[k]]
    <3>1. messages \in Seq(Messages) /\ S \in SUBSET (DOMAIN messages)
      BY <1>1, <2>2
    <3>2. /\ Cardinality(S) \in Nat /\ Len(Picked(messages, S)) = Cardinality(S)
          /\ Picked(messages, S) \in Seq(Messages)
          /\ Ascending(S) \in [1 .. Cardinality(S) -> S]
          /\ \A k, l \in 1 .. Cardinality(S) : k < l => Ascending(S)[k] < Ascending(S)[l]
          /\ \A k \in 1 .. Cardinality(S) : Picked(messages, S)[k] = messages[Ascending(S)[k]]
      BY <3>1, PickedInOrder
    <3> QED BY <3>2
  <2>5. \A i \in S : Rank(S, i) + 1 \in 1 .. c /\ f[Rank(S, i) + 1] = i
    BY <2>3, AscendingIsInOrder
  <2> HIDE DEF f, c, said
  <2>6. PICK k \in 1 .. c : f[k] = L
    BY <2>2, <2>5
  <2>7. k = c
    <3> SUFFICES ASSUME k < c PROVE FALSE
      BY <2>4
    <3>1. c \in 1 .. c /\ f[k] < f[c] /\ f[c] \in S
      BY <2>4
    <3>2. f[c] \in 1 .. L
      BY <2>2, <3>1
    <3> QED BY <1>1, <2>6, <3>1, <3>2
  <2>8. c \in Nat \ {0} /\ said[c] = [role |-> "user", documents |-> 0]
    BY <1>2, <2>4, <2>6, <2>7
  <2>9. ASSUME NEW i \in 1 .. c - 1
        PROVE  said[i].role # "user" /\ said[i].documents = 0
    <3>1. i \in 1 .. c /\ c \in 1 .. c /\ i < c
      BY <2>8
    <3>2. f[i] < f[c] /\ f[i] \in S
      BY <2>4, <3>1
    <3>3. f[i] \in 1 .. L /\ f[c] = L
      BY <2>2, <2>6, <2>7, <3>2
    <3>4. f[i] \in 1 .. L - 1
      BY <1>1, <3>2, <3>3
    <3> QED BY <1>2, <2>4, <3>1, <3>4
  <2>10. Asks(said, 0)
    BY <2>4, <2>8, <2>9 DEF Asks
  <2> DEFINE front == Front(said)
             q == [role |-> "user", documents |-> docs]
             m == Append(front, q)
  <2>11. Asks(m, docs)
    <3>1. Len(front) = c - 1 /\ \A i \in 1 .. c - 1 : front[i] = said[i]
      BY <2>4, <2>8 DEF Front
    <3>2. DOMAIN front = 1 .. c - 1 /\ front \in Seq(Messages)
      BY <2>4, <2>8 DEF Front
    <3> HIDE DEF front, q
    <3>3. Len(m) = c /\ m[c] = q /\ \A i \in 1 .. c - 1 : m[i] = front[i]
      BY <2>8, <3>1, <3>2
    <3> HIDE DEF m
    <3> QED BY <2>9, <3>1, <3>3 DEF Asks, q
  <2> QED BY <2>1, <2>10, <2>11
<1> QED BY <1>3, <1>4

-----------------------------------------------------------------------------
(* The exchange. *)

Arrived == SubSeq(wire, 1, unread - 1)

(* What the router may have settled on.                                    *)
RouterIInv ==
  /\ configured \subseteq Named /\ up \subseteq configured
  /\ wanted.model \in Models \cup {Nobody}
  /\ chosen.provider \in Named \cup {Nobody} /\ chosen.id \in Models \cup {Nobody}
  /\ exchange = "selected" => chosen.provider \in Named

(* What has been sent.                                                     *)
BodyIInv ==
  /\ exchange = "sent" => body.provider \in Named
  /\ QuestionComesLast

(* What has arrived, what of it is left for the next read, and what it     *)
(* made of the answer.                                                     *)
StreamIInv ==
  /\ exchange \in {"routing", "selected", "sent"} =>
       wire = <<>> /\ unread = 1 /\ pending = <<>> /\ reply = NoReply
  /\ wire \in Seq(Symbols) /\ unread \in 1 .. Len(wire) + 1
  /\ exchange = "streaming" => pending = Rest(Arrived)
  /\ reply \in GoodReplies
  /\ exchange = "answered" => reply.how \in {"open", "done"}
  /\ CutsDoNotShow

WireIInv == RouterIInv /\ BodyIInv /\ StreamIInv

LEMMA WireIInvStarts == WireInit => WireIInv
<1> SUFFICES ASSUME WireInit PROVE WireIInv
  OBVIOUS
<1>1. RouterIInv
  BY DEF WireInit, RouterIInv, Unset
<1>2. BodyIInv
  BY DEF WireInit, BodyIInv, Unsent, QuestionComesLast
<1>3. StreamIInv
  <2>1. wire \in Seq(Symbols) /\ unread \in 1 .. Len(wire) + 1
    BY DEF WireInit
  <2>2. reply \in GoodReplies /\ reply = NoReply
    BY NoReplyIsGood DEF WireInit
  <2> QED BY <2>1, <2>2 DEF WireInit, StreamIInv, CutsDoNotShow
<1> QED BY <1>1, <1>2, <1>3 DEF WireIInv

(* Nothing has come as long as nothing was sent.                           *)
LEMMA NothingCame ==
  ASSUME StreamIInv, UNCHANGED <<wire, unread, pending, reply>>,
         exchange \in {"routing", "selected", "sent"},
         exchange' \notin {"streaming", "answered", "truncated"}
  PROVE  StreamIInv'
BY DEF StreamIInv, CutsDoNotShow

LEMMA FirstIs ==
  ASSUME NEW ps, ps \subseteq Named, ps # {}
  PROVE  First(ps) \in ps
<1> DEFINE S == {i \in DOMAIN Providers : Providers[i] \in ps}
<1>1. Providers \in Seq(Named) /\ DOMAIN Providers = 1 .. Len(Providers) /\ Len(Providers) \in Nat
  BY WireAssumption
<1>2. S \subseteq Nat /\ S # {}
  <2>1. PICK p \in ps : TRUE
    OBVIOUS
  <2>2. \E i \in DOMAIN Providers : Providers[i] = p
    BY <2>1 DEF Named, ToSet
  <2> QED BY <1>1, <2>1, <2>2
<1>3. PICK i \in S : \A j \in S : i <= j
  BY <1>2, LeastOf
<1>4. i \in DOMAIN Providers /\ Providers[i] \in ps /\ \A j \in 1 .. i - 1 : Providers[j] \notin ps
  <2>1. ASSUME NEW j \in 1 .. i - 1 PROVE Providers[j] \notin ps
    <3>1. j \in DOMAIN Providers /\ ~(i <= j)
      BY <1>1
    <3> QED BY <1>3, <3>1
  <2> QED BY <2>1
<1> QED BY <1>4 DEF First

LEMMA DefaultIs ==
  ASSUME NEW p \in Named
  PROVE  Catalog[p][1] \in Models /\ FallbackModel[p] \in Models
<1>1. Catalog[p] \in Seq(Models) /\ Catalog[p] # <<>> /\ FallbackModel[p] \in Models
  BY WireAssumption
<1> QED BY <1>1

LEMMA GetProviderKeepsWire ==
  ASSUME WireIInv, GetProvider
  PROVE  WireIInv'
<1>1. RouterIInv /\ BodyIInv /\ StreamIInv
  BY DEF WireIInv
<1>2. exchange = "routing"
      /\ UNCHANGED <<configured, up, wanted, body, wire, unread, pending, reply>>
  BY DEF GetProvider
<1>3. \/ exchange' \in {"not_configured", "throttled"} /\ UNCHANGED chosen
      \/ /\ exchange' = "selected" /\ chosen'.provider \in Named
         /\ chosen'.id \in Models
  <2>1. ASSUME NEW p \in Named, NEW override \in Models \cup {Nobody}, Choose(p, override)
        PROVE  exchange' = "selected" /\ chosen'.provider \in Named /\ chosen'.id \in Models
    <3>1. Catalog[p][1] \in Models
      BY DefaultIs
    <3>2. override # Nobody => override \in Models
      OBVIOUS
    <3>3. wanted.model # Nobody => wanted.model \in Models
      BY <1>1 DEF RouterIInv
    <3> QED BY <2>1, <3>1, <3>2, <3>3 DEF Choose
  <2>2. up \subseteq Named
    BY <1>1 DEF RouterIInv
  <2>3. CASE Asked \in up /\ Choose(Asked, Nobody)
    BY <2>1, <2>2, <2>3
  <2>4. CASE up # {} /\ Choose(First(up), FallbackModel[First(up)])
    <3>1. First(up) \in Named
      BY <2>2, <2>4, FirstIs
    <3>2. FallbackModel[First(up)] \in Models
      BY <3>1, DefaultIs
    <3> QED BY <2>1, <2>4, <3>1, <3>2
  <2>5. \/ Asked \in up /\ Choose(Asked, Nobody)
        \/ up # {} /\ Choose(First(up), FallbackModel[First(up)])
        \/ Refuse("not_configured") \/ Refuse("throttled")
    BY DEF GetProvider
  <2> QED BY <2>3, <2>4, <2>5 DEF Refuse
<1>4. RouterIInv'
  BY <1>1, <1>2, <1>3 DEF RouterIInv
<1>5. BodyIInv'
  BY <1>1, <1>2, <1>3 DEF BodyIInv, QuestionComesLast
<1>6. StreamIInv'
  BY <1>1, <1>2, <1>3, NothingCame
<1> QED BY <1>4, <1>5, <1>6 DEF WireIInv

LEMMA StreamChatKeepsWire ==
  ASSUME WireIInv, StreamChat
  PROVE  WireIInv'
<1>1. RouterIInv /\ BodyIInv /\ StreamIInv
  BY DEF WireIInv
<1>2. exchange = "selected" /\ exchange' = "sent"
      /\ UNCHANGED <<configured, up, wanted, chosen, wire, unread, pending, reply>>
  BY DEF StreamChat
<1>3. PICK h \in Histories :
         \E docs :
           body' = [provider |-> chosen.provider, model |-> ModelForStream,
                    messages |-> Assembled(chosen.provider, Append(Past(h), Question), docs)]
  BY DEF StreamChat
<1>4. PICK docs :
         body' = [provider |-> chosen.provider, model |-> ModelForStream,
                  messages |-> Assembled(chosen.provider, Append(Past(h), Question), docs)]
  BY <1>3
<1>5. RouterIInv'
  BY <1>1, <1>2 DEF RouterIInv
<1>6. BodyIInv'
  <2> DEFINE messages == Assembled(chosen.provider, Append(Past(h), Question), docs)
  <2>1. Asks(messages, docs) \/ Asks(messages, 0)
    BY HistoryAsks, AssembledAsks
  <2>2. body'.messages = messages /\ body'.provider = chosen.provider
    BY <1>4
  <2> HIDE DEF messages
  <2>3. QuestionComesLast'
    BY <2>1, <2>2 DEF QuestionComesLast, Asks
  <2> QED BY <1>1, <1>2, <2>2, <2>3 DEF BodyIInv, RouterIInv
<1>7. StreamIInv'
  BY <1>1, <1>2, NothingCame
<1> QED BY <1>5, <1>6, <1>7 DEF WireIInv

LEMMA HeadersKeepWire ==
  ASSUME WireIInv, HeadersArrive
  PROVE  WireIInv'
<1>1. RouterIInv /\ BodyIInv /\ StreamIInv
  BY DEF WireIInv
<1>2. exchange = "sent" /\ exchange' = "streaming"
      /\ UNCHANGED <<configured, up, wanted, chosen, body, unread, pending, reply>>
  BY DEF HeadersArrive
<1>3. wire' \in Seq(Symbols)
  <2>1. PICK script \in Scripts[body.provider] : wire' = Encoded(script)
    BY DEF HeadersArrive
  <2>2. script \in Seq(Frames) /\ MaxResponse \in Nat
    BY <1>1, <1>2, WireAssumption DEF BodyIInv
  <2> QED BY <2>1, <2>2, EncodedIs
<1>4. RouterIInv' /\ BodyIInv'
  BY <1>1, <1>2 DEF RouterIInv, BodyIInv, QuestionComesLast
<1>5. unread' = 1 /\ pending' = <<>> /\ reply' = NoReply
  BY <1>1, <1>2 DEF StreamIInv
<1>6. Arrived' = <<>>
  BY <1>3, <1>5 DEF Arrived
<1>7. Rest(<<>>) = <<>>
  <2>1. Opens(<<>>, 1) \in 1 .. 1
    BY OpensAt
  <2>2. Opens(<<>>, Len(<<>>) + 1) = 1 /\ Len(<<>>) = 0
    BY <2>1
  <2> QED BY <2>2 DEF Rest
<1>8. Processed(body, NoReply, Data(<<>>)) = NoReply
  <2>1. <<>> \in Seq(Symbols)
    OBVIOUS
  <2>2. DataLines(<<>>) = {}
    BY DEF DataLines, Ends
  <2>3. Data(<<>>) \in Seq(Symbols \cup {"noise"}) /\ Len(Data(<<>>)) = 0
    BY <2>1, <2>2, DataIs, FS_EmptySet
  <2>4. MaxResponse \in Nat
    BY WireAssumption
  <2> QED BY <2>3, <2>4, NoReplyIsGood, ProcessedNothing
<1>9. CutsDoNotShow'
  BY <1>2, <1>5, <1>6, <1>8 DEF CutsDoNotShow, Arrived
<1>10. unread' \in 1 .. Len(wire') + 1
  BY <1>3, <1>5
<1>11. StreamIInv'
  BY <1>2, <1>3, <1>5, <1>6, <1>7, <1>9, <1>10, NoReplyIsGood DEF StreamIInv
<1> QED BY <1>4, <1>11 DEF WireIInv

LEMMA ChunkKeepsWire ==
  ASSUME WireIInv, ProcessChunk
  PROVE  WireIInv'
<1>1. RouterIInv /\ BodyIInv /\ StreamIInv
  BY DEF WireIInv
<1>2. exchange = "streaming" /\ exchange' = "streaming" /\ reply.how = "open"
      /\ UNCHANGED <<configured, up, wanted, chosen, body, wire>>
  BY DEF ProcessChunk
<1> DEFINE bytes(n) == pending \o SubSeq(wire, unread, unread + n - 1)
<1>3. PICK n \in Sizes :
         /\ n > 0 /\ unread + n - 1 <= Len(wire)
         /\ pending' = Rest(bytes(n))
         /\ reply' = IF Overlong(bytes(n)) THEN Over(reply, "error")
                     ELSE Processed(body, reply, Data(bytes(n)))
         /\ unread' = unread + n
  BY DEF ProcessChunk
<1> DEFINE p == Arrived
           c == SubSeq(wire, unread, unread + n - 1)
           b == pending \o c
<1>4. RouterIInv' /\ BodyIInv'
  BY <1>1, <1>2 DEF RouterIInv, BodyIInv, QuestionComesLast
<1>5. /\ wire \in Seq(Symbols) /\ unread \in 1 .. Len(wire) + 1 /\ pending = Rest(p)
      /\ reply \in GoodReplies /\ reply = Processed(body, NoReply, Data(p))
  BY <1>1, <1>2 DEF StreamIInv, CutsDoNotShow, Arrived
<1>6. n \in Nat \ {0} /\ Len(wire) \in Nat /\ unread \in Nat \ {0} /\ MaxResponse \in Nat
  BY <1>3, <1>5, WireAssumption DEF Sizes
<1>7. unread' \in 1 .. Len(wire') + 1 /\ wire' = wire /\ unread' = unread + n
  BY <1>2, <1>3, <1>6
<1>8. p \in Seq(Symbols) /\ c \in Seq(Symbols) /\ Arrived' = p \o c
  <2> DEFINE q == SubSeq(wire, 1, unread + n - 1)
  <2>1. /\ p \in Seq(Symbols) /\ Len(p) = unread - 1
        /\ \A i \in 1 .. unread - 1 : p[i] = wire[i]
    BY <1>5, <1>6 DEF Arrived
  <2>2. /\ c \in Seq(Symbols) /\ Len(c) = n
        /\ \A i \in 1 .. n : c[i] = wire[unread + i - 1]
    BY <1>3, <1>5, <1>6
  <2>3. /\ q \in Seq(Symbols) /\ Len(q) = unread + n - 1
        /\ \A i \in 1 .. unread + n - 1 : q[i] = wire[i]
    BY <1>3, <1>5, <1>6
  <2> DEFINE v == p \o c
  <2> HIDE DEF p, c, q
  <2>4. v \in Seq(Symbols) /\ Len(v) = unread + n - 1
    <3>1. v \in Seq(Symbols) /\ Len(v) = Len(p) + Len(c)
      BY <2>1, <2>2, SMTT(30)
    <3> HIDE DEF v
    <3> QED BY <1>6, <2>1, <2>2, <3>1
  <2>5. ASSUME NEW i \in 1 .. unread + n - 1 PROVE v[i] = q[i]
    <3>1. CASE i <= unread - 1
      <4>1. i \in 1 .. unread - 1
        BY <1>6, <3>1
      <4>2. v[i] = p[i]
        BY <2>1, <2>2, <4>1
      <4> QED BY <2>1, <2>3, <4>1, <4>2
    <3>2. CASE i > unread - 1
      <4> DEFINE j == i - (unread - 1)
      <4>1. j \in 1 .. n /\ unread + j - 1 = i /\ j = i - Len(p)
            /\ ~(i <= Len(p)) /\ i \in 1 .. Len(p) + Len(c)
        BY <1>6, <2>1, <2>2, <3>2
      <4> HIDE DEF j
      <4>2. v[i] = c[j]
        BY <2>1, <2>2, <4>1
      <4> HIDE DEF v
      <4> QED BY <2>2, <2>3, <4>1, <4>2
    <3> HIDE DEF v
    <3>3. i <= unread - 1 \/ i > unread - 1
      BY <1>6
    <3> QED BY <3>1, <3>2, <3>3
  <2> HIDE DEF v
  <2>6. v = [i \in 1 .. unread + n - 1 |-> v[i]] /\ q = [i \in 1 .. unread + n - 1 |-> q[i]]
    BY <2>3, <2>4
  <2>7. v = q
    BY <2>5, <2>6
  <2>8. Arrived' = q
    <3>1. Arrived' = SubSeq(wire', 1, unread' - 1)
      BY DEF Arrived
    <3>2. unread' - 1 = unread + n - 1
      BY <1>6, <1>7
    <3> QED BY <1>7, <3>1, <3>2 DEF q
  <2> QED BY <2>1, <2>2, <2>7, <2>8 DEF v
<1>9. bytes(n) = b
  OBVIOUS
<1> HIDE DEF p, c, bytes
<1>10. b \in Seq(Symbols)
  <2>1. Rest(p) \in Seq(Symbols)
    <3>1. PICK off \in 0 .. Len(p) : Rest(p) = SubSeq(p, off + 1, Len(p))
      BY <1>8, RestIs
    <3>2. Len(p) \in Nat
      BY <1>8
    <3> QED BY <1>8, <3>1, <3>2
  <2> QED BY <1>5, <1>8, <2>1
<1>11. Rest(Arrived') = Rest(b) /\ Data(Arrived') = Data(p) \o Data(b)
  BY <1>5, <1>8, ChunkContinues
<1>12. Data(p) \in Seq(Symbols \cup {"noise"}) /\ Data(b) \in Seq(Symbols \cup {"noise"})
  BY <1>8, <1>10, DataIs
<1> HIDE DEF b
<1>13. Processed(body, NoReply, Data(Arrived')) = Processed(body, reply, Data(b))
       /\ Processed(body, reply, Data(b)) \in GoodReplies
  <2> DEFINE x == Data(p)
             y == Data(b)
             T == Symbols \cup {"noise"}
  <2>1. x \in Seq(T) /\ y \in Seq(T) /\ Data(Arrived') = x \o y
    BY <1>11, <1>12
  <2>2. NoReply \in GoodReplies /\ reply = Processed(body, NoReply, x)
    BY <1>5, NoReplyIsGood
  <2> HIDE DEF x, y, T
  <2>3. Processed(body, NoReply, x \o y) = Processed(body, Processed(body, NoReply, x), y)
    BY <1>6, <2>1, <2>2, ProcessedOn
  <2>4. Processed(body, reply, y) \in GoodReplies
    BY <1>5, <1>6, <2>1, ProcessedOn
  <2> QED BY <2>1, <2>2, <2>3, <2>4 DEF y
<1>14. \/ reply' = Over(reply, "error")
       \/ reply' = Processed(body, NoReply, Data(Arrived')) /\ reply' \in GoodReplies
  BY <1>3, <1>9, <1>13
<1>15. reply' \in GoodReplies /\ (reply' = Over(reply, "error") => reply'.how = "error")
  BY <1>5, <1>14, OverIsGood
<1>16. CutsDoNotShow'
  BY <1>2, <1>14, <1>15 DEF CutsDoNotShow, Arrived
<1>17. pending' = Rest(Arrived')
  BY <1>3, <1>9, <1>11
<1>18. StreamIInv'
  BY <1>2, <1>5, <1>7, <1>15, <1>16, <1>17 DEF StreamIInv
<1> QED BY <1>4, <1>18 DEF WireIInv

LEMMA WireKept == WireIInv /\ [WireNext]_wireVars => WireIInv'
<1> SUFFICES ASSUME WireIInv, [WireNext]_wireVars PROVE WireIInv'
  OBVIOUS
<1>1. RouterIInv /\ BodyIInv /\ StreamIInv
  BY DEF WireIInv
<1>2. CASE BreakerTurns
  <2>1. exchange = "routing" /\ up' \subseteq configured
        /\ UNCHANGED <<configured, wanted, chosen, exchange, body, wire, unread, pending, reply>>
    BY <1>1, <1>2 DEF BreakerTurns, RouterIInv
  <2>2. RouterIInv' /\ BodyIInv'
    BY <1>1, <2>1 DEF RouterIInv, BodyIInv, QuestionComesLast
  <2>3. StreamIInv'
    BY <1>1, <2>1, NothingCame
  <2> QED BY <2>2, <2>3 DEF WireIInv
<1>3. CASE DropUnmeasured \/ AnswerRefused
  <2>1. exchange \in {"selected", "sent"} /\ exchange' \in {"unmeasurable", "throttled", "failed"}
        /\ UNCHANGED <<configured, up, wanted, chosen, body, wire, unread, pending, reply>>
    BY <1>3 DEF DropUnmeasured, AnswerRefused, Refuse
  <2>2. RouterIInv' /\ BodyIInv'
    BY <1>1, <2>1 DEF RouterIInv, BodyIInv, QuestionComesLast
  <2>3. StreamIInv'
    BY <1>1, <2>1, NothingCame
  <2> QED BY <2>2, <2>3 DEF WireIInv
<1>4. CASE AnswerDone \/ AnswerTruncated \/ AnswerBreaks \/ ConnectionCloses
  <2>1. exchange = "streaming" /\ exchange' \in {"answered", "truncated", "failed"}
        /\ (exchange' = "answered" => reply.how \in {"open", "done"})
        /\ UNCHANGED <<configured, up, wanted, chosen, body, wire, unread, pending, reply>>
    BY <1>4 DEF AnswerDone, AnswerTruncated, AnswerBreaks, ConnectionCloses, Ended
  <2>2. RouterIInv' /\ BodyIInv'
    BY <1>1, <2>1 DEF RouterIInv, BodyIInv, QuestionComesLast
  <2>3. CutsDoNotShow'
    BY <1>1, <2>1 DEF StreamIInv, CutsDoNotShow
  <2>4. StreamIInv'
    BY <1>1, <2>1, <2>3 DEF StreamIInv
  <2> QED BY <2>2, <2>4 DEF WireIInv
<1>5. CASE UNCHANGED wireVars
  BY <1>5 DEF wireVars, WireIInv, RouterIInv, BodyIInv, StreamIInv, QuestionComesLast, Arrived,
              CutsDoNotShow
<1> QED BY <1>2, <1>3, <1>4, <1>5, GetProviderKeepsWire, StreamChatKeepsWire, HeadersKeepWire,
           ChunkKeepsWire DEF WireNext

LEMMA WireIInvImplies == WireIInv => WireInv
<1> SUFFICES ASSUME WireIInv PROVE WireInv
  OBVIOUS
<1>1. RouterIInv /\ BodyIInv /\ StreamIInv
  BY DEF WireIInv
<1>2. reply \in GoodReplies /\ reply \in Replies /\ MaxResponse \in Nat
  BY <1>1, WireAssumption DEF StreamIInv, GoodReplies
<1>3. WireTypeOK
  BY <1>1, <1>2 DEF WireTypeOK, RouterIInv, StreamIInv, Replies
<1>4. CompleteIsWhole
  <2> SUFFICES ASSUME exchange = "answered"
               PROVE  LET data == Data(SubSeq(wire, 1, unread - 1))
                      IN  Cardinality({i \in DOMAIN reply.text : reply.text[i] = 0})
                            = Cardinality({i \in DOMAIN data :
                                /\ data[i] \in {"text", "text_finish"}
                                /\ \A j \in 1 .. i - 1 : data[j] \notin {"done", "finish"}})
    BY DEF CompleteIsWhole
  <2> DEFINE data == Data(Arrived)
  <2>1. reply.how \in {"open", "done"} /\ reply = Processed(body, NoReply, data)
    BY <1>1 DEF StreamIInv, CutsDoNotShow, Arrived
  <2>2. Arrived \in Seq(Symbols)
    BY <1>1 DEF StreamIInv, Arrived
  <2>3. data \in Seq(Symbols \cup {"noise"})
    BY <2>2, DataIs
  <2>4. data = Data(SubSeq(wire, 1, unread - 1))
    BY DEF Arrived
  <2> HIDE DEF data
  <2>5. HasWords(reply, data, Len(data))
    BY <1>2, <2>1, <2>3, ProcessedHasWords
  <2>6. DOMAIN data = 1 .. Len(data)
    BY <2>3
  <2>7. Cardinality(Zeros(reply.text)) = Cardinality(Words(data, Len(data)))
    BY <2>1, <2>5 DEF HasWords
  <2>8. Words(data, Len(data)) =
          {i \in DOMAIN data : /\ data[i] \in {"text", "text_finish"}
                               /\ \A j \in 1 .. i - 1 : data[j] \notin {"done", "finish"}}
    BY <2>6 DEF Words, Closing
  <2>9. Zeros(reply.text) = {i \in DOMAIN reply.text : reply.text[i] = 0}
    BY DEF Zeros
  <2> QED BY <2>4, <2>7, <2>8, <2>9
<1>5. NumbersNameDocuments
  BY <1>2 DEF NumbersNameDocuments, GoodReplies, Marked
<1> QED BY <1>1, <1>3, <1>4, <1>5 DEF WireInv, BodyIInv, StreamIInv

(* For any providers, catalogue, histories, streams of frames and limits:  *)
(* the question is the last message, once, with its documents; the answer  *)
(* is what the lines that arrived say when they are read at once, wherever *)
(* the network cut them; one that is taken as complete has every word that *)
(* was sent before its end; and a marker's number names the document its   *)
(* citation does (SseFrameBuffer, process_chunk).                          *)
THEOREM AnswersArriveWhole == WireSpec => []WireInv
<1>1. WireInit => WireIInv
  BY WireIInvStarts
<1> QED BY <1>1, WireKept, WireIInvImplies, PTL DEF WireSpec

-----------------------------------------------------------------------------
(* The limit on incoming requests.                                         *)

CheckRecord ==
  [at : {"out", "redis", "read", "write"}, delay : 0 .. MaxDelay, window : {"this", "last"}]

RateTyped ==
  /\ distributed \in BOOLEAN
  /\ counts \in [{"this", "last"} -> 0 .. PerMinute + 1] /\ untilNext \in 1 .. Interval
  /\ bucket = NoBucket \/ bucket \in [tokens : 0 .. PerMinute - 1, age : Nat]
  /\ check \in [Checks -> CheckRecord]
  /\ sweep \in [at : {"asleep", "retain"}, delay : 0 .. MaxDelay]
  /\ granted \subseteq Grants /\ IsFiniteSet(granted)

(* Since the window began.                                                 *)
Begun == Interval - untilNext

(* A request is counted in the window before only while it is held up, and *)
(* Redis is asked only where there is one.                                 *)
ChecksFit ==
  \A c \in Checks :
    /\ check[c].window = "last" => check[c].at # "out" /\ check[c].delay > Begun
    /\ check[c].at = "redis" => distributed

(* Let through since the bucket was refilled for certain, the request that *)
(* refilled it not among them; and since the window of Redis began.        *)
SinceRefill == {g \in GrantsBy("bucket") : g.age + MaxDelay < bucket.age}
SinceBegun == {g \in GrantsBy("redis") : g.age + MaxDelay <= Begun}

Allowed(n) == IF n <= PerMinute THEN n ELSE PerMinute

BucketFits ==
  IF bucket = NoBucket THEN Cardinality(GrantsBy("bucket")) <= PerMinute - 1
  ELSE /\ Cardinality(GrantsBy("bucket")) + bucket.tokens <= 2 * PerMinute - 1
       /\ Cardinality(SinceRefill) + bucket.tokens <= PerMinute - 1

CountsFit ==
  /\ Cardinality(GrantsBy("redis")) <= Allowed(counts["this"]) + Allowed(counts["last"])
  /\ Cardinality(SinceBegun) <= Allowed(counts["this"])
  /\ ~distributed => GrantsBy("redis") = {}

RateIInv == RateTyped /\ ChecksFit /\ BucketFits /\ CountsFit

-----------------------------------------------------------------------------
LEMMA NoMoreThanThose ==
  ASSUME NEW S, IsFiniteSet(S), NEW T, T \subseteq S
  PROVE  IsFiniteSet(T) /\ Cardinality(T) \in Nat /\ Cardinality(S) \in Nat /\ Cardinality(T) <= Cardinality(S)
<1>1. T \in SUBSET S
  OBVIOUS
<1> QED
  BY <1>1, FS_Subset, FS_CardinalityType

LEMMA OneMoreThanThose ==
  ASSUME NEW S, IsFiniteSet(S), NEW x, NEW T, T \subseteq S \cup {x}
  PROVE  /\ IsFiniteSet(T) /\ Cardinality(T) \in Nat /\ Cardinality(S) \in Nat
         /\ Cardinality(T) <= Cardinality(S) + 1
<1> DEFINE U == S \cup {x}
<1>1. IsFiniteSet(U) /\ Cardinality(U) \in {Cardinality(S), Cardinality(S) + 1}
  BY FS_AddElement
<1>2. T \subseteq U
  OBVIOUS
<1> HIDE DEF U
<1>3. Cardinality(S) \in Nat
  BY FS_CardinalityType
<1> QED
  BY <1>1, <1>2, <1>3, NoMoreThanThose

LEMMA NoMoreWhenOlder ==
  ASSUME NEW S, IsFiniteSet(S), NEW T, \A t \in T : \E g \in S : t = [g EXCEPT !.age = @ + 1]
  PROVE  IsFiniteSet(T) /\ Cardinality(T) \in Nat /\ Cardinality(S) \in Nat /\ Cardinality(T) <= Cardinality(S)
<1> DEFINE older(g) == [g EXCEPT !.age = @ + 1]
           U == {g \in S : older(g) \in T}
           f == [g \in U |-> older(g)]
<1>1. f \in Surjection(U, T)
  BY DEF Surjection
<1>2. U \subseteq S
  OBVIOUS
<1> HIDE DEF U, f
<1>3. IsFiniteSet(U) /\ Cardinality(U) \in Nat /\ Cardinality(S) \in Nat /\ Cardinality(U) <= Cardinality(S)
  BY <1>2, NoMoreThanThose
<1>4. IsFiniteSet(T) /\ Cardinality(T) <= Cardinality(U)
  BY <1>1, <1>3, FS_Surjection
<1>5. Cardinality(T) \in Nat
  BY <1>4, FS_CardinalityType
<1> QED
  BY <1>3, <1>4, <1>5

LEMMA GrantsAreFinite ==
  ASSUME RateTyped
  PROVE  /\ \A who \in {"redis", "bucket"} :
              IsFiniteSet(GrantsBy(who)) /\ Cardinality(GrantsBy(who)) \in Nat
         /\ IsFiniteSet(SinceRefill) /\ Cardinality(SinceRefill) \in Nat
         /\ IsFiniteSet(SinceBegun) /\ Cardinality(SinceBegun) \in Nat
<1>1. IsFiniteSet(granted)
  BY DEF RateTyped
<1>2. \A who \in {"redis", "bucket"} : GrantsBy(who) \subseteq granted
  BY DEF GrantsBy
<1>3. SinceRefill \subseteq granted /\ SinceBegun \subseteq granted
  BY DEF GrantsBy, SinceRefill, SinceBegun
<1> QED
  BY <1>1, <1>2, <1>3, NoMoreThanThose

(* One request more is let through.                                        *)
LEMMA GrantAdds ==
  ASSUME RateTyped, NEW who \in {"redis", "bucket"}, Grant(who)
  PROVE  \E g \in Grants :
           /\ g.by = who /\ g.age = 0
           /\ granted' = granted \cup {g} /\ granted' \subseteq Grants /\ IsFiniteSet(granted')
<1> DEFINE now == {h \in GrantsBy(who) : h.age = 0}
           g == [by |-> who, age |-> 0, nth |-> Cardinality(now) + 1]
<1>1. granted' = granted \cup {g}
  BY DEF Grant
<1>2. IsFiniteSet(granted) /\ granted \subseteq Grants
  BY DEF RateTyped
<1>3. now \subseteq granted
  BY DEF GrantsBy
<1> HIDE DEF now
<1>4. Cardinality(now) \in Nat
  BY <1>2, <1>3, NoMoreThanThose
<1>5. g \in Grants
  BY <1>4, RateAssumption DEF Grants, Recent
<1>6. g.by = who /\ g.age = 0
  OBVIOUS
<1> HIDE DEF g
<1>7. IsFiniteSet(granted')
  BY <1>1, <1>2, FS_AddElement
<1> QED
  BY <1>1, <1>2, <1>5, <1>6, <1>7

LEMMA GrantTypes ==
  ASSUME RateTyped, NEW g \in granted
  PROVE  g \in Grants /\ g.age \in Nat /\ g.age < Interval - MaxDelay /\ g.by \in {"redis", "bucket"}
BY RateAssumption DEF RateTyped, Grants, Recent

LEMMA RateStarts == RateInit => RateIInv
<1> SUFFICES ASSUME RateInit PROVE RateIInv
  OBVIOUS
<1>1. /\ granted = {} /\ bucket = NoBucket /\ counts = [this |-> 0, last |-> 0]
      /\ distributed \in BOOLEAN /\ untilNext \in 1 .. Interval
      /\ check = [c \in Checks |-> Out] /\ sweep = Asleep
  BY DEF RateInit
<1>2. GrantsBy("redis") = {} /\ GrantsBy("bucket") = {} /\ SinceBegun = {}
  BY <1>1 DEF GrantsBy, SinceBegun
<1>3. Cardinality({}) = 0 /\ IsFiniteSet({})
  BY FS_EmptySet
<1>4. counts["this"] = 0 /\ counts["last"] = 0 /\ counts \in [{"this", "last"} -> 0 .. PerMinute + 1]
  BY <1>1, RateAssumption
<1>5. Out.window = "this" /\ Out.at = "out"
  BY DEF Out
<1>6. Out \in CheckRecord
      /\ Asleep \in [at : {"asleep", "retain"}, delay : 0 .. MaxDelay]
  BY RateAssumption DEF Out, Asleep, CheckRecord
<1>7. RateTyped
  BY <1>1, <1>3, <1>4, <1>6 DEF RateTyped
<1>8. ChecksFit
  BY <1>1, <1>5 DEF ChecksFit
<1>9. BucketFits
  BY <1>1, <1>2, <1>3, RateAssumption DEF BucketFits
<1>10. CountsFit
  BY <1>2, <1>3, <1>4, RateAssumption DEF CountsFit, Allowed
<1> QED
  BY <1>7, <1>8, <1>9, <1>10 DEF RateIInv

(* What no request and no clock touches.                                   *)
LEMMA BucketFrame ==
  ASSUME BucketFits, UNCHANGED bucket, GrantsBy("bucket")' = GrantsBy("bucket")
  PROVE  BucketFits'
<1>1. SinceRefill' = SinceRefill
  BY DEF SinceRefill
<1> QED
  BY <1>1 DEF BucketFits

LEMMA CountsFrame ==
  ASSUME RateTyped, CountsFit, UNCHANGED <<distributed, untilNext>>,
         GrantsBy("redis")' = GrantsBy("redis"),
         counts' \in [{"this", "last"} -> 0 .. PerMinute + 1],
         counts["this"] <= counts'["this"], counts["last"] <= counts'["last"]
  PROVE  CountsFit'
<1>1. SinceBegun' = SinceBegun
  BY DEF SinceBegun, Begun
<1>2. /\ counts["this"] \in Nat /\ counts["last"] \in Nat
      /\ counts'["this"] \in Nat /\ counts'["last"] \in Nat /\ PerMinute \in Nat
  BY RateAssumption DEF RateTyped
<1>3. /\ Allowed(counts["this"]) <= Allowed(counts'["this"]) /\ Allowed(counts["this"]) \in Nat
      /\ Allowed(counts["last"]) <= Allowed(counts'["last"]) /\ Allowed(counts["last"]) \in Nat
      /\ Allowed(counts'["this"]) \in Nat /\ Allowed(counts'["last"]) \in Nat
  BY <1>2 DEF Allowed
<1>4. Cardinality(GrantsBy("redis")) \in Nat /\ Cardinality(SinceBegun) \in Nat
  BY GrantsAreFinite
<1>5. /\ Cardinality(GrantsBy("redis")) <= Allowed(counts'["this"]) + Allowed(counts'["last"])
      /\ Cardinality(SinceBegun) <= Allowed(counts'["this"])
      /\ ~distributed' => GrantsBy("redis") = {}
  BY <1>3, <1>4 DEF CountsFit
<1>6. /\ Cardinality(GrantsBy("redis")') <= Allowed(counts'["this"]) + Allowed(counts'["last"])
      /\ Cardinality(SinceBegun') <= Allowed(counts'["this"])
      /\ ~distributed' => GrantsBy("redis")' = {}
  BY <1>1, <1>5
<1> QED
  BY <1>6 DEF CountsFit, Allowed

LEMMA ChecksFrame ==
  ASSUME RateTyped, ChecksFit, NEW c \in Checks, NEW r,
         r \in CheckRecord,
         check' = [check EXCEPT ![c] = r], UNCHANGED <<distributed, untilNext>>,
         r.window = "last" => r.at # "out" /\ r.delay > Begun, r.at = "redis" => distributed
  PROVE  /\ ChecksFit'
         /\ check' \in [Checks -> CheckRecord]
<1>1. \A d \in Checks : check'[d] = IF d = c THEN r ELSE check[d]
  BY DEF RateTyped
<1>2. Begun' = Begun
  BY DEF Begun
<1>3. ChecksFit'
  BY <1>1, <1>2 DEF ChecksFit
<1> QED
  BY <1>3 DEF RateTyped

LEMMA OutFits == Out \in CheckRecord /\ Out.window = "this" /\ Out.at = "out"
BY RateAssumption DEF Out, CheckRecord

(* A check goes on to another place with the time it has.                  *)
LEMMA PlaceFits ==
  ASSUME NEW r \in CheckRecord, NEW at \in {"out", "redis", "read", "write"}
  PROVE  /\ [r EXCEPT !.at = at] \in CheckRecord /\ [r EXCEPT !.at = at].at = at
         /\ [r EXCEPT !.at = at].window = r.window /\ [r EXCEPT !.at = at].delay = r.delay
BY DEF CheckRecord

LEMMA ArriveKeepsRate ==
  ASSUME RateIInv, NEW c \in Checks, Arrive(c)
  PROVE  RateIInv'
<1> DEFINE to == IF distributed THEN "redis" ELSE "read"
           r == [check[c] EXCEPT !.at = to]
<1>1. /\ UNCHANGED <<distributed, counts, untilNext, bucket, sweep, granted>>
      /\ check' = [check EXCEPT ![c] = r]
  BY DEF Arrive
<1>2. RateTyped /\ ChecksFit /\ BucketFits /\ CountsFit
  BY DEF RateIInv
<1>3. check[c] \in CheckRecord /\ to \in {"out", "redis", "read", "write"}
  BY <1>2 DEF RateTyped
<1>4. r \in CheckRecord /\ r.at = to /\ r.window = check[c].window /\ r.delay = check[c].delay
  BY <1>3, PlaceFits
<1>5. (r.window = "last" => r.at # "out" /\ r.delay > Begun) /\ (r.at = "redis" => distributed)
  BY <1>2, <1>4 DEF ChecksFit
<1> HIDE DEF r
<1>6. ChecksFit' /\ check' \in [Checks -> CheckRecord]
  BY <1>1, <1>2, <1>4, <1>5, ChecksFrame
<1>7. RateTyped'
  BY <1>1, <1>2, <1>6 DEF RateTyped
<1>8. GrantsBy("bucket")' = GrantsBy("bucket") /\ GrantsBy("redis")' = GrantsBy("redis")
  BY <1>1 DEF GrantsBy
<1>9. BucketFits' /\ CountsFit'
  <2>1. counts' \in [{"this", "last"} -> 0 .. PerMinute + 1] /\ counts' = counts
    BY <1>1, <1>2 DEF RateTyped
  <2>2. counts["this"] <= counts'["this"] /\ counts["last"] <= counts'["last"]
    BY <2>1
  <2> QED
    BY <1>1, <1>2, <1>8, <2>1, <2>2, BucketFrame, CountsFrame
<1> QED
  BY <1>6, <1>7, <1>9 DEF RateIInv

(* INCR, on a key that is not far past the limit yet.                      *)
LEMMA IncrFits ==
  ASSUME RateTyped, NEW c \in Checks, Incr(c)
  PROVE  /\ counts' \in [{"this", "last"} -> 0 .. PerMinute + 1]
         /\ counts["this"] <= counts'["this"] /\ counts["last"] <= counts'["last"]
         /\ check[c].window \in {"this", "last"}
         /\ counts'[check[c].window] <= PerMinute =>
              \A w \in {"this", "last"} :
                counts'[w] = IF w = check[c].window THEN counts[w] + 1 ELSE counts[w]
<1> DEFINE w == check[c].window
           n == IF counts[w] > PerMinute THEN counts[w] ELSE counts[w] + 1
<1>1. w \in {"this", "last"} /\ counts \in [{"this", "last"} -> 0 .. PerMinute + 1] /\ PerMinute \in Nat
  BY RateAssumption DEF RateTyped, CheckRecord
<1>2. counts' = [counts EXCEPT ![w] = n]
  BY DEF Incr
<1>3. counts[w] \in 0 .. PerMinute + 1
  BY <1>1
<1> HIDE DEF w
<1>4. n \in 0 .. PerMinute + 1 /\ counts[w] <= n /\ (n <= PerMinute => n = counts[w] + 1)
  BY <1>1, <1>3
<1> HIDE DEF n
<1>5. \A v \in {"this", "last"} : counts'[v] = IF v = w THEN n ELSE counts[v]
  BY <1>1, <1>2
<1>6. counts' \in [{"this", "last"} -> 0 .. PerMinute + 1]
  BY <1>1, <1>2, <1>4
<1>7. \A v \in {"this", "last"} : counts[v] \in Nat
  BY <1>1
<1>8. counts["this"] <= counts'["this"] /\ counts["last"] <= counts'["last"]
  BY <1>1, <1>4, <1>5, <1>7
<1>9. counts'[w] <= PerMinute =>
        \A v \in {"this", "last"} : counts'[v] = IF v = w THEN counts[v] + 1 ELSE counts[v]
  BY <1>1, <1>4, <1>5
<1> QED
  BY <1>1, <1>6, <1>8, <1>9 DEF w

LEMMA CountedKeepsRate ==
  ASSUME RateIInv, NEW c \in Checks, Counted(c)
  PROVE  RateIInv'
<1>1. /\ UNCHANGED <<distributed, untilNext, bucket, sweep>> /\ check' = [check EXCEPT ![c] = Out]
      /\ Incr(c)
  BY DEF Counted, GoOn
<1>2. RateTyped /\ ChecksFit /\ BucketFits /\ CountsFit
  BY DEF RateIInv
<1>3. ChecksFit' /\ check' \in [Checks -> CheckRecord]
  BY <1>1, <1>2, OutFits, ChecksFrame
<1>4. /\ counts' \in [{"this", "last"} -> 0 .. PerMinute + 1]
      /\ counts["this"] <= counts'["this"] /\ counts["last"] <= counts'["last"]
      /\ check[c].window \in {"this", "last"}
  BY <1>1, <1>2, IncrFits
<1>5. CASE counts'[check[c].window] > PerMinute
  <2>1. granted' = granted
    BY <1>1, <1>2, <1>4, <1>5, RateAssumption DEF Counted, RateTyped
  <2>2. GrantsBy("bucket")' = GrantsBy("bucket") /\ GrantsBy("redis")' = GrantsBy("redis")
    BY <2>1 DEF GrantsBy
  <2>3. RateTyped'
    BY <1>1, <1>2, <1>3, <1>4, <2>1 DEF RateTyped
  <2> QED
    BY <1>1, <1>2, <1>3, <1>4, <2>2, <2>3, BucketFrame, CountsFrame DEF RateIInv
<1>6. CASE counts'[check[c].window] <= PerMinute
  <2>1. PICK g \in Grants :
          /\ g.by = "redis" /\ g.age = 0
          /\ granted' = granted \cup {g} /\ granted' \subseteq Grants /\ IsFiniteSet(granted')
    BY <1>2, <1>6, GrantAdds DEF Counted
  <2>2. RateTyped'
    BY <1>1, <1>2, <1>3, <1>4, <2>1 DEF RateTyped
  <2>3. GrantsBy("bucket")' = GrantsBy("bucket") /\ GrantsBy("redis")' \subseteq GrantsBy("redis") \cup {g}
    BY <2>1 DEF GrantsBy
  <2>4. BucketFits'
    BY <1>1, <1>2, <2>3, BucketFrame
  <2>5. distributed /\ (check[c].window = "last" => check[c].delay > Begun) /\ check[c].delay <= MaxDelay
    <3>1. check[c] \in CheckRecord /\ check[c].at = "redis"
      BY <1>1, <1>2 DEF Incr, RateTyped
    <3>2. check[c].delay \in 0 .. MaxDelay
      BY <3>1 DEF CheckRecord
    <3> QED
      BY <1>2, <3>1, <3>2, RateAssumption DEF ChecksFit
  <2>6. \A w \in {"this", "last"} :
          counts'[w] = IF w = check[c].window THEN counts[w] + 1 ELSE counts[w]
    BY <1>1, <1>2, <1>6, IncrFits
  <2>7. /\ IsFiniteSet(GrantsBy("redis")) /\ IsFiniteSet(SinceBegun)
        /\ Cardinality(GrantsBy("redis")) \in Nat /\ Cardinality(SinceBegun) \in Nat
        /\ Cardinality(GrantsBy("redis")') \in Nat /\ Cardinality(SinceBegun') \in Nat
    <3>1. GrantsBy("redis")' \subseteq granted' /\ SinceBegun' \subseteq granted'
      BY DEF GrantsBy, SinceBegun
    <3> QED
      BY <1>2, <2>1, <3>1, GrantsAreFinite, NoMoreThanThose
  <2>8. Cardinality(GrantsBy("redis")') <= Cardinality(GrantsBy("redis")) + 1
    BY <2>3, <2>7, OneMoreThanThose
  <2>9. /\ Cardinality(SinceBegun') <= Cardinality(SinceBegun) + 1
        /\ check[c].window = "last" => Cardinality(SinceBegun') <= Cardinality(SinceBegun)
    <3>1. Begun' = Begun /\ Begun \in Int /\ MaxDelay \in Nat /\ check[c].delay \in Nat
      BY <1>1, <1>2, RateAssumption DEF Begun, RateTyped, CheckRecord
    <3>2. SinceBegun' \subseteq SinceBegun \cup {g}
      BY <2>3, <3>1 DEF SinceBegun
    <3>3. ASSUME check[c].window = "last"
          PROVE  SinceBegun' \subseteq SinceBegun
      <4>1. ~(g.age + MaxDelay <= Begun)
        BY <2>1, <2>5, <3>1, <3>3
      <4> QED
        BY <2>3, <3>1, <4>1 DEF SinceBegun
    <3> QED
      BY <2>7, <3>2, <3>3, OneMoreThanThose, NoMoreThanThose
  <2>10. /\ counts["this"] \in Nat /\ counts["last"] \in Nat
         /\ counts'["this"] \in Nat /\ counts'["last"] \in Nat /\ PerMinute \in Nat
    BY <1>2, <1>4, RateAssumption DEF RateTyped
  <2>11. /\ Cardinality(GrantsBy("redis")) <= Allowed(counts["this"]) + Allowed(counts["last"])
         /\ Cardinality(SinceBegun) <= Allowed(counts["this"])
    BY <1>2 DEF CountsFit
  <2>12. ASSUME check[c].window = "this" PROVE CountsFit'
    <3>1. counts'["this"] = counts["this"] + 1 /\ counts'["last"] = counts["last"] /\ counts'["this"] <= PerMinute
      BY <1>6, <2>6, <2>12
    <3>2. Allowed(counts'["this"]) = Allowed(counts["this"]) + 1 /\ Allowed(counts'["last"]) = Allowed(counts["last"])
          /\ Allowed(counts["this"]) \in Nat /\ Allowed(counts["last"]) \in Nat
      BY <2>10, <3>1 DEF Allowed
    <3>3. /\ Cardinality(GrantsBy("redis")') <= Allowed(counts'["this"]) + Allowed(counts'["last"])
          /\ Cardinality(SinceBegun') <= Allowed(counts'["this"])
      BY <2>7, <2>8, <2>9, <2>11, <3>2
    <3> QED
      BY <1>1, <2>5, <3>3 DEF CountsFit, Allowed
  <2>13. ASSUME check[c].window = "last" PROVE CountsFit'
    <3>1. counts'["last"] = counts["last"] + 1 /\ counts'["this"] = counts["this"] /\ counts'["last"] <= PerMinute
      BY <1>6, <2>6, <2>13
    <3>2. Allowed(counts'["last"]) = Allowed(counts["last"]) + 1 /\ Allowed(counts'["this"]) = Allowed(counts["this"])
          /\ Allowed(counts["this"]) \in Nat /\ Allowed(counts["last"]) \in Nat
      BY <2>10, <3>1 DEF Allowed
    <3>3. /\ Cardinality(GrantsBy("redis")') <= Allowed(counts'["this"]) + Allowed(counts'["last"])
          /\ Cardinality(SinceBegun') <= Allowed(counts'["this"])
      BY <2>7, <2>8, <2>9, <2>11, <2>13, <3>2
    <3> QED
      BY <1>1, <2>5, <3>3 DEF CountsFit, Allowed
  <2>14. CountsFit'
    BY <1>4, <2>12, <2>13
  <2> QED
    BY <1>3, <2>2, <2>4, <2>14 DEF RateIInv
<1> QED
  BY <1>2, <1>4, <1>5, <1>6, RateAssumption

LEMMA RedisFailsKeepsRate ==
  ASSUME RateIInv, NEW c \in Checks, RedisFails(c)
  PROVE  RateIInv'
<1> DEFINE r == [Out EXCEPT !.at = "read"]
<1>1. /\ UNCHANGED <<distributed, untilNext, bucket, sweep, granted>>
      /\ check' = [check EXCEPT ![c] = r] /\ (counts' = counts \/ Incr(c))
  BY DEF RedisFails
<1>2. RateTyped /\ ChecksFit /\ BucketFits /\ CountsFit
  BY DEF RateIInv
<1>3. r \in CheckRecord /\ r.at = "read" /\ r.window = "this"
  BY OutFits, PlaceFits
<1> HIDE DEF r
<1>4. ChecksFit' /\ check' \in [Checks -> CheckRecord]
  BY <1>1, <1>2, <1>3, ChecksFrame
<1>5. /\ counts' \in [{"this", "last"} -> 0 .. PerMinute + 1]
      /\ counts["this"] <= counts'["this"] /\ counts["last"] <= counts'["last"]
  <2>1. CASE counts' = counts
    BY <1>2, <2>1 DEF RateTyped
  <2> QED
    BY <1>1, <1>2, <2>1, IncrFits
<1>6. RateTyped'
  BY <1>1, <1>2, <1>4, <1>5 DEF RateTyped
<1>7. GrantsBy("bucket")' = GrantsBy("bucket") /\ GrantsBy("redis")' = GrantsBy("redis")
  BY <1>1 DEF GrantsBy
<1> QED
  BY <1>1, <1>2, <1>4, <1>5, <1>6, <1>7, BucketFrame, CountsFrame DEF RateIInv

LEMMA ReadPathKeepsRate ==
  ASSUME RateIInv, NEW c \in Checks, ReadPath(c)
  PROVE  RateIInv'
<1> DEFINE w == [check[c] EXCEPT !.at = "write"]
<1>1. /\ UNCHANGED <<distributed, counts, untilNext, bucket, sweep, granted>>
      /\ check' = [check EXCEPT ![c] = Out] \/ check' = [check EXCEPT ![c] = w]
  BY DEF ReadPath, GoOn
<1>2. RateTyped /\ ChecksFit /\ BucketFits /\ CountsFit
  BY DEF RateIInv
<1>3. check[c] \in CheckRecord
  BY <1>2 DEF RateTyped
<1>4. w \in CheckRecord /\ w.at = "write" /\ w.window = check[c].window /\ w.delay = check[c].delay
  BY <1>3, PlaceFits
<1>5. (w.window = "last" => w.at # "out" /\ w.delay > Begun)
  BY <1>2, <1>4 DEF ChecksFit
<1> HIDE DEF w
<1>6. ChecksFit' /\ check' \in [Checks -> CheckRecord]
  BY <1>1, <1>2, <1>4, <1>5, OutFits, ChecksFrame
<1>7. RateTyped'
  BY <1>1, <1>2, <1>6 DEF RateTyped
<1>8. GrantsBy("bucket")' = GrantsBy("bucket") /\ GrantsBy("redis")' = GrantsBy("redis")
  BY <1>1 DEF GrantsBy
<1>9. BucketFits' /\ CountsFit'
  <2>1. counts' \in [{"this", "last"} -> 0 .. PerMinute + 1] /\ counts' = counts
    BY <1>1, <1>2 DEF RateTyped
  <2>2. counts["this"] <= counts'["this"] /\ counts["last"] <= counts'["last"]
    BY <2>1
  <2> QED
    BY <1>1, <1>2, <1>8, <2>1, <2>2, BucketFrame, CountsFrame
<1> QED
  BY <1>6, <1>7, <1>9 DEF RateIInv

(* A bucket that is an interval old was refilled before anything the       *)
(* history still holds.                                                    *)
LEMMA OldBucketLetFewThrough ==
  ASSUME RateTyped, BucketFits, bucket # NoBucket, NEW d \in 0 .. MaxDelay, Elapsed(d) >= Interval
  PROVE  Cardinality(GrantsBy("bucket")) <= PerMinute - 1
<1>1. /\ bucket.age \in Nat /\ bucket.tokens \in Nat /\ Interval \in Nat /\ MaxDelay \in Nat
      /\ Interval > MaxDelay /\ d \in Nat /\ PerMinute \in Nat
  BY RateAssumption DEF RateTyped
<1>2. bucket.age >= Interval
  BY <1>1 DEF Elapsed
<1>3. GrantsBy("bucket") \subseteq SinceRefill
  <2> SUFFICES ASSUME NEW g \in GrantsBy("bucket") PROVE g.age + MaxDelay < bucket.age
    BY DEF SinceRefill
  <2>1. g.age \in Nat /\ g.age < Interval - MaxDelay
    BY GrantTypes DEF GrantsBy
  <2> QED
    BY <1>1, <1>2, <2>1
<1>4. IsFiniteSet(SinceRefill) /\ Cardinality(SinceRefill) \in Nat
  BY GrantsAreFinite
<1>5. /\ Cardinality(GrantsBy("bucket")) <= Cardinality(SinceRefill)
      /\ Cardinality(GrantsBy("bucket")) \in Nat
  BY <1>3, <1>4, NoMoreThanThose
<1>6. Cardinality(SinceRefill) + bucket.tokens <= PerMinute - 1
  BY DEF BucketFits
<1> QED
  BY <1>1, <1>4, <1>5, <1>6

LEMMA WritePathKeepsRate ==
  ASSUME RateIInv, NEW c \in Checks, WritePath(c)
  PROVE  RateIInv'
<1> DEFINE d == check[c].delay
           b == Filled(d)
<1>1. /\ UNCHANGED <<distributed, counts, untilNext, sweep>> /\ check' = [check EXCEPT ![c] = Out]
      /\ IF b.tokens > 0 THEN bucket' = [b EXCEPT !.tokens = @ - 1] /\ Grant("bucket")
         ELSE bucket' = b /\ granted' = granted
  BY DEF WritePath, GoOn
<1>2. RateTyped /\ ChecksFit /\ BucketFits /\ CountsFit
  BY DEF RateIInv
<1>3. ChecksFit' /\ check' \in [Checks -> CheckRecord]
  BY <1>1, <1>2, OutFits, ChecksFrame
<1>4. d \in 0 .. MaxDelay /\ d \in Nat /\ MaxDelay \in Nat /\ PerMinute \in Nat \ {0}
  BY <1>2, RateAssumption DEF RateTyped, CheckRecord
<1> HIDE DEF d
<1>5. counts' \in [{"this", "last"} -> 0 .. PerMinute + 1] /\ counts' = counts
      /\ counts["this"] <= counts'["this"] /\ counts["last"] <= counts'["last"]
  <2>1. counts \in [{"this", "last"} -> 0 .. PerMinute + 1]
    BY <1>2 DEF RateTyped
  <2> QED
    BY <1>1, <2>1
<1>6. CASE bucket = NoBucket \/ Elapsed(d) >= Interval
  <2>1. b = [tokens |-> PerMinute, age |-> d]
    BY <1>6 DEF Filled
  <2>2. bucket' = [tokens |-> PerMinute - 1, age |-> d] /\ Grant("bucket")
    BY <1>1, <1>4, <2>1
  <2>3. bucket'.tokens = PerMinute - 1 /\ bucket'.age = d
        /\ bucket' \in [tokens : 0 .. PerMinute - 1, age : Nat] /\ bucket' # NoBucket
    BY <1>4, <2>2 DEF NoBucket
  <2>4. PICK g \in Grants :
          /\ g.by = "bucket" /\ g.age = 0
          /\ granted' = granted \cup {g} /\ granted' \subseteq Grants /\ IsFiniteSet(granted')
    BY <1>2, <2>2, GrantAdds
  <2>5. RateTyped'
    BY <1>1, <1>2, <1>3, <1>5, <2>3, <2>4 DEF RateTyped
  <2>6. GrantsBy("redis")' = GrantsBy("redis") /\ GrantsBy("bucket")' \subseteq GrantsBy("bucket") \cup {g}
    BY <2>4 DEF GrantsBy
  <2>7. Cardinality(GrantsBy("bucket")) <= PerMinute - 1
    BY <1>2, <1>4, <1>6, OldBucketLetFewThrough DEF BucketFits
  <2>8. /\ IsFiniteSet(GrantsBy("bucket")) /\ Cardinality(GrantsBy("bucket")) \in Nat
        /\ Cardinality(GrantsBy("bucket")') \in Nat
    <3>1. GrantsBy("bucket")' \subseteq granted'
      BY DEF GrantsBy
    <3> QED
      BY <1>2, <2>4, <3>1, GrantsAreFinite, NoMoreThanThose
  <2>9. Cardinality(GrantsBy("bucket")') <= Cardinality(GrantsBy("bucket")) + 1
    BY <2>6, <2>8, OneMoreThanThose
  <2>10. SinceRefill' = {}
    <3> SUFFICES ASSUME NEW h \in GrantsBy("bucket")' PROVE ~(h.age + MaxDelay < d)
      BY <2>3 DEF SinceRefill
    <3>1. h \in granted'
      BY DEF GrantsBy
    <3>2. h.age \in Nat
      BY <2>4, <3>1, RateAssumption DEF Grants, Recent
    <3> QED
      BY <1>4, <3>2
  <2>11. Cardinality({}) = 0
    BY FS_EmptySet
  <2>12. /\ Cardinality(GrantsBy("bucket")') + bucket'.tokens <= 2 * PerMinute - 1
         /\ Cardinality(SinceRefill') + bucket'.tokens <= PerMinute - 1
    BY <1>4, <2>3, <2>7, <2>8, <2>9, <2>10, <2>11
  <2>13. BucketFits'
    BY <2>3, <2>12 DEF BucketFits, NoBucket
  <2>14. CountsFit'
    BY <1>1, <1>2, <1>5, <2>6, CountsFrame
  <2> QED
    BY <1>3, <2>5, <2>13, <2>14 DEF RateIInv
<1>7. CASE ~(bucket = NoBucket \/ Elapsed(d) >= Interval)
  <2>1. b = bucket /\ bucket # NoBucket
    BY <1>7 DEF Filled
  <2>2. bucket \in [tokens : 0 .. PerMinute - 1, age : Nat]
    BY <1>2, <2>1 DEF RateTyped
  <2>3. CASE bucket.tokens > 0
    <3>1. bucket' = [bucket EXCEPT !.tokens = @ - 1] /\ Grant("bucket")
      BY <1>1, <2>1, <2>3
    <3>2. bucket'.tokens = bucket.tokens - 1 /\ bucket'.age = bucket.age
          /\ bucket' \in [tokens : 0 .. PerMinute - 1, age : Nat] /\ bucket' # NoBucket
      BY <1>4, <2>2, <2>3, <3>1 DEF NoBucket
    <3>3. PICK g \in Grants :
            /\ g.by = "bucket" /\ g.age = 0
            /\ granted' = granted \cup {g} /\ granted' \subseteq Grants /\ IsFiniteSet(granted')
      BY <1>2, <3>1, GrantAdds
    <3>4. RateTyped'
      BY <1>1, <1>2, <1>3, <1>5, <3>2, <3>3 DEF RateTyped
    <3>5. GrantsBy("redis")' = GrantsBy("redis") /\ GrantsBy("bucket")' \subseteq GrantsBy("bucket") \cup {g}
      BY <3>3 DEF GrantsBy
    <3>6. SinceRefill' \subseteq SinceRefill \cup {g}
      BY <3>2, <3>5 DEF SinceRefill
    <3>7. /\ IsFiniteSet(GrantsBy("bucket")) /\ Cardinality(GrantsBy("bucket")) \in Nat
          /\ IsFiniteSet(SinceRefill) /\ Cardinality(SinceRefill) \in Nat
          /\ Cardinality(GrantsBy("bucket")') \in Nat /\ Cardinality(SinceRefill') \in Nat
      <4>1. GrantsBy("bucket")' \subseteq granted' /\ SinceRefill' \subseteq granted'
        BY DEF GrantsBy, SinceRefill
      <4> QED
        BY <1>2, <3>3, <4>1, GrantsAreFinite, NoMoreThanThose
    <3>8. Cardinality(GrantsBy("bucket")') <= Cardinality(GrantsBy("bucket")) + 1
      BY <3>5, <3>7, OneMoreThanThose
    <3>9. Cardinality(SinceRefill') <= Cardinality(SinceRefill) + 1
      BY <3>6, <3>7, OneMoreThanThose
    <3>10. /\ Cardinality(GrantsBy("bucket")) + bucket.tokens <= 2 * PerMinute - 1
           /\ Cardinality(SinceRefill) + bucket.tokens <= PerMinute - 1
      BY <1>2, <2>1 DEF BucketFits
    <3>11. bucket.tokens \in Nat
      BY <2>2
    <3>12. /\ Cardinality(GrantsBy("bucket")') + bucket'.tokens <= 2 * PerMinute - 1
           /\ Cardinality(SinceRefill') + bucket'.tokens <= PerMinute - 1
      BY <1>4, <3>2, <3>7, <3>8, <3>9, <3>10, <3>11
    <3>13. BucketFits'
      BY <3>2, <3>12 DEF BucketFits, NoBucket
    <3>14. CountsFit'
      BY <1>1, <1>2, <1>5, <3>5, CountsFrame
    <3> QED
      BY <1>3, <3>4, <3>13, <3>14 DEF RateIInv
  <2>4. CASE ~(bucket.tokens > 0)
    <3>1. bucket' = bucket /\ granted' = granted
      BY <1>1, <2>1, <2>4
    <3>2. RateTyped'
      BY <1>1, <1>2, <1>3, <1>5, <3>1 DEF RateTyped
    <3>3. GrantsBy("bucket")' = GrantsBy("bucket") /\ GrantsBy("redis")' = GrantsBy("redis")
      BY <3>1 DEF GrantsBy
    <3> QED
      BY <1>1, <1>2, <1>3, <1>5, <3>1, <3>2, <3>3, BucketFrame, CountsFrame DEF RateIInv
  <2> QED
    BY <2>3, <2>4
<1> QED
  BY <1>6, <1>7

LEMMA SweepKeepsRate ==
  ASSUME RateIInv, WakeSweep \/ Retain
  PROVE  RateIInv'
<1>1. UNCHANGED <<distributed, counts, untilNext, check, granted>>
  BY DEF WakeSweep, Retain
<1>2. RateTyped /\ ChecksFit /\ BucketFits /\ CountsFit
  BY DEF RateIInv
<1>3. sweep' \in [at : {"asleep", "retain"}, delay : 0 .. MaxDelay]
  <2>1. Asleep \in [at : {"asleep", "retain"}, delay : 0 .. MaxDelay]
    BY RateAssumption DEF Asleep
  <2>2. sweep \in [at : {"asleep", "retain"}, delay : 0 .. MaxDelay]
    BY <1>2 DEF RateTyped
  <2> QED
    BY <2>1, <2>2 DEF WakeSweep, Retain
<1>4. bucket' = bucket \/ (bucket' = NoBucket /\ bucket # NoBucket /\ Elapsed(sweep.delay) >= Expiry)
  BY DEF WakeSweep, Retain
<1>5. RateTyped'
  BY <1>1, <1>2, <1>3, <1>4 DEF RateTyped
<1>6. ChecksFit'
  BY <1>1, <1>2 DEF ChecksFit, Begun
<1>7. GrantsBy("bucket")' = GrantsBy("bucket") /\ GrantsBy("redis")' = GrantsBy("redis")
  BY <1>1 DEF GrantsBy
<1>8. CountsFit'
  <2>1. counts' \in [{"this", "last"} -> 0 .. PerMinute + 1] /\ counts' = counts
    BY <1>1, <1>2 DEF RateTyped
  <2>2. counts["this"] <= counts'["this"] /\ counts["last"] <= counts'["last"]
    BY <2>1
  <2> QED
    BY <1>1, <1>2, <1>7, <2>1, <2>2, CountsFrame
<1>9. BucketFits'
  <2>1. CASE bucket' = bucket
    BY <1>2, <1>7, <2>1, BucketFrame
  <2>2. CASE bucket' = NoBucket /\ bucket # NoBucket /\ Elapsed(sweep.delay) >= Expiry
    <3>1. sweep.delay \in 0 .. MaxDelay /\ bucket.age \in Nat
      BY <1>2, <2>2 DEF RateTyped
    <3>2. Elapsed(sweep.delay) >= Interval
      BY <2>2, <3>1, RateAssumption DEF Elapsed
    <3>3. Cardinality(GrantsBy("bucket")) <= PerMinute - 1
      BY <1>2, <2>2, <3>1, <3>2, OldBucketLetFewThrough
    <3>4. Cardinality(GrantsBy("bucket")') <= PerMinute - 1
      BY <1>7, <3>3
    <3> QED
      BY <2>2, <3>4 DEF BucketFits, NoBucket
  <2> QED
    BY <1>4, <2>1, <2>2
<1> QED
  BY <1>5, <1>6, <1>8, <1>9 DEF RateIInv

LEMMA ClockKeepsRate ==
  ASSUME RateIInv, ClockTicks
  PROVE  RateIInv'
<1> DEFINE older(g) == [g EXCEPT !.age = @ + 1]
<1>1. /\ distributed' = distributed
      /\ untilNext' = (IF untilNext = 1 THEN Interval ELSE untilNext - 1)
      /\ counts' = (IF untilNext = 1 THEN [this |-> 0, last |-> counts.this] ELSE counts)
      /\ bucket' = (IF bucket = NoBucket THEN bucket
                    ELSE [bucket EXCEPT !.age = IF @ < Expiry + MaxDelay THEN @ + 1 ELSE @])
      /\ granted' = {older(g) : g \in {h \in granted : h.age + 1 \in Recent}}
  BY DEF ClockTicks
<1>2. RateTyped /\ ChecksFit /\ BucketFits /\ CountsFit
  BY DEF RateIInv
<1>3. /\ Interval \in Nat /\ MaxDelay \in Nat /\ Expiry \in Nat /\ Interval > MaxDelay /\ PerMinute \in Nat
      /\ untilNext \in 1 .. Interval /\ untilNext' \in 1 .. Interval
      /\ counts \in [{"this", "last"} -> 0 .. PerMinute + 1]
  BY <1>1, <1>2, RateAssumption DEF RateTyped
<1>4. /\ counts' \in [{"this", "last"} -> 0 .. PerMinute + 1]
      /\ untilNext = 1 => counts'["this"] = 0 /\ counts'["last"] = counts["this"]
      /\ untilNext # 1 => counts' = counts
  <2>1. CASE untilNext = 1
    <3>1. counts["this"] \in 0 .. PerMinute + 1 /\ counts' = [this |-> 0, last |-> counts["this"]]
      BY <1>1, <1>3, <2>1
    <3> QED
      BY <1>3, <2>1, <3>1
  <2> QED
    BY <1>1, <1>3, <2>1
<1>5. bucket = NoBucket => bucket' = NoBucket
  BY <1>1
<1>6. bucket # NoBucket =>
        /\ bucket' \in [tokens : 0 .. PerMinute - 1, age : Nat] /\ bucket' # NoBucket
        /\ bucket'.tokens = bucket.tokens /\ bucket'.age <= bucket.age + 1 /\ bucket.age \in Nat
        /\ bucket.tokens \in Nat
  <2> SUFFICES ASSUME bucket # NoBucket
               PROVE /\ bucket' \in [tokens : 0 .. PerMinute - 1, age : Nat] /\ bucket' # NoBucket
                     /\ bucket'.tokens = bucket.tokens /\ bucket'.age <= bucket.age + 1 /\ bucket.age \in Nat
                     /\ bucket.tokens \in Nat
    OBVIOUS
  <2>1. bucket \in [tokens : 0 .. PerMinute - 1, age : Nat]
    BY <1>2 DEF RateTyped
  <2> DEFINE a == IF bucket.age < Expiry + MaxDelay THEN bucket.age + 1 ELSE bucket.age
  <2>2. a \in Nat /\ a <= bucket.age + 1
    BY <1>3, <2>1
  <2>3. bucket' = [bucket EXCEPT !.age = a]
    BY <1>1
  <2> HIDE DEF a
  <2>4. /\ bucket' \in [tokens : 0 .. PerMinute - 1, age : Nat]
        /\ bucket'.tokens = bucket.tokens /\ bucket'.age = a
    BY <2>1, <2>2, <2>3
  <2>5. bucket'.tokens # -1
    BY <1>3, <2>4
  <2>6. NoBucket.tokens = -1
    BY DEF NoBucket
  <2>7. bucket' # NoBucket
    BY <2>5, <2>6
  <2> QED
    BY <2>1, <2>2, <2>4, <2>7
<1>7. ASSUME NEW t \in granted'
      PROVE  \E g \in granted : /\ t = older(g) /\ t.by = g.by /\ t.age = g.age + 1 /\ g.age \in Nat
                                /\ t \in Grants /\ t.age < Interval - MaxDelay
  <2>1. PICK g \in granted : g.age + 1 \in Recent /\ t = older(g)
    BY <1>1
  <2>2. g \in Grants /\ g.age \in Nat
    BY <1>2, GrantTypes
  <2>3. t.by = g.by /\ t.age = g.age + 1 /\ t \in Grants
    BY <2>1, <2>2 DEF Grants
  <2>4. g.age + 1 < Interval - MaxDelay
    BY <1>3, <2>1, <2>2 DEF Recent
  <2> QED
    BY <2>1, <2>2, <2>3, <2>4
<1>8. granted' \subseteq Grants /\ IsFiniteSet(granted')
  <2>1. \A t \in granted' : \E g \in granted : t = [g EXCEPT !.age = @ + 1]
    BY <1>7
  <2>2. IsFiniteSet(granted)
    BY <1>2 DEF RateTyped
  <2> QED
    BY <1>7, <2>1, <2>2, NoMoreWhenOlder
<1>9. /\ \A c \in Checks : check[c] \in CheckRecord /\ check[c].delay < MaxDelay
      /\ check' = [c \in Checks |->
           IF check[c].at = "out" THEN check[c]
           ELSE [check[c] EXCEPT !.delay = @ + 1, !.window = IF untilNext = 1 THEN "last" ELSE @]]
  BY <1>2 DEF ClockTicks, RateTyped
<1>10. Begun \in Nat /\ Begun' \in Nat /\ (untilNext = 1 => Begun' = 0 /\ Begun = Interval - 1)
       /\ (untilNext # 1 => Begun' = Begun + 1)
  BY <1>1, <1>3 DEF Begun
<1>11. ASSUME NEW c \in Checks
       PROVE  /\ check'[c] \in CheckRecord
              /\ check'[c].window = "last" => check'[c].at # "out" /\ check'[c].delay > Begun'
              /\ check'[c].at = "redis" => distributed'
  <2>1. check[c] \in CheckRecord /\ check[c].delay < MaxDelay
        /\ (check[c].window = "last" => check[c].at # "out" /\ check[c].delay > Begun)
        /\ (check[c].at = "redis" => distributed)
    BY <1>2, <1>9 DEF ChecksFit
  <2>2. CASE check[c].at = "out"
    <3>1. check'[c] = check[c]
      BY <1>9, <2>2
    <3>2. check'[c].window # "last"
      BY <2>1, <2>2, <3>1
    <3> QED
      BY <1>1, <2>1, <3>1, <3>2
  <2>3. CASE check[c].at # "out"
    <3> DEFINE w == IF untilNext = 1 THEN "last" ELSE check[c].window
               r == [check[c] EXCEPT !.delay = @ + 1, !.window = w]
    <3>1. check'[c] = r
      BY <1>9, <2>3
    <3>2. w \in {"this", "last"} /\ check[c].delay + 1 \in 0 .. MaxDelay /\ check[c].delay \in Nat
      BY <1>3, <2>1 DEF CheckRecord
    <3> HIDE DEF w
    <3>3. r \in CheckRecord /\ r.delay = check[c].delay + 1 /\ r.window = w /\ r.at = check[c].at
      BY <2>1, <3>2 DEF CheckRecord
    <3> HIDE DEF r
    <3>4. w = "last" => check[c].delay + 1 > Begun'
      BY <1>10, <2>1, <3>2 DEF w
    <3> QED
      BY <1>1, <2>1, <2>3, <3>1, <3>3, <3>4
  <2> QED
    BY <2>2, <2>3
<1>12. ChecksFit'
  BY <1>11 DEF ChecksFit
<1>13. RateTyped'
  <2>1. check' \in [Checks -> CheckRecord]
    BY <1>9, <1>11
  <2>2. sweep' \in [at : {"asleep", "retain"}, delay : 0 .. MaxDelay]
    <3>1. sweep \in [at : {"asleep", "retain"}, delay : 0 .. MaxDelay] /\ sweep.delay + 1 \in 0 .. MaxDelay
      <4>1. sweep \in [at : {"asleep", "retain"}, delay : 0 .. MaxDelay]
        BY <1>2 DEF RateTyped
      <4>2. sweep.delay < MaxDelay
        BY DEF ClockTicks
      <4> QED
        BY <1>3, <4>1, <4>2
    <3>2. sweep' = sweep \/ sweep' = [sweep EXCEPT !.delay = sweep.delay + 1]
      BY DEF ClockTicks
    <3> QED
      BY <3>1, <3>2
  <2> QED
    BY <1>1, <1>2, <1>3, <1>4, <1>5, <1>6, <1>8, <2>1, <2>2 DEF RateTyped
<1>14. /\ IsFiniteSet(GrantsBy("bucket")) /\ Cardinality(GrantsBy("bucket")) \in Nat
       /\ IsFiniteSet(GrantsBy("redis")) /\ Cardinality(GrantsBy("redis")) \in Nat
       /\ IsFiniteSet(SinceRefill) /\ IsFiniteSet(SinceBegun)
       /\ Cardinality(SinceRefill) \in Nat /\ Cardinality(SinceBegun) \in Nat
  BY <1>2, GrantsAreFinite
<1>15. BucketFits'
  <2>1. Cardinality(GrantsBy("bucket")') <= Cardinality(GrantsBy("bucket")) /\ Cardinality(GrantsBy("bucket")') \in Nat
    <3>1. \A t \in GrantsBy("bucket")' : \E g \in GrantsBy("bucket") : t = [g EXCEPT !.age = @ + 1]
      BY <1>7 DEF GrantsBy
    <3> QED
      BY <1>14, <3>1, NoMoreWhenOlder
  <2>2. CASE bucket = NoBucket
    <3>1. bucket' = NoBucket /\ Cardinality(GrantsBy("bucket")) <= PerMinute - 1
      BY <1>2, <1>5, <2>2 DEF BucketFits
    <3>2. Cardinality(GrantsBy("bucket")') <= PerMinute - 1
      BY <1>3, <1>14, <2>1, <3>1
    <3> QED
      BY <3>1, <3>2 DEF BucketFits, NoBucket
  <2>3. CASE bucket # NoBucket
    <3>1. Cardinality(SinceRefill') <= Cardinality(SinceRefill) /\ Cardinality(SinceRefill') \in Nat
      <4>1. ASSUME NEW t \in SinceRefill'
            PROVE  \E g \in SinceRefill : t = [g EXCEPT !.age = @ + 1]
        <5>1. t \in granted' /\ t.by = "bucket" /\ t.age + MaxDelay < bucket'.age
          BY DEF SinceRefill, GrantsBy
        <5>2. PICK g \in granted : t = older(g) /\ t.by = g.by /\ t.age = g.age + 1 /\ g.age \in Nat
          BY <1>7, <5>1
        <5>3. bucket'.age \in Nat /\ bucket'.age <= bucket.age + 1 /\ bucket.age \in Nat
          BY <1>6, <2>3
        <5>4. g.age + MaxDelay < bucket.age
          BY <1>3, <5>1, <5>2, <5>3
        <5> QED
          BY <5>1, <5>2, <5>4 DEF SinceRefill, GrantsBy
      <4> QED
        BY <1>14, <4>1, NoMoreWhenOlder
    <3>2. /\ Cardinality(GrantsBy("bucket")) + bucket.tokens <= 2 * PerMinute - 1
          /\ Cardinality(SinceRefill) + bucket.tokens <= PerMinute - 1
      BY <1>2, <2>3 DEF BucketFits
    <3>3. /\ Cardinality(GrantsBy("bucket")') + bucket'.tokens <= 2 * PerMinute - 1
          /\ Cardinality(SinceRefill') + bucket'.tokens <= PerMinute - 1
      BY <1>3, <1>6, <1>14, <2>1, <2>3, <3>1, <3>2
    <3> QED
      BY <1>6, <2>3, <3>3 DEF BucketFits, NoBucket
  <2> QED
    BY <2>2, <2>3
<1>16. CountsFit'
  <2>1. ~distributed' => GrantsBy("redis")' = {}
    <3>1. \A t \in GrantsBy("redis")' : \E g \in GrantsBy("redis") : t = older(g)
      BY <1>7 DEF GrantsBy
    <3> QED
      BY <1>1, <1>2, <3>1 DEF CountsFit
  <2>2. /\ counts["this"] \in Nat /\ counts["last"] \in Nat
        /\ Allowed(counts["this"]) \in Nat /\ Allowed(counts["last"]) \in Nat
    BY <1>3 DEF Allowed
  <2>3. /\ Cardinality(GrantsBy("redis")) <= Allowed(counts["this"]) + Allowed(counts["last"])
        /\ Cardinality(SinceBegun) <= Allowed(counts["this"])
    BY <1>2 DEF CountsFit
  <2>4. CASE untilNext = 1
    <3>1. ASSUME NEW t \in GrantsBy("redis")'
          PROVE  \E g \in SinceBegun : t = [g EXCEPT !.age = @ + 1]
      <4>1. t \in granted' /\ t.by = "redis"
        BY DEF GrantsBy
      <4>2. PICK g \in granted : t = older(g) /\ t.by = g.by /\ t.age = g.age + 1 /\ g.age \in Nat
                                /\ t.age < Interval - MaxDelay
        BY <1>7, <4>1
      <4>3. g.age + MaxDelay <= Begun
        BY <1>3, <1>10, <2>4, <4>2
      <4> QED
        BY <4>1, <4>2, <4>3 DEF SinceBegun, GrantsBy
    <3>2. Cardinality(GrantsBy("redis")') <= Cardinality(SinceBegun) /\ Cardinality(GrantsBy("redis")') \in Nat
      BY <1>14, <3>1, NoMoreWhenOlder
    <3>3. SinceBegun' = {}
      <4> SUFFICES ASSUME NEW t \in GrantsBy("redis")' PROVE ~(t.age + MaxDelay <= Begun')
        BY DEF SinceBegun
      <4>1. t \in granted'
        BY DEF GrantsBy
      <4>2. \E g \in granted : t.age = g.age + 1 /\ g.age \in Nat
        BY <1>7, <4>1
      <4> QED
        BY <1>3, <1>10, <2>4, <4>2
    <3>4. Cardinality({}) = 0
      BY FS_EmptySet
    <3>5. Allowed(counts'["this"]) = 0 /\ Allowed(counts'["last"]) = Allowed(counts["this"])
      BY <1>3, <1>4, <2>4 DEF Allowed
    <3>6. /\ Cardinality(GrantsBy("redis")') <= Allowed(counts'["this"]) + Allowed(counts'["last"])
          /\ Cardinality(SinceBegun') <= Allowed(counts'["this"])
      BY <1>14, <2>2, <2>3, <3>2, <3>3, <3>4, <3>5
    <3> QED
      BY <2>1, <3>6 DEF CountsFit, Allowed
  <2>5. CASE untilNext # 1
    <3>1. \A t \in GrantsBy("redis")' : \E g \in GrantsBy("redis") : t = [g EXCEPT !.age = @ + 1]
      BY <1>7 DEF GrantsBy
    <3>2. Cardinality(GrantsBy("redis")') <= Cardinality(GrantsBy("redis")) /\ Cardinality(GrantsBy("redis")') \in Nat
      BY <1>14, <3>1, NoMoreWhenOlder
    <3>3. ASSUME NEW t \in SinceBegun'
          PROVE  \E g \in SinceBegun : t = [g EXCEPT !.age = @ + 1]
      <4>1. t \in granted' /\ t.by = "redis" /\ t.age + MaxDelay <= Begun'
        BY DEF SinceBegun, GrantsBy
      <4>2. PICK g \in granted : t = older(g) /\ t.by = g.by /\ t.age = g.age + 1 /\ g.age \in Nat
        BY <1>7, <4>1
      <4>3. g.age + MaxDelay <= Begun
        BY <1>3, <1>10, <2>5, <4>1, <4>2
      <4> QED
        BY <4>1, <4>2, <4>3 DEF SinceBegun, GrantsBy
    <3>4. Cardinality(SinceBegun') <= Cardinality(SinceBegun) /\ Cardinality(SinceBegun') \in Nat
      BY <1>14, <3>3, NoMoreWhenOlder
    <3>5. counts'["this"] = counts["this"] /\ counts'["last"] = counts["last"]
      BY <1>4, <2>5
    <3>6. /\ Cardinality(GrantsBy("redis")') <= Allowed(counts'["this"]) + Allowed(counts'["last"])
          /\ Cardinality(SinceBegun') <= Allowed(counts'["this"])
      BY <1>14, <2>2, <2>3, <3>2, <3>4, <3>5
    <3> QED
      BY <2>1, <3>6 DEF CountsFit, Allowed
  <2> QED
    BY <2>4, <2>5
<1> QED
  BY <1>12, <1>13, <1>15, <1>16 DEF RateIInv

LEMMA RateStutters ==
  ASSUME RateIInv, UNCHANGED rateVars
  PROVE  RateIInv'
<1>1. UNCHANGED <<distributed, counts, untilNext, bucket, check, sweep, granted>>
  BY DEF rateVars
<1>2. GrantsBy("bucket")' = GrantsBy("bucket") /\ GrantsBy("redis")' = GrantsBy("redis")
      /\ SinceRefill' = SinceRefill /\ SinceBegun' = SinceBegun
  BY <1>1 DEF GrantsBy, SinceRefill, SinceBegun, Begun
<1>3. RateTyped' /\ ChecksFit'
  BY <1>1 DEF RateIInv, RateTyped, ChecksFit, Begun
<1>4. BucketFits' /\ CountsFit'
  BY <1>1, <1>2 DEF RateIInv, BucketFits, CountsFit, Allowed
<1> QED
  BY <1>3, <1>4 DEF RateIInv

LEMMA RateIInvImplies == RateIInv => RateInv
<1> SUFFICES ASSUME RateIInv PROVE RateInv
  OBVIOUS
<1>1. RateTyped /\ BucketFits /\ CountsFit
  BY DEF RateIInv
<1>2. RateTypeOK
  <2>1. bucket \in [tokens : -1 .. PerMinute, age : Nat]
    <3>1. NoBucket \in [tokens : -1 .. PerMinute, age : Nat]
      BY RateAssumption DEF NoBucket
    <3>2. CASE bucket \in [tokens : 0 .. PerMinute - 1, age : Nat]
      BY <3>2, RateAssumption
    <3> QED
      BY <1>1, <3>1, <3>2 DEF RateTyped
  <2> QED
    BY <1>1, <2>1 DEF RateTypeOK, RateTyped, CheckRecord
<1>3. /\ Cardinality(GrantsBy("bucket")) \in Nat /\ Cardinality(GrantsBy("redis")) \in Nat
  BY <1>1, GrantsAreFinite
<1>4. Cardinality(GrantsBy("bucket")) <= 2 * PerMinute - 1
  <2>1. CASE bucket = NoBucket
    BY <1>1, <1>3, <2>1, RateAssumption DEF BucketFits
  <2>2. CASE bucket # NoBucket
    <3>1. bucket.tokens \in Nat
      BY <1>1, <2>2 DEF RateTyped
    <3> QED
      BY <1>1, <1>3, <2>2, <3>1, RateAssumption DEF BucketFits
  <2> QED
    BY <2>1, <2>2
<1>5. Cardinality(GrantsBy("redis")) <= IF distributed THEN 2 * PerMinute ELSE 0
  <2>1. Cardinality({}) = 0
    BY FS_EmptySet
  <2>2. CASE ~distributed
    BY <1>1, <2>1, <2>2 DEF CountsFit
  <2>3. CASE distributed
    <3>1. counts["this"] \in Nat /\ counts["last"] \in Nat /\ PerMinute \in Nat
      BY <1>1, RateAssumption DEF RateTyped
    <3>2. Allowed(counts["this"]) <= PerMinute /\ Allowed(counts["last"]) <= PerMinute
          /\ Allowed(counts["this"]) \in Nat /\ Allowed(counts["last"]) \in Nat
      BY <3>1 DEF Allowed
    <3>3. Cardinality(GrantsBy("redis")) <= Allowed(counts["this"]) + Allowed(counts["last"])
      BY <1>1 DEF CountsFit
    <3> QED
      BY <1>3, <2>3, <3>1, <3>2, <3>3
  <2> QED
    BY <2>2, <2>3
<1> QED
  BY <1>2, <1>4, <1>5 DEF RateInv, BurstIsBounded

(* For any number of requests and any limit, interval and delay: however   *)
(* the read path, the write path, the cleanup and Redis interleave, within *)
(* an interval, less what a request may be held up, a bucket lets through  *)
(* fewer than two allowances and Redis at most two                         *)
(* (middleware/rate_limit.rs).                                             *)
THEOREM BurstsStayBounded == RateSpec => []RateInv
<1>1. RateIInv /\ [RateNext]_rateVars => RateIInv'
  BY ArriveKeepsRate, CountedKeepsRate, RedisFailsKeepsRate, ReadPathKeepsRate, WritePathKeepsRate,
     SweepKeepsRate, ClockKeepsRate, RateStutters DEF RateNext, CheckStep
<1> QED
  BY <1>1, RateStarts, RateIInvImplies, PTL DEF RateSpec
=============================================================================
