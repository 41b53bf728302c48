----------------------------- MODULE RateLimiter -----------------------------
(***************************************************************************)
(* The limit on incoming requests (middleware/rate_limit.rs), for one      *)
(* client: clients share nothing but the lock of the map of buckets.       *)
(* A check asks Redis for the count of the current minute where Redis is   *)
(* configured, and falls back to a bucket in memory when that call fails.  *)
(*                                                                         *)
(* Times are ages.  A check, and the cleanup, act on a time they took up   *)
(* to MaxDelay ticks ago, before a lock or a network call.                 *)
(***************************************************************************)
EXTENDS Integers, FiniteSets

CONSTANTS
  Checks,             \* requests of the client in flight
  PerMinute,          \* requests_per_minute
  Interval,           \* REFILL_INTERVAL and the Redis window, in ticks
  Expiry,             \* BUCKET_EXPIRY
  MaxDelay            \* bound

ASSUME RateAssumption ==
  /\ PerMinute \in Nat \ {0} /\ MaxDelay \in Nat
  /\ Interval \in Nat /\ Interval > MaxDelay /\ Expiry \in Nat /\ Expiry >= Interval

VARIABLES
  distributed,        \* a Redis is configured
  counts,             \* the Redis counters of this window and of the one before
  untilNext,          \* ticks to the next window
  bucket,             \* TokenBucket, or NoBucket
  check,              \* Checks -> where the check is and the time it took
  sweep,              \* the cleanup loop
  granted             \* history: the requests let through lately, by whom, how long ago
                      \* and as the how manieth of then

rateVars == <<distributed, counts, untilNext, bucket, check, sweep, granted>>

\* An interval, less the time a check may be held up with the time it took.
Recent == 0 .. Interval - MaxDelay - 1

Grants == [by : {"redis", "bucket"}, age : Recent, nth : Nat]
GrantsBy(who) == {g \in granted : g.by = who}

NoBucket == [tokens |-> -1, age |-> 0]
Out == [at |-> "out", delay |-> 0, window |-> "this"]
Asleep == [at |-> "asleep", delay |-> 0]

RateInit ==
  /\ distributed \in BOOLEAN
  /\ counts = [this |-> 0, last |-> 0] /\ untilNext \in 1 .. Interval
  /\ bucket = NoBucket /\ sweep = Asleep
  /\ check = [c \in Checks |-> Out]
  /\ granted = {}

\* now.duration_since(last_refill), which saturates.
Elapsed(delay) == IF bucket.age > delay THEN bucket.age - delay ELSE 0

GoOn(c) == check' = [check EXCEPT ![c] = Out]
Grant(who) ==
  granted' = granted \cup
    {[by |-> who, age |-> 0, nth |-> Cardinality({g \in GrantsBy(who) : g.age = 0}) + 1]}

-----------------------------------------------------------------------------
Arrive(c) ==
  /\ check[c].at = "out"
  /\ check' = [check EXCEPT ![c].at = IF distributed THEN "redis" ELSE "read"]
  /\ UNCHANGED <<distributed, counts, untilNext, bucket, sweep, granted>>

\* INCR of the key of the window the request came in.
Incr(c) ==
  /\ check[c].at = "redis"
  /\ counts' = [counts EXCEPT ![check[c].window] = IF @ > PerMinute THEN @ ELSE @ + 1]

Counted(c) ==
  /\ Incr(c)
  /\ GoOn(c)
  /\ IF counts'[check[c].window] <= PerMinute THEN Grant("redis") ELSE UNCHANGED granted
  /\ UNCHANGED <<distributed, untilNext, bucket, sweep>>

\* The call fails, before or after it was counted.
RedisFails(c) ==
  /\ \/ check[c].at = "redis" /\ UNCHANGED counts
     \/ Incr(c)
  /\ check' = [check EXCEPT ![c] = [Out EXCEPT !.at = "read"]]
  /\ UNCHANGED <<distributed, untilNext, bucket, sweep, granted>>

\* Mutant: an empty bucket stays empty.
ReadPathStuck(c) ==
  /\ check[c].at = "read"
  /\ IF bucket.tokens = 0 THEN GoOn(c) ELSE check' = [check EXCEPT ![c].at = "write"]
  /\ UNCHANGED <<distributed, counts, untilNext, bucket, sweep, granted>>

\* Under the read lock: an exhausted client is turned away.
ReadPath(c) ==
  /\ check[c].at = "read"
  /\ IF bucket.tokens = 0 /\ Elapsed(check[c].delay) < Interval
     THEN GoOn(c)
     ELSE check' = [check EXCEPT ![c].at = "write"]
  /\ UNCHANGED <<distributed, counts, untilNext, bucket, sweep, granted>>

\* The bucket as the write path finds it: created, refilled or as it was.
Filled(delay) ==
  IF bucket = NoBucket \/ Elapsed(delay) >= Interval
  THEN [tokens |-> PerMinute, age |-> delay]
  ELSE bucket

\* Mutant: what the read path saw is not looked at again.
WritePathTrusting(c) ==
  /\ check[c].at = "write"
  /\ bucket' = [tokens |-> PerMinute - 1, age |-> check[c].delay]
  /\ Grant("bucket") /\ GoOn(c)
  /\ UNCHANGED <<distributed, counts, untilNext, sweep>>

WritePath(c) ==
  /\ check[c].at = "write"
  /\ LET b == Filled(check[c].delay)
     IN  IF b.tokens > 0
         THEN bucket' = [b EXCEPT !.tokens = @ - 1] /\ Grant("bucket")
         ELSE bucket' = b /\ UNCHANGED granted
  /\ GoOn(c)
  /\ UNCHANGED <<distributed, counts, untilNext, sweep>>

\* cleanup_loop: the interval is over; then, under the write lock, retain.
WakeSweep ==
  /\ sweep.at = "asleep"
  /\ sweep' = [sweep EXCEPT !.at = "retain"]
  /\ UNCHANGED <<distributed, counts, untilNext, bucket, check, granted>>

Retain ==
  /\ sweep.at = "retain"
  /\ bucket' = IF bucket # NoBucket /\ Elapsed(sweep.delay) >= Expiry THEN NoBucket ELSE bucket
  /\ sweep' = Asleep
  /\ UNCHANGED <<distributed, counts, untilNext, check, granted>>

-----------------------------------------------------------------------------
\* Redis is asked under the key of the minute the clock shows; another minute
\* has another key.
ClockTicks ==
  /\ \A c \in Checks : check[c].delay < MaxDelay
  /\ sweep.delay < MaxDelay
  /\ untilNext' = IF untilNext = 1 THEN Interval ELSE untilNext - 1
  /\ counts' = IF untilNext = 1 THEN [this |-> 0, last |-> counts.this] ELSE counts
  /\ bucket' = IF bucket = NoBucket THEN bucket
               ELSE [bucket EXCEPT !.age = IF @ < Expiry + MaxDelay THEN @ + 1 ELSE @]
  /\ check' = [c \in Checks |->
       IF check[c].at = "out" THEN check[c]
       ELSE [check[c] EXCEPT !.delay = @ + 1,
                             !.window = IF untilNext = 1 THEN "last" ELSE @]]
  /\ sweep' = IF sweep.at = "asleep" THEN sweep ELSE [sweep EXCEPT !.delay = @ + 1]
  /\ granted' = {[g EXCEPT !.age = @ + 1] : g \in {h \in granted : h.age + 1 \in Recent}}
  /\ UNCHANGED distributed

CheckStep(c) == Counted(c) \/ RedisFails(c) \/ ReadPath(c) \/ WritePath(c)

RateNext ==
  \/ \E c \in Checks : Arrive(c) \/ CheckStep(c)
  \/ WakeSweep \/ Retain \/ ClockTicks

RateSpec == RateInit /\ [][RateNext]_rateVars

\* Checks are polled, time passes and the client keeps asking; the cleanup is not
\* counted on.
RateFairness ==
  /\ \A c \in Checks : WF_rateVars(Arrive(c) \/ CheckStep(c))
  /\ WF_rateVars(Retain) /\ WF_rateVars(ClockTicks)

-----------------------------------------------------------------------------
RateTypeOK ==
  /\ distributed \in BOOLEAN
  /\ counts \in [{"this", "last"} -> 0 .. PerMinute + 1] /\ untilNext \in 1 .. Interval
  /\ bucket \in [tokens : -1 .. PerMinute, age : Nat]
  /\ check \in [Checks -> [at : {"out", "redis", "read", "write"}, delay : 0 .. MaxDelay,
                           window : {"this", "last"}]]
  /\ sweep \in [at : {"asleep", "retain"}, delay : 0 .. MaxDelay]
  /\ granted \subseteq Grants

\* Whatever order checks, refills and cleanups take the locks in, a fixed window
\* lets through at most two allowances in an interval (less what a check may be held
\* up), the bucket one request fewer; Redis and the bucket that stands in for it count
\* apart.
BurstIsBounded ==
  /\ Cardinality(GrantsBy("bucket")) <= 2 * PerMinute - 1
  /\ Cardinality(GrantsBy("redis")) <= IF distributed THEN 2 * PerMinute ELSE 0

\* A client that keeps asking is let through again and again: no order of checks
\* leaves its bucket empty for good.
NobodyIsLockedOut ==
  (\E c \in Checks : check[c].at # "out") ~> granted # {}

\* The bucket and the counter are well formed, and a burst admits no more than the fallbacks
\* between Redis and memory can add up to.
RateInv == RateTypeOK /\ BurstIsBounded

=============================================================================
