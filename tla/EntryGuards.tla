----------------------------- MODULE EntryGuards -----------------------------
(***************************************************************************)
(* The two guards a process keeps in memory in front of its draws: the     *)
(* token bucket of the Redis mode (service/limiter.go) and the circuit     *)
(* breaker of the MySQL mode (service/circuit_breaker.go).  They share     *)
(* nothing but the requests that pass them.                                *)
(*                                                                         *)
(* Time of the bucket is counted in ticks and tokens in grains: a tick     *)
(* brings a grain, a request costs Cost grains.  time.Now never decreases  *)
(* within a process, but it is read before the lock is taken.  A limiter   *)
(* without a rate has no state and is not modelled.  The cooling           *)
(* of the breaker ends at any moment.                                      *)
(***************************************************************************)
EXTENDS Integers, FiniteSets

CONSTANTS
    Workers,        \* goroutines that serve draws
    Burst,          \* capacity of the bucket in grains
    Cost,           \* grains of one request
    MaxClock,       \* the last tick a run looks at
    TripThreshold,  \* LOTTERY_CB_TRIP_THRESHOLD, as configured
    HalfOpenMax,    \* LOTTERY_CB_HALFOPEN_MAX
    HalfOpenSuccess \* LOTTERY_CB_HALFOPEN_SUCCESS

ASSUME ConstantsAssumption ==
    /\ IsFiniteSet(Workers)
    /\ Burst \in Nat \ {0} /\ Cost \in Nat \ {0} /\ MaxClock \in Nat
    /\ TripThreshold \in Int /\ HalfOpenMax \in Int /\ HalfOpenSuccess \in Int

VARIABLES
    clock,      \* time
    tokens,     \* the bucket, in grains
    lastRefill,
    measured,   \* per worker: the time its Allow read before the lock, or -1
    since,      \* when the bucket was last reset
    admitted,   \* requests it let pass since then
    state,      \* the breaker: circuitState
    cooled,     \* the cooling time since it opened is over
    overloads,  \* consecutiveOverload
    probes, successes,
    request,    \* per worker: its draw behind the breaker
    silent      \* a probe of this Half-Open ended without a report

bucket  == <<tokens, lastRefill, measured, since, admitted>>
breaker == <<state, cooled, overloads, probes, successes, request, silent>>
vars    == <<clock, bucket, breaker>>

\* newCircuitBreaker: values that could not work are raised.
AtLeast(n, low) == IF n < low THEN low ELSE n
Trips   == AtLeast(TripThreshold, 1)
Healthy == AtLeast(HalfOpenSuccess, 1)
\* Weakened: fewer probes than successes may be configured.
ProbesAsConfigured == AtLeast(HalfOpenMax, 1)

Probes  == AtLeast(HalfOpenMax, Healthy)

NoRequest == [in |-> FALSE, probe |-> FALSE, reported |-> FALSE]

TypeOK ==
    /\ clock \in 0..MaxClock
    /\ tokens \in 0..Burst
    /\ lastRefill \in 0..clock
    /\ measured \in [Workers -> -1..clock]
    /\ since \in 0..clock
    /\ admitted \in Nat
    /\ state \in {"closed", "open", "halfOpen"}
    /\ cooled \in BOOLEAN
    /\ overloads \in 0..Trips - 1
    /\ probes \in 0..Probes
    /\ successes \in 0..Healthy - 1
    /\ request \in [Workers -> [in: BOOLEAN, probe: BOOLEAN, reported: BOOLEAN]]
    /\ silent \in BOOLEAN

Init ==
    /\ clock = 0
    /\ tokens = Burst
    /\ lastRefill = 0
    /\ measured = [w \in Workers |-> -1]
    /\ since = 0
    /\ admitted = 0
    /\ state = "closed"
    /\ cooled = FALSE
    /\ overloads = 0 /\ probes = 0 /\ successes = 0
    /\ request = [w \in Workers |-> NoRequest]
    /\ silent = FALSE

-----------------------------------------------------------------------------
(* tokenBucketLimiter *)

Tick ==
    /\ clock < MaxClock
    /\ clock' = clock + 1
    /\ UNCHANGED <<bucket, breaker>>

\* Allow reads the clock, then waits for the lock.
Measure(w) ==
    /\ measured[w] = -1
    /\ measured' = [measured EXCEPT ![w] = clock]
    /\ UNCHANGED <<clock, tokens, lastRefill, since, admitted, breaker>>

\* refill: a time before the last refill, measured by a request that waited
\* longer for the lock, brings nothing and does not turn the clock back.
Refilled(now) ==
    IF now - lastRefill <= 0 THEN tokens
    ELSE IF tokens + (now - lastRefill) > Burst THEN Burst
    ELSE tokens + (now - lastRefill)
\* Weakened: a late request turns the clock of the bucket back.
RefilledAtMeasured(now) == now

RefilledAt(now) == IF now - lastRefill <= 0 THEN lastRefill ELSE now

Allow(w) ==
    /\ measured[w] # -1
    /\ measured' = [measured EXCEPT ![w] = -1]
    /\ lastRefill' = RefilledAt(measured[w])
    /\ LET t == Refilled(measured[w])
       IN  \/ t < Cost /\ tokens' = t /\ admitted' = admitted
           \/ t >= Cost /\ tokens' = t - Cost /\ admitted' = admitted + 1
    /\ UNCHANGED <<clock, since, breaker>>

\* Reset reads the clock under the lock.
ResetBucket ==
    /\ tokens' = Burst
    /\ lastRefill' = clock
    /\ since' = clock
    /\ admitted' = 0
    /\ UNCHANGED <<clock, measured, breaker>>

-----------------------------------------------------------------------------
(* CircuitBreaker *)

\* A probe belongs to the Half-Open that let it pass.
Forget == [w \in Workers |-> [request[w] EXCEPT !.probe = FALSE]]

Pass(w, probe) ==
    [request EXCEPT ![w] = [in |-> TRUE, probe |-> probe, reported |-> FALSE]]

CoolingEnds ==
    /\ state = "open" /\ ~cooled
    /\ cooled' = TRUE
    /\ UNCHANGED <<clock, bucket, state, overloads, probes, successes, request, silent>>

BreakerRefuses(w) ==
    /\ ~request[w].in
    /\ \/ state = "open" /\ ~cooled
       \/ state = "halfOpen" /\ probes >= Probes
    /\ UNCHANGED vars

BreakerAllows(w) ==
    /\ ~request[w].in
    /\ \/ /\ state = "closed"
          /\ request' = Pass(w, FALSE)
          /\ UNCHANGED <<state, cooled, probes, successes, silent>>
       \/ /\ state = "open" /\ cooled
          /\ state' = "halfOpen" /\ cooled' = FALSE
          /\ probes' = 1 /\ successes' = 0 /\ silent' = FALSE
          /\ request' = Pass(w, TRUE)
       \/ /\ state = "halfOpen" /\ probes < Probes
          /\ probes' = probes + 1
          /\ request' = Pass(w, TRUE)
          /\ UNCHANGED <<state, cooled, successes, silent>>
    /\ UNCHANGED <<clock, bucket, overloads>>

Latencies == {"green", "yellow", "red"}
Usages == {"normal", "high"}

\* isOverloaded: a crowded pool counts only when the latency shows it.
Overloaded(latency, usage) ==
    latency = "red" \/ (usage = "high" /\ latency = "yellow")

Reports(w) == [request EXCEPT ![w].reported = TRUE]
ForgetAndReport(w) == [Forget EXCEPT ![w].reported = TRUE]

Trip ==
    /\ state' = "open" /\ cooled' = FALSE
    /\ overloads' = 0 /\ probes' = 0 /\ successes' = 0

\* Report: a draw reports every access to MySQL, each of up to ten tries, and
\* nothing says in which state it was let pass.
Report(w, latency, usage) ==
    /\ request[w].in
    /\ \/ /\ state = "halfOpen" /\ Overloaded(latency, usage)
          /\ Trip /\ request' = ForgetAndReport(w)
       \/ /\ state = "halfOpen" /\ ~Overloaded(latency, usage)
          /\ IF successes + 1 >= Healthy
               THEN /\ state' = "closed" /\ overloads' = 0
                    /\ probes' = 0 /\ successes' = 0
                    /\ request' = ForgetAndReport(w)
               ELSE /\ successes' = successes + 1 /\ request' = Reports(w)
                    /\ UNCHANGED <<state, overloads, probes>>
          /\ UNCHANGED cooled
       \/ /\ state = "closed" /\ Overloaded(latency, usage)
          /\ IF overloads + 1 >= Trips
               THEN Trip
               ELSE overloads' = overloads + 1
                      /\ UNCHANGED <<state, cooled, probes, successes>>
          /\ request' = Reports(w)
       \/ /\ state = "closed" /\ ~Overloaded(latency, usage)
          /\ overloads' = 0 /\ request' = Reports(w)
          /\ UNCHANGED <<state, cooled, probes, successes>>
       \/ /\ state = "open" /\ request' = Reports(w)
          /\ UNCHANGED <<state, cooled, overloads, probes, successes>>
    /\ UNCHANGED <<clock, bucket, silent>>

\* A draw may end without any access that reports: the user has an order, the
\* lookup of it failed, or the cached stock says sold out.
DrawEnds(w) ==
    /\ request[w].in
    /\ request' = [request EXCEPT ![w] = NoRequest]
    /\ silent' = (silent \/ (request[w].probe /\ ~request[w].reported))
    /\ UNCHANGED <<clock, bucket, state, cooled, overloads, probes, successes>>

ResetBreaker ==
    /\ state' = "closed" /\ cooled' = FALSE
    /\ overloads' = 0 /\ probes' = 0 /\ successes' = 0
    /\ request' = Forget
    /\ UNCHANGED <<clock, bucket, silent>>

BucketNext ==
    \/ Tick \/ ResetBucket
    \/ \E w \in Workers : Measure(w) \/ Allow(w)

BreakerNext ==
    \/ CoolingEnds \/ ResetBreaker
    \/ \E w \in Workers :
         \/ BreakerRefuses(w) \/ BreakerAllows(w) \/ DrawEnds(w)
         \/ \E l \in Latencies, u \in Usages : Report(w, l, u)

Next == BucketNext \/ BreakerNext

Spec == Init /\ [][Next]_vars

-----------------------------------------------------------------------------
(* Properties *)

\* Since the bucket was last reset, no more requests have passed than a full
\* bucket and the time since then pay for, in whatever order the requests that
\* measured the time get the lock.
RateIsKept == admitted * Cost <= Burst + (clock - since)

\* A Half-Open breaker that refuses everything and waits for no request any
\* more will never close by itself; that happens only after a probe that ended
\* without a report, never because the configured numbers cannot be met or
\* because reports came late.
StuckHasReason ==
    (state = "halfOpen" /\ probes = Probes /\ \A w \in Workers : ~request[w].in)
        => silent

=============================================================================
