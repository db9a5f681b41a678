-------------------------- MODULE EntryGuardsProofs --------------------------
(***************************************************************************)
(* The rate of the token bucket and the reason for a stuck breaker, for    *)
(* any number of workers and any configuration.                            *)
(***************************************************************************)
EXTENDS EntryGuards, FiniteSetTheorems, TLAPS

\* The configured numbers as the constructor uses them.
LEMMA Configured ==
    /\ Trips \in Nat \ {0} /\ Healthy \in Nat \ {0}
    /\ Probes \in Nat \ {0} /\ Healthy <= Probes
BY ConstantsAssumption DEF Trips, Healthy, Probes, AtLeast

Requests == [Workers -> [in: BOOLEAN, probe: BOOLEAN, reported: BOOLEAN]]

\* The counters of the breaker.
Counters ==
    /\ overloads \in 0..Trips - 1 /\ probes \in 0..Probes /\ successes \in 0..Healthy - 1

LEMMA CountersOfTypes == TypeOK => Counters /\ request \in Requests
BY DEF TypeOK, Counters, Requests

\* At their start and after a reset all counters are zero.
LEMMA ZerosAreTyped == 0 \in 0..Trips - 1 /\ 0 \in 0..Probes /\ 0 \in 0..Healthy - 1
BY Configured

LEMMA InitIsTyped == Init => TypeOK
<1> SUFFICES ASSUME Init PROVE TypeOK
  OBVIOUS
<1>1. overloads \in 0..Trips - 1 /\ probes \in 0..Probes /\ successes \in 0..Healthy - 1
  BY ZerosAreTyped DEF Init
<1>2. request \in [Workers -> [in: BOOLEAN, probe: BOOLEAN, reported: BOOLEAN]]
  BY DEF Init, NoRequest
<1>3. /\ measured \in [Workers -> -1..clock] /\ clock \in 0..MaxClock
      /\ lastRefill \in 0..clock /\ since \in 0..clock
  BY ConstantsAssumption DEF Init
<1>4. tokens \in 0..Burst /\ admitted \in Nat
  BY ConstantsAssumption DEF Init
<1> QED
  BY <1>1, <1>2, <1>3, <1>4 DEF Init, TypeOK

\* What the breaker remembers of a request stays a record.
LEMMA RequestsAreTyped ==
    ASSUME request \in Requests, NEW w \in Workers
    PROVE  /\ \A p \in BOOLEAN : Pass(w, p) \in Requests
           /\ Reports(w) \in Requests
           /\ Forget \in Requests
           /\ ForgetAndReport(w) \in Requests
<1>1. \A p \in BOOLEAN : Pass(w, p) \in Requests
  BY DEF Pass, Requests
<1>2. Reports(w) \in Requests
  BY DEF Reports, Requests
<1>3. Forget \in Requests
  BY DEF Forget, Requests
<1>4. ForgetAndReport(w) \in Requests
  BY <1>3 DEF ForgetAndReport, Requests
<1> QED
  BY <1>1, <1>2, <1>3, <1>4

\* The refill stays within the bucket and the time within the clock.
LEMMA RefillIsTyped ==
    ASSUME TypeOK, NEW now \in 0..clock
    PROVE  /\ Refilled(now) \in 0..Burst
           /\ RefilledAt(now) \in 0..clock
           /\ lastRefill <= RefilledAt(now)
           /\ Refilled(now) - tokens <= RefilledAt(now) - lastRefill
BY ConstantsAssumption DEF TypeOK, Refilled, RefilledAt

LEMMA BucketIsTyped == ASSUME TypeOK, BucketNext PROVE TypeOK'
<1>1. CASE Tick
  BY <1>1, ConstantsAssumption DEF Tick, TypeOK, bucket, breaker
<1>2. CASE ResetBucket
  BY <1>2, ConstantsAssumption DEF ResetBucket, TypeOK, breaker
<1>3. ASSUME NEW w \in Workers, Measure(w) PROVE TypeOK'
  BY <1>3 DEF Measure, TypeOK, breaker
<1>4. ASSUME NEW w \in Workers, Allow(w) PROVE TypeOK'
  <2>1. measured[w] \in 0..clock
    BY <1>4 DEF Allow, TypeOK
  <2>2. Refilled(measured[w]) \in 0..Burst /\ RefilledAt(measured[w]) \in 0..clock
    BY <2>1, RefillIsTyped
  <2>3. tokens' \in 0..Burst /\ admitted' \in Nat
    BY <1>4, <2>2, ConstantsAssumption DEF Allow, TypeOK
  <2> QED
    BY <1>4, <2>2, <2>3 DEF Allow, TypeOK, breaker
<1> QED
  BY <1>1, <1>2, <1>3, <1>4 DEF BucketNext

LEMMA BreakerIsTyped == ASSUME TypeOK, BreakerNext PROVE TypeOK'
<1> USE Configured DEF bucket
<1>1. CASE CoolingEnds
  BY <1>1 DEF CoolingEnds, TypeOK
<1>2. CASE ResetBreaker
  <2>1. request' \in Requests
    BY <1>2, CountersOfTypes DEF ResetBreaker, Forget, Requests
  <2> QED
    BY <1>2, <2>1, ZerosAreTyped DEF ResetBreaker, TypeOK, Requests
<1>3. ASSUME NEW w \in Workers, BreakerRefuses(w) PROVE TypeOK'
  BY <1>3 DEF BreakerRefuses, TypeOK, vars, breaker
<1>4. ASSUME NEW w \in Workers, BreakerAllows(w) PROVE TypeOK'
  <2>1. request' \in Requests
    BY <1>4, CountersOfTypes, RequestsAreTyped DEF BreakerAllows
  <2>2. 1 \in 0..Probes
    BY Configured
  <2>3. probes' \in 0..Probes
    <3>1. CASE probes' = probes + 1 /\ probes < Probes
      BY <3>1, Configured DEF TypeOK
    <3> QED
      BY <1>4, <2>2, <3>1 DEF BreakerAllows, TypeOK
  <2>4. successes' \in 0..Healthy - 1
    BY <1>4, ZerosAreTyped DEF BreakerAllows, TypeOK
  <2> QED
    BY <1>4, <2>1, <2>3, <2>4 DEF BreakerAllows, TypeOK, Requests
<1>5. ASSUME NEW w \in Workers, DrawEnds(w) PROVE TypeOK'
  BY <1>5 DEF DrawEnds, TypeOK, NoRequest
<1>6. ASSUME NEW w \in Workers, NEW l \in Latencies, NEW u \in Usages, Report(w, l, u)
      PROVE  TypeOK'
  <2>1. request' \in Requests
    BY <1>6, CountersOfTypes, RequestsAreTyped DEF Report
  <2>2. state' \in {"closed", "open", "halfOpen"} /\ cooled' \in BOOLEAN
    BY <1>6 DEF Report, TypeOK, Trip
  <2>3. overloads' \in 0..Trips - 1
    <3>1. CASE overloads' = overloads \/ overloads' = 0
      BY <3>1, ZerosAreTyped DEF TypeOK
    <3>2. CASE overloads' = overloads + 1 /\ ~(overloads + 1 >= Trips)
      BY <3>2 DEF TypeOK
    <3> QED
      BY <1>6, <3>1, <3>2 DEF Report, Trip
  <2>4. probes' \in 0..Probes
    BY <1>6, ZerosAreTyped DEF Report, TypeOK, Trip
  <2>5. successes' \in 0..Healthy - 1
    <3>1. CASE successes' = successes \/ successes' = 0
      BY <3>1, ZerosAreTyped DEF TypeOK
    <3>2. CASE successes' = successes + 1 /\ ~(successes + 1 >= Healthy)
      BY <3>2 DEF TypeOK
    <3> QED
      BY <1>6, <3>1, <3>2 DEF Report, Trip
  <2> QED
    BY <1>6, <2>1, <2>2, <2>3, <2>4, <2>5 DEF Report, TypeOK, Requests
<1> QED
  BY <1>1, <1>2, <1>3, <1>4, <1>5, <1>6 DEF BreakerNext

\* Every reachable state is well typed: the bucket never holds more than its
\* burst, the counters of the breaker never pass their thresholds.
THEOREM GuardsTypeCorrect == Spec => []TypeOK
<1>1. TypeOK /\ [Next]_vars => TypeOK'
  <2> SUFFICES ASSUME TypeOK, [Next]_vars PROVE TypeOK'
    OBVIOUS
  <2>1. CASE UNCHANGED vars
    BY <2>1 DEF vars, bucket, breaker, TypeOK
  <2> QED
    BY <2>1, BucketIsTyped, BreakerIsTyped DEF Next
<1> QED
  BY <1>1, InitIsTyped, PTL DEF Spec

-----------------------------------------------------------------------------
(* The rate *)

\* What the bucket holds and what it has let pass was in it at the last reset
\* or has been brought by the time up to the last refill.
Accounted == /\ since <= lastRefill
             /\ tokens + admitted * Cost <= Burst + (lastRefill - since)

LEMMA AdmittedGrains ==
    ASSUME NEW n \in Nat
    PROVE  n * Cost \in Nat /\ (n + 1) * Cost = n * Cost + Cost
BY ConstantsAssumption

LEMMA StepIsAccounted == ASSUME TypeOK, Accounted, [Next]_vars PROVE Accounted'
<1> USE ConstantsAssumption
<1>0. CASE UNCHANGED bucket
  BY <1>0 DEF bucket, Accounted
<1>1. CASE ResetBucket
  BY <1>1 DEF ResetBucket, Accounted, TypeOK
<1>2. ASSUME NEW w \in Workers, Measure(w) PROVE Accounted'
  BY <1>2 DEF Measure, Accounted
<1>3. ASSUME NEW w \in Workers, Allow(w) PROVE Accounted'
  <2> DEFINE t == Refilled(measured[w])
  <2>1. measured[w] \in 0..clock
    BY <1>3 DEF Allow, TypeOK
  <2>2. /\ t \in 0..Burst /\ lastRefill' \in 0..clock
        /\ lastRefill <= lastRefill'
        /\ t - tokens <= lastRefill' - lastRefill
    BY <1>3, <2>1, RefillIsTyped DEF Allow
  <2>3. since' = since
    BY <1>3 DEF Allow
  <2>4. t + admitted * Cost <= Burst + (lastRefill' - since)
    BY <2>2, AdmittedGrains DEF Accounted, TypeOK
  <2>5. tokens' + admitted' * Cost = t + admitted * Cost
    <3> HIDE DEF t
    <3>1. CASE tokens' = t /\ admitted' = admitted
      BY <3>1
    <3>2. CASE tokens' = t - Cost /\ admitted' = admitted + 1
      <4>1. admitted' * Cost = admitted * Cost + Cost
        BY <3>2, AdmittedGrains DEF TypeOK
      <4> QED
        BY <3>2, <4>1, <2>2, AdmittedGrains DEF TypeOK
    <3> QED
      BY <1>3, <3>1, <3>2 DEF Allow, t
  <2> QED
    BY <2>2, <2>3, <2>4, <2>5 DEF Accounted, TypeOK
<1>4. Tick \/ BreakerNext \/ UNCHANGED vars => UNCHANGED bucket
  BY DEF Tick, BreakerNext, vars, CoolingEnds, ResetBreaker, BreakerRefuses, BreakerAllows,
         DrawEnds, Report
<1> QED
  BY <1>0, <1>1, <1>2, <1>3, <1>4 DEF Next, BucketNext

\* However the goroutines that measured the time get the lock of the bucket,
\* no more requests pass than a full bucket and the time since then pay for.
THEOREM TheRateIsKept == Spec => []RateIsKept
<1>1. Init => Accounted
  BY ConstantsAssumption DEF Init, Accounted
<1>2. TypeOK /\ Accounted => RateIsKept
  BY ConstantsAssumption, AdmittedGrains DEF TypeOK, Accounted, RateIsKept
<1>3. Spec => []Accounted
  BY <1>1, StepIsAccounted, GuardsTypeCorrect, PTL DEF Spec
<1> QED
  BY <1>2, <1>3, GuardsTypeCorrect, PTL

-----------------------------------------------------------------------------
(* The breaker *)

\* The probes whose report the breaker still waits for.
Awaited == {w \in Workers : request[w].in /\ request[w].probe /\ ~request[w].reported}

\* While no probe has ended in silence, every probe of this Half-Open is
\* awaited or has brought its success.
ProbesAnswer ==
    state = "halfOpen" /\ ~silent => probes <= successes + Cardinality(Awaited)

LEMMA AwaitedIsFinite ==
    /\ IsFiniteSet(Awaited) /\ Cardinality(Awaited) \in Nat
    /\ IsFiniteSet(Awaited') /\ Cardinality(Awaited') \in Nat
<1>1. Awaited \subseteq Workers /\ Awaited' \subseteq Workers
  BY DEF Awaited
<1> QED
  BY <1>1, ConstantsAssumption, FS_Subset, FS_CardinalityType

LEMMA ProbesKeepAnswering == ASSUME TypeOK, ProbesAnswer, [Next]_vars PROVE ProbesAnswer'
<1> USE Configured
<1>0. CASE UNCHANGED breaker
  BY <1>0 DEF breaker, ProbesAnswer, Awaited
<1>1. CASE CoolingEnds \/ ResetBreaker
  BY <1>1 DEF CoolingEnds, ResetBreaker, ProbesAnswer
<1>2. ASSUME NEW w \in Workers, BreakerAllows(w), state' = "halfOpen" PROVE ProbesAnswer'
  <2>1. request' = Pass(w, TRUE) /\ ~request[w].in
    BY <1>2 DEF BreakerAllows
  <2>2. w \notin Awaited /\ Awaited' = Awaited \cup {w}
    BY <2>1 DEF Awaited, Pass, TypeOK
  <2>3. Cardinality(Awaited') = Cardinality(Awaited) + 1
    BY <2>2, AwaitedIsFinite, FS_AddElement
  <2>4. CASE state = "open"
    BY <1>2, <2>3, <2>4, AwaitedIsFinite DEF BreakerAllows, ProbesAnswer
  <2>5. CASE state = "halfOpen"
    BY <1>2, <2>3, <2>5, AwaitedIsFinite DEF BreakerAllows, ProbesAnswer, TypeOK
  <2> QED
    BY <1>2, <2>4, <2>5 DEF BreakerAllows
<1>3. ASSUME NEW w \in Workers, DrawEnds(w), ~silent' PROVE ProbesAnswer'
  <2>1. w \notin Awaited /\ ~silent
    BY <1>3 DEF DrawEnds, Awaited, TypeOK
  <2>2. Awaited' = Awaited
    BY <1>3, <2>1 DEF DrawEnds, Awaited, TypeOK, NoRequest
  <2> QED
    BY <1>3, <2>1, <2>2 DEF DrawEnds, ProbesAnswer
<1>4. ASSUME NEW w \in Workers, NEW l \in Latencies, NEW u \in Usages, Report(w, l, u),
             state' = "halfOpen"
      PROVE  ProbesAnswer'
  <2>1. /\ state = "halfOpen" /\ request' = Reports(w) /\ successes' = successes + 1
        /\ probes' = probes /\ silent' = silent
    BY <1>4 DEF Report, Trip
  <2>2. Awaited \subseteq Awaited' \cup {w}
    BY <2>1 DEF Awaited, Reports, TypeOK
  <2>3. Cardinality(Awaited) <= Cardinality(Awaited') + 1
    <3>1. IsFiniteSet(Awaited' \cup {w})
      BY AwaitedIsFinite, FS_AddElement
    <3>2. Cardinality(Awaited' \cup {w}) <= Cardinality(Awaited') + 1
      <4>1. CASE w \in Awaited'
        <5>1. Awaited' \cup {w} = Awaited'
          BY <4>1
        <5>2. Cardinality(Awaited') <= Cardinality(Awaited') + 1
          BY AwaitedIsFinite
        <5> QED
          BY <5>1, <5>2
      <4>2. CASE w \notin Awaited'
        <5>1. Cardinality(Awaited' \cup {w}) = Cardinality(Awaited') + 1
          BY <4>2, AwaitedIsFinite, FS_AddElement
        <5>2. Cardinality(Awaited') + 1 <= Cardinality(Awaited') + 1
          BY AwaitedIsFinite
        <5> QED
          BY <5>1, <5>2
      <4> QED
        BY <4>1, <4>2
    <3>3. Cardinality(Awaited) <= Cardinality(Awaited' \cup {w})
      BY <2>2, <3>1, FS_Subset
    <3> QED
      BY <3>1, <3>2, <3>3, AwaitedIsFinite, FS_CardinalityType
  <2> QED
    BY <2>1, <2>3, AwaitedIsFinite DEF ProbesAnswer, TypeOK
<1>5. BucketNext \/ UNCHANGED vars => UNCHANGED breaker
  BY DEF BucketNext, vars, Tick, ResetBucket, Measure, Allow
<1>6. ASSUME NEW w \in Workers, BreakerRefuses(w) PROVE ProbesAnswer'
  BY <1>0, <1>6 DEF BreakerRefuses, vars
<1>7. CASE BreakerNext
  <2>1. CASE state' # "halfOpen" \/ silent'
    BY <2>1 DEF ProbesAnswer
  <2> QED
    BY <2>1, <1>7, <1>1, <1>2, <1>3, <1>4, <1>6 DEF BreakerNext
<1> QED
  BY <1>0, <1>5, <1>7 DEF Next

\* Whatever the environment configures and however late the reports come, a
\* breaker stays half-open with nobody left to close it only after a probe that
\* ended without a report.
THEOREM AStuckBreakerHasItsReason == Spec => []StuckHasReason
<1>1. Init => ProbesAnswer
  BY DEF Init, ProbesAnswer
<1>2. TypeOK /\ ProbesAnswer => StuckHasReason
  <2> SUFFICES ASSUME TypeOK, ProbesAnswer, state = "halfOpen", probes = Probes,
                      \A w \in Workers : ~request[w].in, ~silent
               PROVE  FALSE
    BY DEF StuckHasReason
  <2>1. Awaited = {}
    BY DEF Awaited
  <2>2. Cardinality(Awaited) = 0
    BY <2>1, FS_EmptySet
  <2> QED
    BY <2>2, Configured DEF ProbesAnswer, TypeOK
<1>3. Spec => []ProbesAnswer
  BY <1>1, ProbesKeepAnswering, GuardsTypeCorrect, PTL DEF Spec
<1> QED
  BY <1>2, <1>3, GuardsTypeCorrect, PTL
=============================================================================
