------------------------------ MODULE PushProofs ------------------------------
(* Theorems about the pushes: the client that delivers a call, for every    *)
(* number of calls, every threshold, every bound on the attempts and every  *)
(* retry budget (RetryClient); the failure pushes of the relay's Backrest   *)
(* provider, for any operations and any number of webhooks (FailurePushes); *)
(* the pushes of its Grafana provider, for any groups and alerts            *)
(* (GrafanaGroups).                                                         *)
EXTENDS RetryClient, Sequences, SequenceTheorems, TLAPS

CONSTANTS
  Operations, MaxWebhooks,   \* FailurePushes
  PushGroups, GroupAlerts    \* GrafanaGroups

VARIABLES
  hook, failures, devices, went,   \* FailurePushes
  hooks, rows, device, posted      \* GrafanaGroups

Backrest == INSTANCE FailurePushes WITH handler <- hook, store <- failures, server <- devices, past <- went
Grafana == INSTANCE GrafanaGroups WITH
  Groups <- PushGroups, Alerts <- GroupAlerts, handler <- hooks, store <- rows, server <- device, past <- posted

---------------------------------------------------------------------------
(* The breaker as a value, for every threshold.                            *)

(* A new breaker is sound: breaker.go NewCircuitBreaker.                   *)
LEMMA NewSound ==
  ASSUME NEW threshold \in Nat \ {0}
  PROVE  Sound(NewCircuitBreaker, threshold)
BY DEF Sound, Breakers, BreakerStates, NewCircuitBreaker

(* Admission and the clock keep it sound: breaker.go Allow.                *)
LEMMA AllowSound ==
  ASSUME NEW threshold \in Nat \ {0}, NEW b, Sound(b, threshold)
  PROVE  Sound(AfterAllow(b), threshold) /\ Sound(CooldownOver(b), threshold)
<1>1. Sound(AfterAllow(b), threshold)
  BY DEF Sound, Breakers, BreakerStates, AfterAllow
<1>2. Sound(CooldownOver(b), threshold)
  BY DEF Sound, Breakers, BreakerStates, CooldownOver
<1>3. QED  BY <1>1, <1>2

(* So does every report, and no report leaves the breaker half-open: the   *)
(* verdict that settles a probe may come from any call: breaker.go         *)
(* RecordSuccess, RecordReachable, Abort.                                  *)
LEMMA ReportSound ==
  ASSUME NEW threshold \in Nat \ {0}, NEW b, Sound(b, threshold)
  PROVE  /\ Sound(RecordSuccess(b), threshold)   /\ RecordSuccess(b).state # "halfOpen"
         /\ Sound(RecordReachable(b), threshold) /\ RecordReachable(b).state # "halfOpen"
         /\ Sound(Abort(b), threshold)           /\ Abort(b).state # "halfOpen"
<1>1. Sound(RecordSuccess(b), threshold) /\ RecordSuccess(b).state # "halfOpen"
  BY NewSound DEF RecordSuccess, NewCircuitBreaker
<1>2. Sound(RecordReachable(b), threshold) /\ RecordReachable(b).state # "halfOpen"
  BY NewSound DEF RecordReachable, NewCircuitBreaker
<1>3. Sound(Abort(b), threshold) /\ Abort(b).state # "halfOpen"
  BY DEF Sound, Breakers, BreakerStates, Abort, Trip
<1>4. QED  BY <1>1, <1>2, <1>3

(* The same of a failure, which is counted when closed and trips when      *)
(* half-open: breaker.go RecordFailure.                                    *)
LEMMA FailureSound ==
  ASSUME NEW threshold \in Nat \ {0}, NEW b, Sound(b, threshold)
  PROVE  /\ Sound(RecordFailure(b, threshold), threshold)
         /\ RecordFailure(b, threshold).state # "halfOpen"
<1>1. CASE b.state = "closed"
  <2>1. CASE b.failures + 1 < threshold
    <3>1. RecordFailure(b, threshold) = [b EXCEPT !.failures = @ + 1]
      BY <1>1, <2>1 DEF RecordFailure, Sound, Breakers
    <3>2. QED  BY <1>1, <2>1, <3>1 DEF Sound, Breakers, BreakerStates
  <2>2. CASE b.failures + 1 >= threshold
    <3>1. RecordFailure(b, threshold) = Trip(b.failures + 1)
      BY <1>1, <2>2 DEF RecordFailure, Sound, Breakers
    <3>2. b.failures + 1 \in 0..threshold
      BY <1>1 DEF Sound, Breakers
    <3>3. QED  BY <3>1, <3>2 DEF Sound, Breakers, BreakerStates, Trip
  <2>3. QED  BY <2>1, <2>2 DEF Sound, Breakers
<1>2. CASE b.state = "halfOpen"
  <2>1. RecordFailure(b, threshold) = Trip(b.failures)  BY <1>2 DEF RecordFailure
  <2>2. QED  BY <1>2, <2>1 DEF Sound, Breakers, BreakerStates, Trip
<1>3. CASE b.state = "open"
  <2>1. RecordFailure(b, threshold) = b  BY <1>3 DEF RecordFailure
  <2>2. QED  BY <1>3, <2>1
<1>4. QED  BY <1>1, <1>2, <1>3 DEF Sound, Breakers, BreakerStates

---------------------------------------------------------------------------
(* The bound comes before the product, so a count of any size yields a     *)
(* delay from 0 to MaxRetryAfter: client.go boundedDelay.                  *)
LEMMA BoundedDelay ==
  ASSUME NEW n \in Int, NEW unit \in Nat \ {0}
  PROVE  boundedDelay(n, unit) \in 0..MaxRetryAfter
<1>1. CASE n <= 0
  BY <1>1, TimesAssumption DEF boundedDelay
<1>2. CASE n > 0 /\ n > MaxRetryAfter \div unit
  BY <1>2, TimesAssumption DEF boundedDelay
<1>3. CASE n > 0 /\ n <= MaxRetryAfter \div unit
  <2> DEFINE q == MaxRetryAfter \div unit
             r == MaxRetryAfter % unit
  <2>1. q \in Int /\ r \in 0..(unit - 1) /\ MaxRetryAfter = unit * q + r
    BY TimesAssumption
  <2>2. boundedDelay(n, unit) = n * unit
    <3>1. n > 0 /\ ~(n > q)  BY <1>3, <2>1
    <3>2. ~(n <= 0)  BY <3>1
    <3>3. boundedDelay(n, unit) =
            IF n <= 0 THEN 0 ELSE IF n > q THEN MaxRetryAfter ELSE n * unit
      BY DEF boundedDelay
    <3>4. QED
      <4> HIDE DEF q, r
      <4>1. QED  BY <3>1, <3>2, <3>3
  <2>3. n * unit >= 0  BY <1>3
  <2>4. n * unit <= unit * q
    <3> HIDE DEF q, r
    <3>1. q - n >= 0 /\ q - n \in Int  BY <1>3, <2>1 DEF q
    <3>2. (q - n) * unit >= 0  BY <3>1
    <3>3. (q - n) * unit = unit * q - n * unit  BY <2>1
    <3>4. QED  BY <3>2, <3>3, <2>1
  <2>5. QED
    <3> HIDE DEF q, r
    <3>1. QED  BY <2>1, <2>2, <2>3, <2>4, TimesAssumption
<1>4. QED  BY <1>1, <1>2, <1>3, TimesAssumption

(* What a throttled call is told to wait is clamped, whichever of the two  *)
(* hints it comes from: client.go throttleDelay.                           *)
THEOREM ThrottleDelayClamped ==
  ASSUME NEW header \in Int, NEW body \in Int, NEW unit \in Nat \ {0}
  PROVE  throttleDelay(header, unit, body) \in 0..MaxRetryAfter
<1>1. boundedDelay(header, unit) \in 0..MaxRetryAfter
  BY BoundedDelay
<1>2. boundedDelay(body, 1) \in 0..MaxRetryAfter
  BY BoundedDelay
<1>3. QED  BY <1>1, <1>2 DEF throttleDelay

---------------------------------------------------------------------------
(* The inductive invariant.  A call that is parked or on the wire has an   *)
(* attempt left to count, and the breaker is sound.                        *)
AttemptLeft ==
  \A c \in Calls : pc[c] \in {"sleeping", "sending"} => attempt[c] < MaxAttempts

IInv == TypeOK /\ Sound(cb, Threshold) /\ AttemptLeft /\ HalfOpenHasProbe

(* A call that returns leaves a breaker which is sound and not half-open,  *)
(* whatever it reports: the four outcomes of doWithRetryInto.              *)
LEMMA ReturnKeeps ==
  ASSUME IInv, NEW c \in Calls, NEW after,
         Sound(after, Threshold), after.state # "halfOpen",
         Return(c, after)
  PROVE  IInv'
<1> USE DEF IInv, Return
<1>1. TypeOK'
  BY ThresholdAssumption, AttemptsAssumption, TimesAssumption
  DEF TypeOK, PCs, Sound
<1>2. Sound(cb, Threshold)'  BY DEF Sound
<1>3. AttemptLeft'  BY DEF AttemptLeft, TypeOK
<1>4. HalfOpenHasProbe'  BY DEF HalfOpenHasProbe
<1>5. QED  BY <1>1, <1>2, <1>3, <1>4

(* The saturated clock of a call stays an integer: time.Since(start).      *)
LEMMA LaterType ==
  ASSUME TypeOK, NEW c \in Calls, NEW t \in Int
  PROVE  Later(c, t) \in Int
BY TimesAssumption DEF TypeOK, Later

(* A retry goes back to the loop with one more attempt counted.            *)
LEMMA RetryKeeps ==
  ASSUME IInv, NEW c \in Calls, pc[c] = "sending",
         NEW isThrottle \in BOOLEAN, NEW hint \in 0..MaxRetryAfter,
         Retry(c, isThrottle, hint)
  PROVE  IInv'
<1> USE DEF IInv, Retry
<1>1. PICK t \in RequestTimes : elapsed' = [elapsed EXCEPT ![c] = Later(c, t)]
  OBVIOUS
<1>2. Later(c, t) \in Int  BY LaterType, TimesAssumption
<1>3. attempt[c] + 1 \in 0..MaxAttempts
  BY AttemptsAssumption DEF TypeOK, AttemptLeft
<1>4. TypeOK'
  BY <1>1, <1>2, <1>3 DEF TypeOK, PCs
<1>5. Sound(cb, Threshold)'  BY DEF Sound
<1>6. AttemptLeft'  BY DEF AttemptLeft, TypeOK
<1>7. HalfOpenHasProbe'
  BY DEF HalfOpenHasProbe, Active, TypeOK
<1>8. QED  BY <1>4, <1>5, <1>6, <1>7

(* The initial state and every step of the client.                         *)
LEMMA Initially == Init => IInv
<1> SUFFICES ASSUME Init PROVE IInv  OBVIOUS
<1>1. Sound(cb, Threshold)  BY NewSound, ThresholdAssumption DEF Init
<1>2. TypeOK
  BY <1>1, AttemptsAssumption, TimesAssumption DEF Init, TypeOK, Sound, PCs
<1>3. AttemptLeft /\ HalfOpenHasProbe
  BY DEF Init, AttemptLeft, HalfOpenHasProbe, NewCircuitBreaker
<1>4. QED  BY <1>1, <1>2, <1>3 DEF IInv

LEMMA Stepwise == IInv /\ [Next]_vars => IInv'
<1> SUFFICES ASSUME IInv, [Next]_vars PROVE IInv'  OBVIOUS
<1>1. CASE UNCHANGED vars
  BY <1>1 DEF vars, loopVars, IInv, TypeOK, Sound, AttemptLeft, HalfOpenHasProbe, Active
<1>2. ASSUME NEW c \in Calls, Refused(c) PROVE IInv'
  BY <1>1, <1>2 DEF Refused
<1>3. ASSUME NEW c \in Calls, Admitted(c) PROVE IInv'
  <2> USE <1>3 DEF Admitted, IInv, loopVars
  <2>1. Sound(cb', Threshold)  BY AllowSound, ThresholdAssumption
  <2>2. TypeOK'  BY <2>1 DEF TypeOK, PCs, Sound
  <2>3. AttemptLeft'  BY DEF AttemptLeft, TypeOK
  <2>4. HalfOpenHasProbe'  BY DEF HalfOpenHasProbe, Active, TypeOK
  <2>5. QED  BY <2>1, <2>2, <2>3, <2>4 DEF Sound
<1>4. ASSUME NEW c \in Calls,
             MarshalFails(c) \/ CancelledAsleep(c) \/ RequestNotBuilt(c)
      PROVE  IInv'
  <2>1. Return(c, Abort(cb))  BY <1>4 DEF MarshalFails, CancelledAsleep, RequestNotBuilt
  <2>2. QED  BY <2>1, ReturnKeeps, ReportSound, ThresholdAssumption DEF IInv
<1>5. ASSUME NEW c \in Calls, Marshalled(c) \/ FirstAttempt(c) \/ WakeUp(c)
      PROVE  IInv'
  <2> USE <1>5 DEF Marshalled, FirstAttempt, WakeUp, IInv, loopVars
  <2>1. TypeOK'  BY DEF TypeOK, PCs
  <2>2. AttemptLeft'  BY AttemptsAssumption DEF AttemptLeft, TypeOK
  <2>3. HalfOpenHasProbe'  BY DEF HalfOpenHasProbe, Active, TypeOK
  <2>4. QED  BY <2>1, <2>2, <2>3 DEF Sound
<1>6. ASSUME NEW c \in Calls, Sleep(c) PROVE IInv'
  <2> USE <1>6 DEF IInv
  <2>1. PICK b \in BackoffsOf(c) : Park(c, b)  BY DEF Sleep
  <2>2. b \in Int
    BY <2>1 DEF BackoffsOf, Backoffs, TypeOK
  <2>3. Later(c, b) \in Int  BY <2>2, LaterType
  <2>4. TypeOK'  BY <2>1, <2>2, <2>3, TimesAssumption DEF TypeOK, PCs, Park
  <2>5. AttemptLeft'  BY <2>1, AttemptsAssumption DEF AttemptLeft, TypeOK, Park, Sleep
  <2>6. HalfOpenHasProbe'  BY <2>1 DEF HalfOpenHasProbe, Active, TypeOK, Park
  <2>7. QED  BY <2>1, <2>4, <2>5, <2>6 DEF Sound, Park
<1>7. ASSUME NEW c \in Calls, Exhausted(c) PROVE IInv'
  <2>1. Return(c, ExhaustedSignal(c))  BY <1>7 DEF Exhausted
  <2>2. Sound(ExhaustedSignal(c), Threshold) /\ ExhaustedSignal(c).state # "halfOpen"
    BY ReportSound, FailureSound, ThresholdAssumption DEF ExhaustedSignal, IInv
  <2>3. QED  BY <2>1, <2>2, ReturnKeeps
<1>8. ASSUME NEW c \in Calls, Failed(c) PROVE IInv'
  <2>1. 0 \in 0..MaxRetryAfter  BY TimesAssumption
  <2>2. pc[c] = "sending" /\ Retry(c, FALSE, 0)  BY <1>8 DEF Failed
  <2>3. QED  BY <2>1, <2>2, RetryKeeps
<1>9. ASSUME NEW c \in Calls, Throttled(c) PROVE IInv'
  <2>1. PICK header \in Hints \union {-1}, body \in Hints \union {-1}, unit \in {SecondTicks, 1} :
          Retry(c, TRUE, throttleDelay(header, unit, body))
    BY <1>9 DEF Throttled
  <2>2. throttleDelay(header, unit, body) \in 0..MaxRetryAfter
    BY ThrottleDelayClamped, TimesAssumption
  <2>3. QED  BY <1>9, <2>1, <2>2, RetryKeeps DEF Throttled
<1>10. ASSUME NEW c \in Calls, Rejected(c) \/ Succeeded(c) PROVE IInv'
  <2>1. Return(c, RecordReachable(cb)) \/ Return(c, RecordSuccess(cb))
    BY <1>10 DEF Rejected, Succeeded
  <2>2. QED  BY <2>1, ReturnKeeps, ReportSound, ThresholdAssumption DEF IInv
<1>11. ASSUME NEW c \in Calls, Cancel(c) PROVE IInv'
  <2> USE <1>11 DEF Cancel, loopVars, IInv
  <2>1. TypeOK'  BY DEF TypeOK
  <2>2. AttemptLeft'  BY DEF AttemptLeft
  <2>3. HalfOpenHasProbe'  BY DEF HalfOpenHasProbe, Active
  <2>4. QED  BY <2>1, <2>2, <2>3 DEF Sound
<1>12. CASE CooldownEnds
  <2>1. Sound(cb', Threshold) /\ cb'.state = cb.state
    BY <1>12, AllowSound, ThresholdAssumption
    DEF CooldownEnds, IInv, CooldownOver, Sound, Breakers
  <2>2. QED
    BY <1>12, <2>1
    DEF CooldownEnds, loopVars, IInv, TypeOK, Sound, AttemptLeft, HalfOpenHasProbe, Active
<1>13. QED
  BY <1>1, <1>2, <1>3, <1>4, <1>5, <1>6, <1>7, <1>8, <1>9, <1>10, <1>11, <1>12
  DEF Next, Advance, Answered

(* Type correctness of the client, for every instance.                     *)
THEOREM TypeCorrect == Spec => []TypeOK
<1>1. IInv => TypeOK  BY DEF IInv
<1>2. QED  BY <1>1, Initially, Stepwise, PTL DEF Spec

(* A half-open breaker is always owed a report by some call, so it can     *)
(* never refuse everyone for good: breaker.go Allow and Abort with every   *)
(* return of client.go doWithRetryInto.                                    *)
THEOREM NeverWedged == Spec => []HalfOpenHasProbe
<1>1. IInv => HalfOpenHasProbe  BY DEF IInv
<1>2. QED  BY <1>1, Initially, Stepwise, PTL DEF Spec
---------------------------------------------------------------------------
(* What a step may do to the breaker: the three parts of BreakerMoves.     *)
TripsOnFault ==
  cb.state = "closed" /\ cb'.state = "open" =>
    \E c \in Calls : pc[c] = "loop" /\ ~throttled[c] /\ pc'[c] = "idle"
StreakKept == cb.state = "closed" /\ cb'.failures < cb.failures => \E c \in Calls : Succeeded(c)
ProbeStands == cb.state = "open" /\ ~cb.cooling => ~(cb'.state = "open" /\ cb'.cooling)

(* A report that is neither a failure nor a success leaves a closed        *)
(* breaker as it is, and none of them starts a cooldown anew: breaker.go   *)
(* RecordReachable, Abort, RecordFailure.                                  *)
LEMMA ReportsOf ==
  ASSUME NEW b \in Breakers(Threshold)
  PROVE  /\ b.state = "closed" =>
              AfterAllow(b) = b /\ RecordReachable(b) = b /\ Abort(b) = b
         /\ b.state = "closed" => RecordFailure(b, Threshold).failures >= b.failures
         /\ b.state = "open" =>
              RecordReachable(b) = b /\ Abort(b) = b /\ RecordFailure(b, Threshold) = b
<1>1. CASE b.state = "closed"
  <2>1. AfterAllow(b) = b /\ RecordReachable(b) = b /\ Abort(b) = b
    BY <1>1 DEF AfterAllow, RecordReachable, Abort
  <2>2. b.failures \in Nat  BY DEF Breakers
  <2>3. CASE b.failures + 1 < Threshold
    <3>1. RecordFailure(b, Threshold) = [b EXCEPT !.failures = @ + 1]
      BY <1>1, <2>2, <2>3, ThresholdAssumption DEF RecordFailure
    <3>2. QED  BY <1>1, <2>1, <2>2, <3>1 DEF Breakers
  <2>4. CASE b.failures + 1 >= Threshold
    <3>1. RecordFailure(b, Threshold) = Trip(b.failures + 1)
      BY <1>1, <2>2, <2>4, ThresholdAssumption DEF RecordFailure
    <3>2. QED  BY <1>1, <2>1, <2>2, <3>1 DEF Trip
  <2>5. QED  BY <2>2, <2>3, <2>4, ThresholdAssumption
<1>2. CASE b.state = "open"
  BY <1>2 DEF RecordReachable, Abort, RecordFailure
<1>3. CASE b.state = "halfOpen"  BY <1>3
<1>4. QED  BY <1>1, <1>2, <1>3 DEF Breakers, BreakerStates

(* Every step keeps to the three parts, whichever call reports, and when.  *)
LEMMA StepMovesWell ==
  ASSUME IInv, [Next]_vars
  PROVE  TripsOnFault /\ StreakKept /\ ProbeStands
<1> USE DEF TripsOnFault, StreakKept, ProbeStands
<1>0. cb \in Breakers(Threshold) /\ cb.failures \in Nat  BY DEF IInv, TypeOK, Breakers
<1>1. CASE cb' = cb  BY <1>0, <1>1
<1>2. ASSUME NEW c \in Calls, Admitted(c) PROVE TripsOnFault /\ StreakKept /\ ProbeStands
  <2>1. cb' = AfterAllow(cb)  BY <1>2 DEF Admitted
  <2>2. cb.state = "open" /\ ~cb.cooling => cb'.state = "halfOpen"
    BY <1>0, <2>1 DEF AfterAllow, Breakers
  <2>3. QED  BY <1>0, <2>1, <2>2, ReportsOf
<1>3. ASSUME NEW c \in Calls, cb' = Abort(cb) \/ cb' = RecordReachable(cb)
      PROVE  TripsOnFault /\ StreakKept /\ ProbeStands
  BY <1>0, <1>3, ReportsOf
<1>4. ASSUME NEW c \in Calls, Exhausted(c) PROVE TripsOnFault /\ StreakKept /\ ProbeStands
  <2>1. CASE throttled[c]
    BY <1>3, <1>4, <2>1 DEF Exhausted, Return, ExhaustedSignal
  <2>2. CASE ~throttled[c]
    <3>1. cb' = RecordFailure(cb, Threshold)
      BY <1>4, <2>2 DEF Exhausted, Return, ExhaustedSignal
    <3>2. pc[c] = "loop" /\ pc'[c] = "idle"
      BY <1>4 DEF Exhausted, Return, IInv, TypeOK
    <3>3. RecordFailure(cb, Threshold).failures \in Nat
      BY <1>0, ThresholdAssumption, FailureSound DEF IInv, Sound, Breakers
    <3>4. QED  BY <1>0, <2>2, <3>1, <3>2, <3>3, ReportsOf
  <2>3. QED  BY <2>1, <2>2 DEF IInv, TypeOK
<1>5. ASSUME NEW c \in Calls, Succeeded(c) PROVE TripsOnFault /\ StreakKept /\ ProbeStands
  <2>1. cb'.state = "closed"  BY <1>5 DEF Succeeded, Return, RecordSuccess, NewCircuitBreaker
  <2>2. QED  BY <1>5, <2>1
<1>6. CASE CooldownEnds
  <2>1. cb'.state = cb.state /\ cb'.failures = cb.failures /\ cb'.cooling = FALSE
    BY <1>0, <1>6 DEF CooldownEnds, CooldownOver, Breakers
  <2>2. QED  BY <1>0, <2>1
<1>7. ASSUME NEW c \in Calls, MarshalFails(c) \/ CancelledAsleep(c) \/ RequestNotBuilt(c) \/ Rejected(c)
      PROVE  cb' = Abort(cb) \/ cb' = RecordReachable(cb)
  BY <1>7 DEF MarshalFails, CancelledAsleep, RequestNotBuilt, Rejected, Return
<1>8. ASSUME NEW c \in Calls,
             \/ Refused(c) \/ Marshalled(c) \/ FirstAttempt(c) \/ Sleep(c) \/ WakeUp(c)
             \/ Failed(c) \/ Throttled(c) \/ Cancel(c)
      PROVE  cb' = cb
  BY <1>8 DEF Refused, Marshalled, FirstAttempt, Sleep, Park, WakeUp, Failed, Throttled, Retry, Cancel, vars
<1>9. QED
  BY <1>1, <1>2, <1>3, <1>4, <1>5, <1>6, <1>7, <1>8 DEF Next, Advance, Answered, vars

(* Whatever the calls report and in whatever order, late ones included:    *)
(* only an exhausted call whose last answer was a fault opens the breaker, *)
(* only a success ends a streak, and nothing postpones a probe that is     *)
(* due: breaker.go with every outcome of client.go doWithRetryInto.        *)
THEOREM BreakerMovesWell == Spec => BreakerMoves
<1>1. IInv /\ [Next]_vars => [TripsOnFault]_vars /\ [StreakKept]_vars /\ [ProbeStands]_vars
  BY StepMovesWell
<1>2. Spec => [][TripsOnFault]_vars /\ [][StreakKept]_vars /\ [][ProbeStands]_vars
  BY <1>1, Initially, Stepwise, PTL DEF Spec
<1>3. QED
  BY <1>2 DEF BreakerMoves, OnlyFaultsTrip, StreakEndsOnSuccessOnly, ProbeNotPostponed,
              TripsOnFault, StreakKept, ProbeStands
---------------------------------------------------------------------------
(* ParkBounded.  With a budget, what was slept is part of what has elapsed *)
(* and never exceeds the budget; without one, every attempt but the first  *)
(* was waited for once at most.                                            *)
Waits(c) ==
  IF pc[c] \in {"sleeping", "sending"} \/ attempt[c] = 0 THEN attempt[c] ELSE attempt[c] - 1

Slept ==
  \A c \in Calls :
    /\ 0 <= parked[c] /\ 0 <= elapsed[c]
    /\ RetryBudget > 0 => parked[c] <= elapsed[c] /\ parked[c] <= RetryBudget
    /\ parked[c] <= Waits(c) * MaxRetryAfter

(* One more wait is one more share of the sum.                             *)
LEMMA OneMoreWait ==
  ASSUME NEW n \in Nat, NEW m \in Nat, NEW p \in Int, NEW b \in 0..m, p <= n * m
  PROVE  p + b <= (n + 1) * m
<1>1. n * m \in Int /\ (n + 1) * m = n * m + m  OBVIOUS
<1>2. QED  BY <1>1

(* Fewer waits are no larger sum.                                          *)
LEMMA FewerWaits ==
  ASSUME NEW n \in Nat, NEW k \in Nat, NEW m \in Nat, n <= k
  PROVE  n * m <= k * m /\ n * m \in Nat /\ k * m \in Nat
<1>1. (k - n) * m >= 0 /\ (k - n) * m = k * m - n * m  OBVIOUS
<1>2. n * m \in Nat /\ k * m \in Nat  OBVIOUS
<1>3. QED  BY <1>1, <1>2

(* A backoff is neither negative nor longer than the clamp.                *)
LEMMA BackoffClamped ==
  ASSUME TypeOK, NEW c \in Calls, attempt[c] \in 1..MaxAttempts - 1, NEW b \in BackoffsOf(c)
  PROVE  b \in 0..MaxRetryAfter
<1>1. CASE override[c] # 0  BY <1>1 DEF BackoffsOf, TypeOK
<1>2. CASE override[c] = 0
  <2>1. PICK base : base = SecondTicks * 2 ^ (attempt[c] - 1)  OBVIOUS
  <2>2. base \in 0..MaxRetryAfter  BY <2>1, BackoffAssumption
  <2>3. b \in (base \div 2)..(base - 1)  BY <1>2, <2>1 DEF BackoffsOf, Backoffs
  <2>4. base \div 2 >= 0  BY <2>2, TimesAssumption
  <2>5. QED  BY <2>2, <2>3, <2>4, TimesAssumption
<1>3. QED  BY <1>1, <1>2

(* A call that returns has slept nothing of its next life.                 *)
LEMMA ReturnSlept ==
  ASSUME IInv, Slept, NEW c \in Calls, NEW after, Return(c, after)
  PROVE  Slept'
<1>1. /\ pc'[c] = "idle" /\ attempt'[c] = 0 /\ parked'[c] = 0 /\ elapsed'[c] = 0
      /\ \A d \in Calls : d # c => /\ pc'[d] = pc[d] /\ attempt'[d] = attempt[d]
                                   /\ parked'[d] = parked[d] /\ elapsed'[d] = elapsed[d]
  BY DEF Return, IInv, TypeOK
<1>2. Waits(c)' = 0 /\ \A d \in Calls : d # c => Waits(d)' = Waits(d)  BY <1>1 DEF Waits
<1>3. 0 * MaxRetryAfter = 0  BY TimesAssumption
<1>4. QED  BY <1>1, <1>2, <1>3, TimesAssumption DEF Slept

(* A retry counts an attempt, and time passes.                             *)
LEMMA RetrySlept ==
  ASSUME IInv, Slept, NEW c \in Calls, pc[c] = "sending",
         NEW isThrottle \in BOOLEAN, NEW hint \in 0..MaxRetryAfter, Retry(c, isThrottle, hint)
  PROVE  Slept'
<1>1. PICK t \in RequestTimes : elapsed' = [elapsed EXCEPT ![c] = Later(c, t)]
  BY DEF Retry
<1>2. t \in Nat  BY TimesAssumption
<1>3. /\ pc'[c] = "loop" /\ attempt'[c] = attempt[c] + 1 /\ parked' = parked
      /\ elapsed'[c] = Later(c, t)
      /\ \A d \in Calls : d # c => /\ pc'[d] = pc[d] /\ attempt'[d] = attempt[d]
                                   /\ elapsed'[d] = elapsed[d]
  BY <1>1 DEF Retry, IInv, TypeOK
<1>4. attempt[c] \in Nat /\ elapsed[c] \in Int /\ parked[c] \in Int
  BY AttemptsAssumption DEF IInv, TypeOK
<1>5. Waits(c)' = Waits(c) /\ \A d \in Calls : d # c => Waits(d)' = Waits(d)
  BY <1>3, <1>4 DEF Waits
<1>6. Later(c, t) >= 0 /\ (RetryBudget > 0 => parked[c] <= Later(c, t))
  BY <1>2, <1>4, TimesAssumption DEF Later, Slept
<1>7. QED  BY <1>3, <1>5, <1>6 DEF Slept

(* A sleep is charged to the budget, or is the wait of this attempt.       *)
LEMMA SleepSlept ==
  ASSUME IInv, Slept, NEW c \in Calls, Sleep(c)
  PROVE  Slept'
<1>1. PICK b \in BackoffsOf(c) : ~OverBudget(c, b) /\ Park(c, b)  BY DEF Sleep
<1>2. pc[c] = "loop" /\ attempt[c] \in 1..MaxAttempts - 1  BY DEF Sleep
<1>3. b \in 0..MaxRetryAfter  BY <1>1, <1>2, BackoffClamped DEF IInv
<1>4. /\ pc'[c] = "sleeping" /\ attempt' = attempt /\ parked'[c] = parked[c] + b
      /\ elapsed'[c] = Later(c, b)
      /\ \A d \in Calls : d # c => /\ pc'[d] = pc[d] /\ parked'[d] = parked[d]
                                   /\ elapsed'[d] = elapsed[d]
  BY <1>1 DEF Park, IInv, TypeOK
<1>5. attempt[c] \in Nat /\ elapsed[c] \in Int /\ parked[c] \in Int
  BY AttemptsAssumption DEF IInv, TypeOK
<1>6. /\ Waits(c)' = attempt[c] /\ Waits(c) = attempt[c] - 1
      /\ \A d \in Calls : d # c => Waits(d)' = Waits(d)
  BY <1>2, <1>4, <1>5 DEF Waits
<1>7. parked'[c] <= Waits(c)' * MaxRetryAfter
  <2>1. PICK n \in Nat : n = attempt[c] - 1  BY <1>2, AttemptsAssumption
  <2>2. parked[c] <= n * MaxRetryAfter  BY <1>6, <2>1 DEF Slept
  <2>3. parked[c] + b <= (n + 1) * MaxRetryAfter
    BY <1>3, <1>5, <2>2, TimesAssumption, OneMoreWait
  <2>4. n + 1 = attempt[c]  BY <1>5, <2>1
  <2>5. QED  BY <1>4, <1>6, <2>3, <2>4
<1>8. /\ 0 <= parked'[c] /\ 0 <= elapsed'[c]
      /\ RetryBudget > 0 => parked'[c] <= elapsed'[c] /\ parked'[c] <= RetryBudget
  <2>1. 0 <= parked[c] /\ 0 <= elapsed[c]
        /\ (RetryBudget > 0 => parked[c] <= elapsed[c] /\ parked[c] <= RetryBudget)
    BY DEF Slept
  <2>2. CASE RetryBudget > 0
    <3>1. elapsed[c] + b <= RetryBudget
      BY <1>1, <1>3, <1>5, <2>2, TimesAssumption DEF OverBudget
    <3>2. Later(c, b) = elapsed[c] + b  BY <1>3, <1>5, <3>1, TimesAssumption DEF Later
    <3>3. QED  BY <1>3, <1>4, <1>5, <2>1, <3>1, <3>2, TimesAssumption
  <2>3. CASE ~(RetryBudget > 0)
    BY <1>3, <1>4, <1>5, <2>1, <2>3, TimesAssumption DEF Later
  <2>4. QED  BY <2>2, <2>3
<1>9. QED  BY <1>4, <1>6, <1>7, <1>8 DEF Slept

LEMMA SleptKept == IInv /\ Slept /\ [Next]_vars => Slept'
<1> SUFFICES ASSUME IInv, Slept, [Next]_vars PROVE Slept'
  OBVIOUS
<1>1. CASE UNCHANGED <<attempt, elapsed, parked, pc>>  BY <1>1 DEF Slept, Waits
<1>2. CASE CooldownEnds  BY <1>1, <1>2 DEF CooldownEnds, loopVars
<1>3. ASSUME NEW c \in Calls, Refused(c) \/ Cancel(c) PROVE Slept'
  BY <1>1, <1>3 DEF Refused, Cancel, vars, loopVars
<1>4. ASSUME NEW c \in Calls,
             Admitted(c) \/ Marshalled(c) \/ FirstAttempt(c) \/ WakeUp(c)
      PROVE  Slept'
  <2>1. /\ UNCHANGED <<attempt, elapsed, parked>>
        /\ \A d \in Calls : d # c => pc'[d] = pc[d]
        /\ \/ pc[c] = "sleeping" /\ pc'[c] = "sending"
           \/ attempt[c] = 0
           \/ pc[c] \in {"idle", "admitted"} /\ pc'[c] \in {"admitted", "loop"}
    BY <1>4 DEF Admitted, Marshalled, FirstAttempt, WakeUp, loopVars, IInv, TypeOK
  <2>2. \A d \in Calls : Waits(d)' = Waits(d)  BY <2>1 DEF Waits
  <2>3. QED  BY <2>1, <2>2 DEF Slept
<1>5. ASSUME NEW c \in Calls,
             \/ MarshalFails(c) \/ CancelledAsleep(c) \/ RequestNotBuilt(c)
             \/ Exhausted(c) \/ Rejected(c) \/ Succeeded(c)
      PROVE  Slept'
  <2>1. \E after : Return(c, after)
    BY <1>5 DEF MarshalFails, CancelledAsleep, RequestNotBuilt, Exhausted, Rejected, Succeeded
  <2>2. QED  BY <2>1, ReturnSlept
<1>6. ASSUME NEW c \in Calls, Sleep(c) PROVE Slept'  BY <1>6, SleepSlept
<1>7. ASSUME NEW c \in Calls, Failed(c) PROVE Slept'
  <2>1. 0 \in 0..MaxRetryAfter  BY TimesAssumption
  <2>2. pc[c] = "sending" /\ Retry(c, FALSE, 0)  BY <1>7 DEF Failed
  <2>3. QED  BY <2>1, <2>2, RetrySlept
<1>8. ASSUME NEW c \in Calls, Throttled(c) PROVE Slept'
  <2>1. PICK header \in Hints \union {-1}, body \in Hints \union {-1}, unit \in {SecondTicks, 1} :
          Retry(c, TRUE, throttleDelay(header, unit, body))
    BY <1>8 DEF Throttled
  <2>2. throttleDelay(header, unit, body) \in 0..MaxRetryAfter
    BY ThrottleDelayClamped, TimesAssumption
  <2>3. QED  BY <1>8, <2>1, <2>2, RetrySlept DEF Throttled
<1>9. QED
  BY <1>1, <1>2, <1>3, <1>4, <1>5, <1>6, <1>7, <1>8 DEF Next, Advance, Answered, vars, loopVars

(* Whatever a server says in Retry-After, one call sleeps no longer than   *)
(* its budget, or one clamped wait per retry: client.go doWithRetryInto.   *)
THEOREM SleepsWithinBudget == Spec => []ParkBounded
<1>1. Init => Slept
  <2>1. 0 * MaxRetryAfter = 0  BY TimesAssumption
  <2>2. QED  BY <2>1, TimesAssumption DEF Init, Slept, Waits
<1>2. IInv /\ Slept => ParkBounded
  <2> SUFFICES ASSUME IInv, Slept, NEW c \in Calls
               PROVE  parked[c] \in 0..IF RetryBudget > 0 THEN RetryBudget
                                        ELSE (MaxAttempts - 1) * MaxRetryAfter
    BY DEF ParkBounded
  <2>1. Waits(c) \in Nat /\ Waits(c) <= MaxAttempts - 1 /\ parked[c] \in Int
    BY AttemptsAssumption DEF Waits, IInv, TypeOK, AttemptLeft
  <2>2. MaxAttempts - 1 \in Nat /\ MaxRetryAfter \in Nat
    BY AttemptsAssumption, TimesAssumption
  <2>3. PICK k \in Nat : k = MaxAttempts - 1  BY <2>2
  <2>4. Waits(c) * MaxRetryAfter <= k * MaxRetryAfter
        /\ Waits(c) * MaxRetryAfter \in Nat /\ k * MaxRetryAfter \in Nat
    BY <2>1, <2>2, <2>3, FewerWaits
  <2>5. 0 <= parked[c] /\ parked[c] <= Waits(c) * MaxRetryAfter
        /\ (RetryBudget > 0 => parked[c] <= RetryBudget)
    BY DEF Slept
  <2>6. parked[c] <= k * MaxRetryAfter  BY <2>1, <2>4, <2>5
  <2>7. QED  BY <2>1, <2>3, <2>4, <2>5, <2>6, TimesAssumption
<1>3. QED  BY <1>1, <1>2, Initially, Stepwise, SleptKept, PTL DEF Spec

---------------------------------------------------------------------------
(* Failure pushes: where a webhook is, what it holds and what the record    *)
(* says of every id a key's pushes went out under.                          *)

\* No operation is named like the any-error alert, a success or nothing.
OperationsNamed == MaxWebhooks \in Nat /\ Operations \cap {Backrest!ANY, "", "success"} = {}

Gens == 0..MaxWebhooks
Alerts == Operations \union {Backrest!ANY}
Under(key) == IF key = Backrest!ANY THEN {Backrest!ANY} ELSE Operations
Shown == Alerts \union {"", "success"}

Record(slug, op, gen) == [slug |-> slug, op |-> op, gen |-> gen]

TypedPast ==
  /\ went = [failing |-> went.failing, newest |-> went.newest, delivered |-> went.delivered, hurt |-> went.hurt]
  /\ went.delivered \in Gens /\ went.hurt \in BOOLEAN

TypedPushes ==
  /\ went.failing \subseteq Alerts /\ went.newest \in [Backrest!Keys -> Shown]
  /\ devices \in [shows : [Backrest!Keys -> [Gens -> Shown]], silent : SUBSET (Backrest!Keys \X Gens)]
  /\ \A key \in Backrest!Keys : went.newest[key] \in Under(key) \union {"", "success"}
  /\ failures = [key \in Backrest!Keys |-> Record(failures[key].slug, failures[key].op, failures[key].gen)]
  /\ hook = [op |-> hook.op, problem |-> hook.problem, pushes |-> hook.pushes, rec |-> hook.rec,
             under |-> hook.under, plan |-> hook.plan]
  /\ hook.rec = Record(hook.rec.slug, hook.rec.op, hook.rec.gen)

\* The ids of a key after a failure's are fresh and those before it taken back.
FreshFrom(key, shows, silent, current) ==
  /\ \A gen \in Gens :
       /\ gen > current => shows[gen] = "" /\ <<key, gen>> \notin silent
       /\ gen < current => shows[gen] = "" \/ <<key, gen>> \in silent
  /\ <<key, current>> \notin silent

\* A record's own id shows the failure, or with none nothing that fails.
ShownAs(key, word, newest, rec, failing) ==
  \/ rec.slug = <<>> /\ word \in {"", "success"} /\ newest \notin failing
  \/ /\ rec.slug = <<key, rec.gen>> /\ rec.op \in failing /\ rec.op \in Under(key)
     /\ newest = rec.op /\ word = rec.op

KeptAs(key, shows, silent, newest, rec, failing, top) ==
  /\ rec.gen \in 0..top
  /\ FreshFrom(key, shows, silent, rec.gen)
  /\ ShownAs(key, shows[rec.gen], newest, rec, failing)

Kept(key, rec, failing, top) ==
  KeptAs(key, devices.shows[key], devices.silent, went.newest[key], rec, failing, top)

AllKept(failing, top) == \A key \in Backrest!Keys : Kept(key, failures[key], failing, top)

Rise == went.failing \union {hook.op}
Fall == went.failing \ {hook.op, Backrest!ANY}
Before == went.delivered - 1
Mine == Backrest!Key(hook.op)
Cleared == Record(<<>>, "", hook.rec.gen)

\* Where a webhook is: what is left of its plan, and what holds meanwhile.
Problem(plan) == hook.problem /\ hook.op \in Alerts /\ hook.plan = plan /\ 0 < went.delivered
Success(plan) ==
  /\ ~hook.problem /\ hook.op \in Operations /\ hook.plan = plan /\ 0 < went.delivered
  /\ hook.under = <<>> \/ hook.under = <<"plan", hook.under[2]>>

ProblemComes ==
  /\ Problem(<<"load", "notify", "record">>)
  /\ hook.under = <<>> /\ AllKept(went.failing, went.delivered)
ProblemLoaded ==
  /\ Problem(<<"notify", "record">>)
  /\ hook.under = <<>> /\ AllKept(went.failing, went.delivered) /\ hook.rec = failures[Mine]
ProblemPushed ==
  /\ Problem(<<"record">>) /\ hook.under = <<Mine, hook.rec.gen>>
  /\ \A key \in Backrest!Keys \ {Mine} : Kept(key, failures[key], went.failing, went.delivered)
  /\ Kept(Mine, Record(hook.under, hook.op, hook.rec.gen), Rise, went.delivered)
ProblemOver == Problem(<<>>) /\ AllKept(Rise, went.delivered)

AnyKept == Kept(Backrest!ANY, failures[Backrest!ANY], went.failing, Before)
PlanKept == Kept("plan", failures["plan"], Fall, went.delivered)

SuccessComes ==
  /\ \/ Success(<<"load", "notify", "clear", "loadAny", "clear">>)
     \/ Success(<<"load", "clear", "loadAny", "clear">>)
  /\ hook.under = <<>> /\ AllKept(went.failing, Before)
SuccessLoaded ==
  /\ Success(<<"notify", "clear", "loadAny", "clear">>)
  /\ hook.under = <<>> /\ AllKept(went.failing, Before) /\ hook.rec = failures["plan"]
SuccessPushed ==
  /\ Success(<<"clear", "loadAny", "clear">>) /\ hook.rec = failures["plan"] /\ AnyKept
  /\ hook.rec.slug = <<>> \/ hook.rec.slug = <<"plan", hook.rec.gen>>
  /\ \/ hook.under = <<>> /\ Kept("plan", hook.rec, went.failing, Before)
     \/ hook.under = <<"plan", hook.rec.gen>> /\ Kept("plan", Cleared, went.failing, Before)
PlanTaken ==
  /\ Success(<<"save", "loadAny", "clear">>) /\ hook.rec.slug[1] = "plan"
  /\ AnyKept /\ Kept("plan", Cleared, Fall, went.delivered)
PlanOver == Success(<<"loadAny", "clear">>) /\ AnyKept /\ PlanKept
AnyLoaded == Success(<<"clear">>) /\ hook.rec = failures[Backrest!ANY] /\ AnyKept /\ PlanKept
AnyTaken ==
  /\ Success(<<"save">>) /\ hook.rec.slug[1] = Backrest!ANY
  /\ Kept(Backrest!ANY, Cleared, Fall, went.delivered) /\ PlanKept
SuccessOver == Success(<<>>) /\ AllKept(Fall, went.delivered)

Resting == hook = Backrest!Idle /\ AllKept(went.failing, went.delivered)

Stages ==
  \/ Resting \/ ProblemComes \/ ProblemLoaded \/ ProblemPushed \/ ProblemOver
  \/ SuccessComes \/ SuccessLoaded \/ SuccessPushed
  \/ PlanTaken \/ PlanOver \/ AnyLoaded \/ AnyTaken \/ SuccessOver

FInv == TypedPast /\ (~went.hurt => TypedPushes /\ Stages)

\* What is left of a plan once its first call is made.
LEMMA PushPlans ==
  /\ \A call, a : <<call, a>> # <<>> /\ Head(<<call, a>>) = call /\ Tail(<<call, a>>) = <<a>>
  /\ \A call : <<call>> # <<>> /\ Head(<<call>>) = call /\ Tail(<<call>>) = <<>>
  /\ \A call, a, b : <<call, a, b>> # <<>> /\ Head(<<call, a, b>>) = call /\ Tail(<<call, a, b>>) = <<a, b>>
  /\ Tail(<<"load", "notify", "clear", "loadAny", "clear">>) = <<"notify", "clear", "loadAny", "clear">>
  /\ Tail(<<"load", "clear", "loadAny", "clear">>) = <<"clear", "loadAny", "clear">>
  /\ Tail(<<"notify", "clear", "loadAny", "clear">>) = <<"clear", "loadAny", "clear">>
OBVIOUS

LEMMA WhichStage ==
  ASSUME FInv, ~went.hurt, NEW call, Backrest!Calls(call)
  PROVE  /\ TypedPushes
         /\ call = "load" => ProblemComes \/ SuccessComes
         /\ call = "loadAny" => PlanOver
         /\ call = "notify" => ProblemLoaded \/ SuccessLoaded
         /\ call = "record" => ProblemPushed
         /\ call = "clear" => SuccessPushed \/ AnyLoaded
         /\ call = "save" => PlanTaken \/ AnyTaken
<1>1. TypedPushes /\ Stages /\ hook.plan # <<>> /\ Head(hook.plan) = call  BY DEF FInv, Backrest!Calls
<1>2. Resting => hook.plan = <<>>
  <2>1. Backrest!Idle.plan = <<>>  BY DEF Backrest!Idle
  <2>2. QED  BY <2>1 DEF Resting
<1>3. /\ ProblemComes => Head(hook.plan) = "load"
      /\ ProblemLoaded => Head(hook.plan) = "notify"
      /\ ProblemPushed => Head(hook.plan) = "record"
      /\ ProblemOver => hook.plan = <<>>
  BY PushPlans DEF ProblemComes, ProblemLoaded, ProblemPushed, ProblemOver, Problem
<1>4. /\ SuccessComes => Head(hook.plan) = "load"
      /\ SuccessLoaded => Head(hook.plan) = "notify"
      /\ SuccessPushed => Head(hook.plan) = "clear"
      /\ SuccessOver => hook.plan = <<>>
  BY PushPlans DEF SuccessComes, SuccessLoaded, SuccessPushed, SuccessOver, Success
<1>5. /\ PlanTaken => Head(hook.plan) = "save"
      /\ PlanOver => Head(hook.plan) = "loadAny"
      /\ AnyLoaded => Head(hook.plan) = "clear"
      /\ AnyTaken => Head(hook.plan) = "save"
  BY PushPlans DEF PlanTaken, PlanOver, AnyLoaded, AnyTaken, Success
<1>6. QED  BY <1>1, <1>2, <1>3, <1>4, <1>5 DEF Stages

\* A sequence is its head before its tail.
LEMMA HeadFirst ==
  ASSUME NEW S, NEW s \in Seq(S), s # <<>>
  PROVE  <<Head(s)>> \o Tail(s) = s
<1>1. Len(s) \in Nat \ {0} /\ Head(s) = s[1] /\ Head(s) \in S  OBVIOUS
<1>2. Tail(s) \in Seq(S) /\ Len(Tail(s)) = Len(s) - 1 /\ \A i \in 1..Len(Tail(s)) : Tail(s)[i] = s[i + 1]
  BY HeadTailProperties
<1>3. <<Head(s)>> \in Seq(S) /\ Len(<<Head(s)>>) = 1 /\ <<Head(s)>>[1] = Head(s)  BY <1>1
<1> DEFINE head == <<Head(s)>>
           tail == Tail(s)
           whole == head \o tail
<1> HIDE DEF head, tail
<1>4. head \in Seq(S) /\ Len(head) = 1 /\ head[1] = s[1]  BY <1>1, <1>3 DEF head
<1>5. tail \in Seq(S) /\ Len(tail) = Len(s) - 1 /\ \A i \in 1..Len(tail) : tail[i] = s[i + 1]
  BY <1>2 DEF tail
<1>6. whole \in Seq(S) /\ Len(whole) = Len(s)
      /\ \A i \in 1..Len(s) : whole[i] = IF i =< 1 THEN head[i] ELSE tail[i - 1]
  <2>1. /\ head \o tail \in Seq(S) /\ Len(head \o tail) = Len(head) + Len(tail)
        /\ \A i \in 1 .. Len(head) + Len(tail) :
             (head \o tail)[i] = IF i <= Len(head) THEN head[i] ELSE tail[i - Len(head)]
    <3>1. \A a, b \in Seq(S) : /\ a \o b \in Seq(S) /\ Len(a \o b) = Len(a) + Len(b)
                                /\ \A i \in 1 .. Len(a) + Len(b) :
                                     (a \o b)[i] = IF i <= Len(a) THEN a[i] ELSE b[i - Len(a)]
      BY ConcatProperties
    <3>2. QED  BY <3>1, <1>4, <1>5
  <2>2. Len(head) + Len(tail) = Len(s)  BY <1>1, <1>4, <1>5
  <2>3. QED  BY <1>4, <2>1, <2>2
<1>7. \A i \in 1..Len(s) : whole[i] = s[i]
  <2> TAKE i \in 1..Len(s)
  <2>1. CASE i = 1  BY <1>1, <1>4, <1>6, <2>1
  <2>2. CASE i # 1
    <3>1. i - 1 \in 1..Len(tail) /\ ~(i =< 1)  BY <1>1, <1>5, <2>2
    <3>2. tail[i - 1] = s[(i - 1) + 1]  BY <1>5, <3>1
    <3>3. QED  BY <1>6, <3>1, <3>2
  <2>3. QED  BY <2>1, <2>2
<1> HIDE DEF whole
<1>8. whole = s  BY <1>6, <1>7, SeqEqual
<1>9. QED  BY <1>8 DEF whole, head, tail

Words == {"load", "notify", "loadAny", "clear", "save"}
\* A plan is put together of its calls.
LEMMA PlansJoin ==
  /\ <<"save">> \o <<"loadAny", "clear">> = <<"save", "loadAny", "clear">>
  /\ <<"save">> \o <<>> = <<"save">>
  /\ (<<"load">> \o <<"notify">>) \o <<"clear", "loadAny", "clear">> = <<"load", "notify", "clear", "loadAny", "clear">>
  /\ (<<"load">> \o <<>>) \o <<"clear", "loadAny", "clear">> = <<"load", "clear", "loadAny", "clear">>
<1>1. ASSUME NEW s \in Seq(Words), s # <<>>, NEW first, NEW rest, first = Head(s), rest = Tail(s)
      PROVE  <<first>> \o rest = s
  BY <1>1, HeadFirst
<1>2. <<"save">> \o <<"loadAny", "clear">> = <<"save", "loadAny", "clear">>
  <2>1. <<"save", "loadAny", "clear">> \in Seq(Words) /\ <<"save", "loadAny", "clear">> # <<>>  BY DEF Words
  <2>2. Head(<<"save", "loadAny", "clear">>) = "save" /\ Tail(<<"save", "loadAny", "clear">>) = <<"loadAny", "clear">>
    OBVIOUS
  <2>3. QED  BY <1>1, <2>1, <2>2
<1>3. <<"save">> \o <<>> = <<"save">>
  <2>1. <<"save">> \in Seq(Words) /\ <<"save">> # <<>>  BY DEF Words
  <2>2. Head(<<"save">>) = "save" /\ Tail(<<"save">>) = <<>>  OBVIOUS
  <2>3. QED  BY <1>1, <2>1, <2>2
<1>4. <<"load">> \o <<>> = <<"load">>
  <2>1. <<"load">> \in Seq(Words) /\ <<"load">> # <<>>  BY DEF Words
  <2>2. Head(<<"load">>) = "load" /\ Tail(<<"load">>) = <<>>  OBVIOUS
  <2>3. QED  BY <1>1, <2>1, <2>2
<1>5. <<"notify">> \o <<"clear", "loadAny", "clear">> = <<"notify", "clear", "loadAny", "clear">>
  <2>1. <<"notify", "clear", "loadAny", "clear">> \in Seq(Words) /\ <<"notify", "clear", "loadAny", "clear">> # <<>>
    BY DEF Words
  <2>2. /\ Head(<<"notify", "clear", "loadAny", "clear">>) = "notify"
        /\ Tail(<<"notify", "clear", "loadAny", "clear">>) = <<"clear", "loadAny", "clear">>
    OBVIOUS
  <2>3. QED  BY <1>1, <2>1, <2>2
<1>6. <<"load">> \o <<"notify", "clear", "loadAny", "clear">> = <<"load", "notify", "clear", "loadAny", "clear">>
  <2>1. /\ <<"load", "notify", "clear", "loadAny", "clear">> \in Seq(Words)
        /\ <<"load", "notify", "clear", "loadAny", "clear">> # <<>>
    BY DEF Words
  <2>2. /\ Head(<<"load", "notify", "clear", "loadAny", "clear">>) = "load"
        /\ Tail(<<"load", "notify", "clear", "loadAny", "clear">>) = <<"notify", "clear", "loadAny", "clear">>
    OBVIOUS
  <2>3. QED  BY <1>1, <2>1, <2>2
<1>7. <<"load">> \o <<"clear", "loadAny", "clear">> = <<"load", "clear", "loadAny", "clear">>
  <2>1. <<"load", "clear", "loadAny", "clear">> \in Seq(Words) /\ <<"load", "clear", "loadAny", "clear">> # <<>>
    BY DEF Words
  <2>2. /\ Head(<<"load", "clear", "loadAny", "clear">>) = "load"
        /\ Tail(<<"load", "clear", "loadAny", "clear">>) = <<"clear", "loadAny", "clear">>
    OBVIOUS
  <2>3. QED  BY <1>1, <2>1, <2>2
<1>8. (<<"load">> \o <<"notify">>) \o <<"clear", "loadAny", "clear">>
        = <<"load">> \o (<<"notify">> \o <<"clear", "loadAny", "clear">>)
  <2>1. <<"load">> \in Seq(Words) /\ <<"notify">> \in Seq(Words) /\ <<"clear", "loadAny", "clear">> \in Seq(Words)
    BY DEF Words
  <2>2. QED  BY <2>1, ConcatAssociative
<1>9. QED  BY <1>2, <1>3, <1>4, <1>5, <1>6, <1>7, <1>8


LEMMA NoPair == ASSUME NEW a, NEW b PROVE <<a, b>> # <<>>
OBVIOUS

\* A failure's record fits under a higher bound.
LEMMA KeptMore ==
  ASSUME NEW key, NEW shows, NEW silent, NEW newest, NEW rec, NEW failing, NEW top \in Int, NEW more \in Int,
         KeptAs(key, shows, silent, newest, rec, failing, top), top =< more
  PROVE  KeptAs(key, shows, silent, newest, rec, failing, more)
<1>1. rec.gen \in 0..top  BY DEF KeptAs
<1>2. rec.gen \in 0..more  BY <1>1
<1>3. QED  BY <1>2 DEF KeptAs

\* An operation that fails under another key changes nothing of this one.
LEMMA KeptRise ==
  ASSUME NEW key, NEW shows, NEW silent, NEW newest, NEW rec, NEW failing, NEW top, NEW op,
         KeptAs(key, shows, silent, newest, rec, failing, top), newest # op
  PROVE  KeptAs(key, shows, silent, newest, rec, failing \union {op}, top)
<1>1. ShownAs(key, shows[rec.gen], newest, rec, failing \union {op})  BY DEF KeptAs, ShownAs
<1>2. QED  BY <1>1 DEF KeptAs

\* Nor does the success of another operation.
LEMMA KeptFall ==
  ASSUME NEW key, NEW shows, NEW silent, NEW newest, NEW rec, NEW failing, NEW top, NEW op, NEW any,
         KeptAs(key, shows, silent, newest, rec, failing, top), rec.slug = <<>> \/ rec.op \notin {op, any}
  PROVE  KeptAs(key, shows, silent, newest, rec, failing \ {op, any}, top)
<1>1. ShownAs(key, shows[rec.gen], newest, rec, failing \ {op, any})  BY NoPair DEF KeptAs, ShownAs
<1>2. QED  BY <1>1 DEF KeptAs

\* A retract that lands takes down what was taken back.
LEMMA KeptLand ==
  ASSUME NEW key, NEW shows, NEW silent, NEW newest, NEW rec, NEW failing, NEW top,
         KeptAs(key, shows, silent, newest, rec, failing, top), NEW gen \in Gens, <<key, gen>> \in silent,
         NEW after, after = [shows EXCEPT ![gen] = ""], DOMAIN shows = Gens, rec.gen \in Gens
  PROVE  KeptAs(key, after, silent \ {<<key, gen>>}, newest, rec, failing, top)
<1>1. gen # rec.gen /\ ~(gen > rec.gen)  BY DEF KeptAs, FreshFrom
<1>2. after[gen] = "" /\ \A g \in Gens : g # gen => after[g] = shows[g]  OBVIOUS
<1>3. FreshFrom(key, after, silent \ {<<key, gen>>}, rec.gen)
  <2>1. \A g \in Gens : g # gen => <<key, g>> # <<key, gen>>  OBVIOUS
  <2>2. QED  BY <1>1, <1>2, <2>1 DEF KeptAs, FreshFrom
<1>4. QED  BY <1>1, <1>2, <1>3 DEF KeptAs

\* One of another key takes nothing down here.
LEMMA KeptElsewhere ==
  ASSUME NEW key, NEW shows, NEW silent, NEW newest, NEW rec, NEW failing, NEW top,
         KeptAs(key, shows, silent, newest, rec, failing, top), NEW after,
         \A gen : <<key, gen>> \in silent <=> <<key, gen>> \in after
  PROVE  KeptAs(key, shows, after, newest, rec, failing, top)
<1>1. FreshFrom(key, shows, after, rec.gen)  BY DEF KeptAs, FreshFrom
<1>2. QED  BY <1>1 DEF KeptAs

\* A push under the id of a record replaces what its id shows.
LEMMA KeptPushed ==
  ASSUME NEW key, NEW shows, NEW silent, NEW newest, NEW rec, NEW failing, NEW top, NEW more,
         KeptAs(key, shows, silent, newest, rec, failing, top), rec.gen \in Gens,
         NEW word, NEW after, after[rec.gen] = word, \A g \in Gens : g # rec.gen => after[g] = shows[g],
         NEW new, new.gen = rec.gen, ShownAs(key, word, word, new, more)
  PROVE  KeptAs(key, after, silent, word, new, more, top)
<1>1. after[rec.gen] = word /\ \A g \in Gens : g # rec.gen => after[g] = shows[g]  OBVIOUS
<1>2. FreshFrom(key, after, silent, rec.gen)
  <2>1. rec.gen \in Int /\ \A g \in Gens : g \in Int  BY DEF Gens
  <2>2. \A g \in Gens : g > rec.gen \/ g < rec.gen => g # rec.gen  BY <2>1
  <2>3. QED  BY <1>1, <2>2 DEF KeptAs, FreshFrom
<1>3. QED  BY <1>1, <1>2 DEF KeptAs

\* A failure that a success takes back leaves a fresh id.
LEMMA KeptRetracted ==
  ASSUME NEW key, NEW shows, NEW silent, NEW newest, NEW rec, NEW failing, NEW top \in Int,
         KeptAs(key, shows, silent, newest, rec, failing, top), rec.slug # <<>>, top < MaxWebhooks,
         OperationsNamed, NEW less, rec.op \notin less, NEW new, new.gen = rec.gen + 1, new.slug = <<>>
  PROVE  KeptAs(key, shows, silent \union {<<key, rec.gen>>}, newest, new, less, top + 1)
<1> DEFINE after == silent \union {<<key, rec.gen>>}
<1>1. rec.gen \in Int /\ rec.gen >= 0 /\ rec.gen =< top /\ MaxWebhooks \in Int
  <2>1. rec.gen \in 0..top /\ MaxWebhooks \in Nat  BY DEF KeptAs, OperationsNamed
  <2>2. QED  BY <2>1
<1>2. new.gen \in Gens /\ new.gen \in 0..top + 1 /\ new.gen > rec.gen  BY <1>1 DEF Gens
<1>3. new.gen \in Int /\ new.gen = rec.gen + 1 /\ \A gen \in Gens : gen \in Int  BY <1>1 DEF Gens
<1>4. \A gen : <<key, gen>> \in after => gen = rec.gen \/ <<key, gen>> \in silent  OBVIOUS
<1>5. <<key, rec.gen>> \in after /\ \A pair \in silent : pair \in after  OBVIOUS
<1>6. \A gen \in Gens :
        /\ gen > rec.gen => shows[gen] = "" /\ <<key, gen>> \notin silent
        /\ gen < rec.gen => shows[gen] = "" \/ <<key, gen>> \in silent
  BY DEF KeptAs, FreshFrom
<1>7. \A gen \in Gens :
        /\ gen > new.gen => shows[gen] = "" /\ <<key, gen>> \notin after
        /\ gen < new.gen => shows[gen] = "" \/ <<key, gen>> \in after
  <2> TAKE gen \in Gens
  <2>1. gen \in Int  BY <1>3
  <2>2. gen > new.gen => gen > rec.gen /\ gen # rec.gen  BY <1>1, <1>3, <2>1
  <2>3. gen < new.gen => gen < rec.gen \/ gen = rec.gen  BY <1>1, <1>3, <2>1
  <2>4. QED  BY <2>2, <2>3, <1>4, <1>5, <1>6
<1>8. shows[new.gen] = "" /\ <<key, new.gen>> \notin after
  <2>1. new.gen # rec.gen  BY <1>1, <1>3
  <2>2. QED  BY <1>2, <1>4, <1>6, <2>1
<1>9. ShownAs(key, shows[new.gen], newest, new, less)
  <2>1. newest \notin less  BY DEF KeptAs, ShownAs
  <2>2. QED  BY <1>8, <2>1 DEF ShownAs
<1>10. FreshFrom(key, shows, after, new.gen)  BY <1>7, <1>8 DEF FreshFrom
<1>11. QED  BY <1>2, <1>9, <1>10 DEF KeptAs

LEMMA PushFault == ASSUME FInv, Backrest!Fault PROVE FInv'
BY DEF FInv, TypedPast, Backrest!Fault

\* What FInv says of the webhooks' record.
LEMMA WentIs ==
  ASSUME FInv, OperationsNamed
  PROVE  /\ went = [failing |-> went.failing, newest |-> went.newest, delivered |-> went.delivered, hurt |-> went.hurt]
         /\ went.delivered \in Int /\ went.delivered >= 0 /\ went.delivered =< MaxWebhooks /\ MaxWebhooks \in Int
         /\ went.hurt \in BOOLEAN
<1>1. TypedPast /\ went.delivered \in Gens  BY DEF FInv, TypedPast
<1>2. MaxWebhooks \in Nat  BY DEF OperationsNamed
<1>3. \A gen \in Gens : gen \in Int /\ gen >= 0 /\ gen =< MaxWebhooks  BY <1>2 DEF Gens
<1>4. QED  BY <1>1, <1>2, <1>3 DEF TypedPast

LEMMA PushInit == ASSUME OperationsNamed, Backrest!Init PROVE FInv
<1>1. /\ hook = Backrest!Idle /\ failures = [k \in Backrest!Keys |-> Backrest!NoFailure]
      /\ devices = [shows |-> [k \in Backrest!Keys |-> [gen \in Gens |-> ""]], silent |-> {}]
      /\ went = [failing |-> {}, newest |-> [k \in Backrest!Keys |-> ""], delivered |-> 0, hurt |-> FALSE]
  BY DEF Backrest!Init, Gens
<1>2. 0 \in Gens
  <2>1. MaxWebhooks \in Nat  BY DEF OperationsNamed
  <2>2. QED  BY <2>1 DEF Gens
<1>3. TypedPast  BY <1>1, <1>2 DEF TypedPast, Shown
<1>4. TypedPushes
  <2>1. devices \in [shows : [Backrest!Keys -> [Gens -> Shown]], silent : SUBSET (Backrest!Keys \X Gens)]
    BY <1>1 DEF Shown
  <2>2. \A key \in Backrest!Keys : went.newest[key] \in Under(key) \union {"", "success"}  BY <1>1
  <2>3. \A key \in Backrest!Keys : failures[key] = Record(<<>>, "", 0)  BY <1>1 DEF Record, Backrest!NoFailure
  <2>4. failures = [key \in Backrest!Keys |-> Record(failures[key].slug, failures[key].op, failures[key].gen)]
    BY <1>1, <2>3 DEF Record, Backrest!NoFailure
  <2>5. hook = [op |-> hook.op, problem |-> hook.problem, pushes |-> hook.pushes, rec |-> hook.rec,
                under |-> hook.under, plan |-> hook.plan]
        /\ hook.rec = Record(hook.rec.slug, hook.rec.op, hook.rec.gen)
    BY <1>1 DEF Backrest!Idle, Backrest!NoFailure, Record
  <2>6. went.failing \subseteq Alerts /\ went.newest \in [Backrest!Keys -> Shown]  BY <1>1 DEF Shown
  <2>7. QED  BY <2>1, <2>2, <2>4, <2>5, <2>6 DEF TypedPushes
<1>5. AllKept(went.failing, went.delivered)
  <2> SUFFICES ASSUME NEW key \in Backrest!Keys PROVE Kept(key, failures[key], went.failing, went.delivered)
    BY DEF AllKept
  <2>1. failures[key].slug = <<>> /\ failures[key].gen = 0  BY <1>1 DEF Backrest!NoFailure
  <2>2. /\ \A gen \in Gens : devices.shows[key][gen] = ""
        /\ devices.silent = {} /\ went.failing = {} /\ went.delivered = 0
    BY <1>1
  <2>3. FreshFrom(key, devices.shows[key], devices.silent, 0)  BY <2>2 DEF FreshFrom
  <2>4. ShownAs(key, devices.shows[key][0], went.newest[key], failures[key], {})
    BY <1>2, <2>1, <2>2 DEF ShownAs
  <2>5. 0 \in 0..0  OBVIOUS
  <2>6. QED  BY <2>1, <2>2, <2>3, <2>4, <2>5 DEF Kept, KeptAs
<1>6. QED  BY <1>1, <1>3, <1>4, <1>5 DEF FInv, Stages, Resting

LEMMA DeliverKeeps ==
  ASSUME OperationsNamed, FInv, NEW op \in Alerts, NEW problem \in BOOLEAN, NEW pushes \in BOOLEAN,
         problem => pushes, ~problem => op \in Operations, Backrest!Deliver(op, problem, pushes)
  PROVE  FInv'
<1>1. hook = Backrest!Idle /\ failures' = failures /\ devices' = devices /\ went.delivered < MaxWebhooks
  BY DEF Backrest!Deliver
<1>2. went' = [went EXCEPT !.delivered = @ + 1]  BY DEF Backrest!Deliver
<1>3. /\ went'.delivered = went.delivered + 1 /\ went'.failing = went.failing /\ went'.newest = went.newest
      /\ went'.hurt = went.hurt
      /\ went' = [failing |-> went.failing, newest |-> went.newest, delivered |-> went'.delivered, hurt |-> went.hurt]
  BY <1>2, WentIs
<1>4. went'.delivered \in Gens /\ went'.delivered \in Int /\ 0 < went'.delivered
  BY <1>1, <1>3, WentIs DEF Gens
<1>5. TypedPast'  BY <1>3, <1>4, WentIs DEF TypedPast
<1>6. SUFFICES ASSUME ~went'.hurt PROVE TypedPushes' /\ Stages'
  BY <1>5 DEF FInv
<1>7. TypedPushes /\ Stages  BY <1>3, <1>6 DEF FInv
<1>8. AllKept(went.failing, went.delivered)
  <2>1. hook.problem = FALSE /\ hook.op \notin Operations  BY <1>1 DEF Backrest!Idle, OperationsNamed
  <2>2. ~ProblemComes /\ ~ProblemLoaded /\ ~ProblemPushed /\ ~ProblemOver
    BY <2>1 DEF ProblemComes, ProblemLoaded, ProblemPushed, ProblemOver, Problem
  <2>3. ~SuccessComes /\ ~SuccessLoaded /\ ~SuccessPushed /\ ~PlanTaken /\ ~PlanOver /\ ~AnyLoaded
        /\ ~AnyTaken /\ ~SuccessOver
    BY <2>1 DEF SuccessComes, SuccessLoaded, SuccessPushed, PlanTaken, PlanOver, AnyLoaded,
                AnyTaken, SuccessOver, Success
  <2>4. QED  BY <1>7, <2>2, <2>3 DEF Stages, Resting
<1>9. PICK plan : hook' = [op |-> op, problem |-> problem, pushes |-> pushes, rec |-> Backrest!NoFailure,
                           under |-> <<>>, plan |-> plan]
        /\ plan = IF problem THEN <<"load", "notify", "record">>
                  ELSE <<"load">> \o (IF pushes THEN <<"notify">> ELSE <<>>) \o <<"clear", "loadAny", "clear">>
  BY DEF Backrest!Deliver, Backrest!Idle
<1>10. /\ hook'.op = op /\ hook'.problem = problem /\ hook'.pushes = pushes /\ hook'.under = <<>>
       /\ hook'.plan = plan /\ hook'.rec = Record(<<>>, "", 0)
  BY <1>9 DEF Backrest!NoFailure, Record
<1>11. TypedPushes'
  <2>1. hook' = [op |-> hook'.op, problem |-> hook'.problem, pushes |-> hook'.pushes, rec |-> hook'.rec,
                 under |-> hook'.under, plan |-> hook'.plan]
    BY <1>9
  <2>2. hook'.rec = Record(hook'.rec.slug, hook'.rec.op, hook'.rec.gen)  BY <1>10 DEF Record
  <2>3. QED  BY <1>1, <1>3, <1>7, <2>1, <2>2 DEF TypedPushes
<1>12. CASE problem
  <2>1. Problem(<<"load", "notify", "record">>)'  BY <1>4, <1>9, <1>10, <1>12 DEF Problem
  <2>2. AllKept(went.failing, went.delivered)'
    BY <1>1, <1>3, <1>4, <1>8, KeptMore, WentIs DEF AllKept, Kept
  <2>3. QED  BY <1>10, <1>11, <2>1, <2>2 DEF Stages, ProblemComes
<1>13. CASE ~problem
  <2>1. plan = <<"load", "notify", "clear", "loadAny", "clear">> \/ plan = <<"load", "clear", "loadAny", "clear">>
    BY <1>9, <1>13, PlansJoin
  <2>2. Success(<<"load", "notify", "clear", "loadAny", "clear">>)' \/ Success(<<"load", "clear", "loadAny", "clear">>)'
    BY <1>4, <1>10, <1>13, <2>1 DEF Success
  <2>3. AllKept(went.failing, Before)'
    <3>1. Before' = went.delivered  BY <1>3, WentIs DEF Before
    <3>2. QED  BY <1>1, <1>3, <1>8, <3>1 DEF AllKept, Kept
  <2>4. QED  BY <1>10, <1>11, <2>2, <2>3 DEF Stages, SuccessComes
<1>14. QED  BY <1>12, <1>13

LEMMA PushKeys ==
  ASSUME OperationsNamed
  PROVE  /\ Backrest!Keys = {"plan", Backrest!ANY} /\ "plan" # Backrest!ANY
         /\ \A op \in Operations : Backrest!Key(op) = "plan" /\ op # Backrest!ANY
         /\ Backrest!Key(Backrest!ANY) = Backrest!ANY
         /\ \A op \in Alerts : Backrest!Key(op) \in Backrest!Keys /\ op \in Under(Backrest!Key(op))
BY DEF OperationsNamed, Backrest!Keys, Backrest!ANY, Backrest!Key, Alerts, Under

\* No operation is pushed under the other key.
LEMMA OtherKey ==
  ASSUME OperationsNamed, NEW op \in Alerts, NEW key \in Backrest!Keys, key # Backrest!Key(op)
  PROVE  op \notin Under(key) \union {"", "success"}
BY DEF OperationsNamed, Backrest!Keys, Backrest!ANY, Backrest!Key, Alerts, Under

LEMMA LoadFailureKeeps ==
  ASSUME OperationsNamed, FInv, Backrest!LoadFailure
  PROVE  FInv'
<1>1. PICK call \in {"load", "loadAny"} :
        /\ Backrest!Calls(call)
        /\ \/ /\ hook' = [hook EXCEPT !.rec = failures[IF call = "loadAny" THEN Backrest!ANY ELSE Mine],
                                      !.plan = Tail(hook.plan)]
              /\ went' = went
           \/ Backrest!Fault
        /\ failures' = failures /\ devices' = devices
  BY DEF Backrest!LoadFailure, Backrest!Rest, Mine
<1>2. CASE Backrest!Fault  BY <1>2, PushFault
<1>3. CASE ~Backrest!Fault
  <2> DEFINE key == IF call = "loadAny" THEN Backrest!ANY ELSE Mine
  <2>1. hook' = [hook EXCEPT !.rec = failures[key], !.plan = Tail(hook.plan)] /\ went' = went  BY <1>1, <1>3
  <2>2. SUFFICES ASSUME ~went.hurt PROVE TypedPushes' /\ Stages'
    BY <2>1 DEF FInv, TypedPast
  <2>3. TypedPushes /\ (call = "load" => ProblemComes \/ SuccessComes) /\ (call = "loadAny" => PlanOver)
    BY <1>1, <2>2, WhichStage
  <2>4. key \in Backrest!Keys
    <3>1. call = "load" => hook.op \in Alerts
      BY <2>3 DEF ProblemComes, SuccessComes, Problem, Success, Alerts
    <3>2. QED  BY <1>1, <3>1, PushKeys DEF Mine
  <2>5. /\ hook'.op = hook.op /\ hook'.problem = hook.problem /\ hook'.under = hook.under
        /\ hook'.rec = failures[key] /\ hook'.plan = Tail(hook.plan)
        /\ hook' = [op |-> hook.op, problem |-> hook.problem, pushes |-> hook.pushes, rec |-> failures[key],
                    under |-> hook.under, plan |-> hook'.plan]
    BY <2>1, <2>3 DEF TypedPushes
  <2> HIDE DEF key
  <2>6. failures[key] = Record(failures[key].slug, failures[key].op, failures[key].gen)
    BY <2>3, <2>4 DEF TypedPushes
  <2>7. TypedPushes'
    <3>1. hook'.rec = Record(hook'.rec.slug, hook'.rec.op, hook'.rec.gen)  BY <2>5, <2>6
    <3>2. hook' = [op |-> hook'.op, problem |-> hook'.problem, pushes |-> hook'.pushes, rec |-> hook'.rec,
                   under |-> hook'.under, plan |-> hook'.plan]
      BY <2>5
    <3>3. QED  BY <1>1, <2>1, <2>3, <3>1, <3>2 DEF TypedPushes
  <2>8. CASE ProblemComes /\ call = "load"
    <3>1. key = Mine  BY <2>8 DEF key
    <3>2. hook'.plan = <<"notify", "record">>  BY <2>5, <2>8, PushPlans DEF ProblemComes, Problem
    <3>3. ProblemLoaded'
      BY <1>1, <2>1, <2>5, <2>8, <3>1, <3>2 DEF ProblemComes, ProblemLoaded, Problem, AllKept, Kept, Mine
    <3>4. QED  BY <2>7, <3>3 DEF Stages
  <2>9. CASE SuccessComes /\ call = "load"
    <3>1. hook.op \in Operations  BY <2>9 DEF SuccessComes, Success
    <3>2. key = "plan"  BY <2>9, <3>1, PushKeys DEF key, Mine
    <3>3. hook'.plan = <<"notify", "clear", "loadAny", "clear">> \/ hook'.plan = <<"clear", "loadAny", "clear">>
      BY <2>5, <2>9, PushPlans DEF SuccessComes, Success
    <3>4. AllKept(went.failing, Before)' /\ hook'.under = <<>> /\ hook'.rec = failures'["plan"]
      BY <1>1, <2>1, <2>5, <2>9, <3>2 DEF SuccessComes, AllKept, Kept, Before
    <3>5. Success(hook.plan)'
      BY <2>1, <2>5, <2>9 DEF SuccessComes, Success
    <3>6. CASE hook'.plan = <<"notify", "clear", "loadAny", "clear">>
      BY <2>7, <3>4, <3>5, <3>6 DEF Stages, SuccessLoaded, Success
    <3>7. CASE hook'.plan = <<"clear", "loadAny", "clear">>
      <4>1. KeptAs("plan", devices'.shows["plan"], devices'.silent, went'.newest["plan"], hook'.rec,
              went'.failing, Before')
        BY <3>4, PushKeys DEF AllKept, Kept
      <4>2. hook'.rec.slug = <<>> \/ hook'.rec.slug = <<"plan", hook'.rec.gen>>  BY <4>1 DEF KeptAs, ShownAs
      <4>3. AnyKept'  BY <3>4, PushKeys DEF AnyKept, AllKept, Kept
      <4>4. QED  BY <2>7, <3>4, <3>5, <3>7, <4>1, <4>2, <4>3 DEF Stages, SuccessPushed, Success, Kept
    <3>8. QED  BY <3>3, <3>6, <3>7
  <2>10. CASE PlanOver /\ call = "loadAny"
    <3>1. key = Backrest!ANY  BY <2>10 DEF key
    <3>2. hook'.plan = <<"clear">>  BY <2>5, <2>10, PushPlans DEF PlanOver, Success
    <3>3. AnyLoaded'
      BY <1>1, <2>1, <2>5, <2>10, <3>1, <3>2 DEF PlanOver, AnyLoaded, Success, AnyKept, PlanKept, Kept, Before, Fall
    <3>4. QED  BY <2>7, <3>3 DEF Stages
  <2>11. QED  BY <1>1, <2>3, <2>8, <2>9, <2>10
<1>4. QED  BY <1>2, <1>3

LEMMA CrashKeeps == ASSUME FInv, Backrest!Crash PROVE FInv'
BY PushFault DEF Backrest!Crash

LEMMA LandKeeps ==
  ASSUME OperationsNamed, FInv, Backrest!Land
  PROVE  FInv'
<1>1. PICK id \in devices.silent :
        /\ devices' = [devices EXCEPT !.shows[id[1]][id[2]] = "", !.silent = @ \ {id}]
        /\ hook' = hook /\ failures' = failures /\ went' = went
  BY DEF Backrest!Land
<1>2. SUFFICES ASSUME ~went.hurt PROVE TypedPushes' /\ Stages'
  BY <1>1 DEF FInv, TypedPast
<1>3. TypedPushes /\ Stages  BY <1>2 DEF FInv
<1>4. /\ devices = [shows |-> devices.shows, silent |-> devices.silent]
      /\ devices.shows \in [Backrest!Keys -> [Gens -> Shown]] /\ devices.silent \subseteq Backrest!Keys \X Gens
  BY <1>3 DEF TypedPushes
<1>5. PICK home \in Backrest!Keys, gen \in Gens : id = <<home, gen>>
  <2>1. id \in Backrest!Keys \X Gens  BY <1>4
  <2>2. QED  BY <2>1
<1>6. /\ devices'.shows = [devices.shows EXCEPT ![home] = [@ EXCEPT ![gen] = ""]]
      /\ devices'.silent = devices.silent \ {<<home, gen>>}
      /\ devices' = [shows |-> devices'.shows, silent |-> devices'.silent]
  BY <1>1, <1>4, <1>5
<1>7. /\ devices'.shows[home] = [devices.shows[home] EXCEPT ![gen] = ""]
      /\ \A key \in Backrest!Keys : key # home => devices'.shows[key] = devices.shows[key]
  BY <1>4, <1>6
<1>8. TypedPushes'
  <2>1. [devices.shows[home] EXCEPT ![gen] = ""] \in [Gens -> Shown]  BY <1>4, <1>5 DEF Shown
  <2>2. devices'.silent \subseteq Backrest!Keys \X Gens  BY <1>4, <1>6
  <2>3. devices' \in [shows : [Backrest!Keys -> [Gens -> Shown]], silent : SUBSET (Backrest!Keys \X Gens)]
    BY <1>4, <1>6, <2>1, <2>2
  <2>4. QED  BY <1>1, <1>3, <2>3 DEF TypedPushes
<1>9. ASSUME NEW key \in Backrest!Keys, NEW rec, NEW failing, NEW top, rec.gen \in Gens,
             KeptAs(key, devices.shows[key], devices.silent, went.newest[key], rec, failing, top)
      PROVE  KeptAs(key, devices'.shows[key], devices'.silent, went'.newest[key], rec, failing, top)
  <2>1. CASE key = home
    <3>1. DOMAIN devices.shows[key] = Gens /\ <<key, gen>> \in devices.silent  BY <1>1, <1>4, <1>5, <2>1
    <3> DEFINE shows == devices.shows[key]
               after == devices'.shows[key]
    <3>2. after = [shows EXCEPT ![gen] = ""]  BY <1>7, <2>1
    <3> HIDE DEF shows, after
    <3>3. KeptAs(key, shows, devices.silent, went.newest[key], rec, failing, top) /\ DOMAIN shows = Gens
      BY <1>9, <3>1 DEF shows
    <3>4. KeptAs(key, after, devices.silent \ {<<key, gen>>}, went.newest[key], rec, failing, top)
      BY <1>9, <3>1, <3>2, <3>3, KeptLand
    <3>5. QED  BY <1>1, <1>6, <2>1, <3>4 DEF after
  <2>2. CASE key # home
    <3>1. \A g : <<key, g>> \in devices.silent <=> <<key, g>> \in devices'.silent  BY <1>6, <2>2
    <3>2. QED  BY <1>1, <1>7, <1>9, <2>2, <3>1, KeptElsewhere
  <2>3. QED  BY <2>1, <2>2
<1>10. \A top : top \in {went.delivered, Before} => \A gen1 \in 0..top : gen1 \in Gens
  BY WentIs DEF Before, Gens
<1>11. ASSUME NEW key \in Backrest!Keys, NEW rec, NEW failing, NEW top \in {went.delivered, Before},
                Kept(key, rec, failing, top)
       PROVE  KeptAs(key, devices'.shows[key], devices'.silent, went'.newest[key], rec, failing, top)
  <2>1. rec.gen \in Gens  BY <1>10, <1>11 DEF Kept, KeptAs
  <2>2. QED  BY <1>9, <1>11, <2>1 DEF Kept
<1>12. /\ AllKept(went.failing, went.delivered) => AllKept(went.failing, went.delivered)'
       /\ AllKept(went.failing, Before) => AllKept(went.failing, Before)'
       /\ AllKept(Rise, went.delivered) => AllKept(Rise, went.delivered)'
       /\ AllKept(Fall, went.delivered) => AllKept(Fall, went.delivered)'
       /\ AnyKept => AnyKept'
       /\ PlanKept => PlanKept'
  BY <1>1, <1>11, PushKeys DEF AllKept, Kept, AnyKept, PlanKept, Rise, Fall, Before
<1>13. Resting => Resting'  BY <1>1, <1>12 DEF Resting
<1>14. /\ ProblemComes => ProblemComes'
       /\ ProblemLoaded => ProblemLoaded'
       /\ ProblemOver => ProblemOver'
  BY <1>1, <1>12 DEF ProblemComes, ProblemLoaded, ProblemOver, Problem, Mine
<1>15. ProblemPushed => ProblemPushed'
  <2> SUFFICES ASSUME ProblemPushed PROVE ProblemPushed'  OBVIOUS
  <2>1. Mine \in Backrest!Keys  BY PushKeys DEF ProblemPushed, Problem, Mine
  <2>2. \A key \in Backrest!Keys \ {Mine} : Kept(key, failures[key], went.failing, went.delivered)'
    BY <1>1, <1>11 DEF ProblemPushed, Kept
  <2>3. Kept(Mine, Record(hook.under, hook.op, hook.rec.gen), Rise, went.delivered)'
    BY <1>1, <1>11, <2>1 DEF ProblemPushed, Kept, Mine, Rise
  <2>4. QED  BY <1>1, <2>2, <2>3 DEF ProblemPushed, Problem, Mine
<1>16. /\ SuccessComes => SuccessComes'
       /\ SuccessLoaded => SuccessLoaded'
       /\ SuccessOver => SuccessOver'
       /\ PlanOver => PlanOver'
       /\ AnyLoaded => AnyLoaded'
  BY <1>1, <1>12 DEF SuccessComes, SuccessLoaded, SuccessOver, PlanOver, AnyLoaded, Success
<1>17. SuccessPushed => SuccessPushed'
  <2> SUFFICES ASSUME SuccessPushed PROVE SuccessPushed'  OBVIOUS
  <2>1. \/ hook.under = <<>> /\ Kept("plan", hook.rec, went.failing, Before)'
        \/ hook.under = <<"plan", hook.rec.gen>> /\ Kept("plan", Cleared, went.failing, Before)'
    BY <1>1, <1>11, PushKeys DEF SuccessPushed, Kept, Cleared, Before
  <2>2. QED  BY <1>1, <1>12, <2>1 DEF SuccessPushed, Success
<1>18. /\ PlanTaken => PlanTaken'
       /\ AnyTaken => AnyTaken'
  <2>1. Kept("plan", Cleared, Fall, went.delivered) => Kept("plan", Cleared, Fall, went.delivered)'
    BY <1>1, <1>11, PushKeys DEF Kept, Cleared, Fall
  <2>2. Kept(Backrest!ANY, Cleared, Fall, went.delivered) => Kept(Backrest!ANY, Cleared, Fall, went.delivered)'
    BY <1>1, <1>11, PushKeys DEF Kept, Cleared, Fall
  <2>3. QED  BY <1>1, <1>12, <2>1, <2>2 DEF PlanTaken, AnyTaken, Success
<1>19. QED
  BY <1>3, <1>8, <1>13, <1>14, <1>15, <1>16, <1>17, <1>18 DEF Stages

LEMMA NotifyKeeps ==
  ASSUME OperationsNamed, FInv, Backrest!Notify
  PROVE  FInv'
<1> DEFINE word == IF hook.problem THEN hook.op ELSE "success"
           id == Backrest!CollapseID(Mine, hook.rec)
<1>1. /\ Backrest!Calls("notify") /\ failures' = failures
      /\ \/ /\ devices' = [devices EXCEPT !.shows[id[1]][id[2]] = word]
            /\ hook' = [hook EXCEPT !.under = id, !.plan = Tail(hook.plan)]
            /\ went' = [went EXCEPT !.newest[id[1]] = word]
         \/ Backrest!Fault
  BY DEF Backrest!Notify, Backrest!Rest, Mine
<1> HIDE DEF word, id
<1>2. CASE Backrest!Fault  BY <1>2, PushFault
<1>3. CASE ~Backrest!Fault
  <2>1. id = <<Mine, hook.rec.gen>> /\ id[1] = Mine /\ id[2] = hook.rec.gen  BY DEF id, Backrest!CollapseID
  <2>2. went' = [went EXCEPT !.newest[Mine] = word]  BY <1>1, <1>3, <2>1
  <2>3. /\ went'.hurt = went.hurt /\ went'.failing = went.failing /\ went'.delivered = went.delivered
        /\ went'.newest = [went.newest EXCEPT ![Mine] = word]
        /\ went' = [failing |-> went.failing, newest |-> went'.newest, delivered |-> went.delivered, hurt |-> went.hurt]
    BY <2>2, WentIs
  <2>4. TypedPast'  BY <2>3, WentIs DEF TypedPast, FInv
  <2>5. SUFFICES ASSUME ~went'.hurt PROVE TypedPushes' /\ Stages'
    BY <2>4 DEF FInv
  <2>6. TypedPushes /\ (ProblemLoaded \/ SuccessLoaded)  BY <1>1, <2>3, <2>5, WhichStage
  <2>7. Mine \in Backrest!Keys /\ hook.op \in Alerts /\ word \in Under(Mine) \union {"success"}
    BY <2>6, PushKeys DEF ProblemLoaded, SuccessLoaded, Problem, Success, Mine, word, Alerts
  <2>8. hook.rec = failures[Mine] /\ hook.rec.gen \in Gens
    <3>1. hook.op \in Operations => Mine = "plan"  BY PushKeys DEF Mine
    <3>2. hook.rec = failures[Mine]  BY <2>6, <3>1 DEF ProblemLoaded, SuccessLoaded, Success
    <3>3. hook.rec.gen \in 0..went.delivered \/ hook.rec.gen \in 0..Before
      BY <2>6, <2>7, <3>2 DEF ProblemLoaded, SuccessLoaded, AllKept, Kept, KeptAs
    <3>4. QED  BY <3>2, <3>3, WentIs DEF Gens, Before
  <2>9. /\ hook'.op = hook.op /\ hook'.problem = hook.problem /\ hook'.rec = hook.rec
        /\ hook'.under = id /\ hook'.plan = Tail(hook.plan)
        /\ hook' = [op |-> hook.op, problem |-> hook.problem, pushes |-> hook.pushes, rec |-> hook.rec,
                    under |-> id, plan |-> hook'.plan]
    <3>1. hook' = [hook EXCEPT !.under = id, !.plan = Tail(hook.plan)]  BY <1>1, <1>3
    <3>2. QED  BY <2>6, <3>1 DEF TypedPushes
  <2>10. /\ devices = [shows |-> devices.shows, silent |-> devices.silent]
         /\ devices.shows \in [Backrest!Keys -> [Gens -> Shown]] /\ devices.silent \subseteq Backrest!Keys \X Gens
    BY <2>6 DEF TypedPushes
  <2> DEFINE shows == devices.shows[Mine]
             after == [shows EXCEPT ![hook.rec.gen] = word]
  <2>11. /\ devices'.shows = [devices.shows EXCEPT ![Mine] = after] /\ devices'.silent = devices.silent
         /\ devices' = [shows |-> devices'.shows, silent |-> devices.silent]
    <3>1. devices' = [devices EXCEPT !.shows[Mine][hook.rec.gen] = word]  BY <1>1, <1>3, <2>1
    <3>2. QED  BY <2>10, <3>1
  <2>12. word \in Shown  BY <2>7 DEF Under, Shown, Alerts
  <2>13. shows \in [Gens -> Shown] /\ after \in [Gens -> Shown]  BY <2>7, <2>10, <2>12
  <2>14. TypedPushes'
    <3> HIDE DEF after
    <3>1. devices' \in [shows : [Backrest!Keys -> [Gens -> Shown]], silent : SUBSET (Backrest!Keys \X Gens)]
      BY <2>10, <2>11, <2>13
    <3>2. went'.newest \in [Backrest!Keys -> Shown]
          /\ \A key \in Backrest!Keys : went'.newest[key] \in Under(key) \union {"", "success"}
      BY <2>3, <2>6, <2>7, <2>12 DEF TypedPushes
    <3>3. hook' = [op |-> hook'.op, problem |-> hook'.problem, pushes |-> hook'.pushes, rec |-> hook'.rec,
                   under |-> hook'.under, plan |-> hook'.plan]
      BY <2>9
    <3>4. QED  BY <1>1, <2>3, <2>6, <2>9, <3>1, <3>2, <3>3 DEF TypedPushes
  <2>15. /\ devices'.shows[Mine] = after /\ went'.newest[Mine] = word
         /\ \A key \in Backrest!Keys \ {Mine} :
              devices'.shows[key] = devices.shows[key] /\ went'.newest[key] = went.newest[key]
    <3> HIDE DEF after
    <3>1. QED  BY <2>3, <2>6, <2>7, <2>10, <2>11 DEF TypedPushes
  <2> HIDE DEF shows, after
  <2>16. ASSUME NEW failing, NEW top, NEW new, NEW more, AllKept(failing, top), new.gen = hook.rec.gen,
                ShownAs(Mine, word, word, new, more)
         PROVE  KeptAs(Mine, after, devices.silent, word, new, more, top)
    <3>1. KeptAs(Mine, shows, devices.silent, went.newest[Mine], hook.rec, failing, top)
      BY <2>7, <2>8, <2>16 DEF AllKept, Kept, shows
    <3>2. after[hook.rec.gen] = word /\ \A gen \in Gens : gen # hook.rec.gen => after[gen] = shows[gen]
      BY <2>8, <2>13 DEF after
    <3>3. QED  BY <2>8, <2>16, <3>1, <3>2, KeptPushed
  <2>17. Mine' = Mine /\ Rise' = Rise /\ Before' = Before  BY <2>3, <2>9 DEF Mine, Rise, Before
  <2>18. CASE ProblemLoaded
    <3>1. word = hook.op /\ hook'.plan = <<"record">>
      BY <2>9, <2>18, PushPlans DEF ProblemLoaded, Problem, word
    <3> DEFINE new == Record(id, hook.op, hook.rec.gen)
    <3>2. ShownAs(Mine, word, word, new, Rise) /\ new.gen = hook.rec.gen
      BY <2>1, <2>7, <3>1, PushKeys DEF ShownAs, Record, Rise, Mine
    <3> HIDE DEF new
    <3>3. KeptAs(Mine, after, devices.silent, word, new, Rise, went.delivered)
      BY <2>16, <2>18, <3>2 DEF ProblemLoaded
    <3>4. Kept(Mine, Record(hook.under, hook.op, hook.rec.gen), Rise, went.delivered)'
      BY <2>3, <2>9, <2>11, <2>15, <2>17, <3>3 DEF Kept, new
    <3>5. \A key \in Backrest!Keys \ {Mine} : Kept(key, failures[key], went.failing, went.delivered)'
      BY <1>1, <2>3, <2>11, <2>15, <2>18 DEF ProblemLoaded, AllKept, Kept
    <3>6. ProblemPushed'
      BY <2>1, <2>3, <2>9, <2>17, <2>18, <3>1, <3>4, <3>5 DEF ProblemPushed, ProblemLoaded, Problem
    <3>7. QED  BY <2>14, <3>6 DEF Stages
  <2>19. CASE SuccessLoaded
    <3>1. word = "success" /\ hook'.plan = <<"clear", "loadAny", "clear">> /\ Mine = "plan"
      BY <2>9, <2>19, PushPlans, PushKeys DEF SuccessLoaded, Success, word, Mine
    <3>2. "success" \notin went.failing  BY <2>6 DEF TypedPushes, Alerts, OperationsNamed, Backrest!ANY
    <3>3. ShownAs(Mine, word, word, Cleared, went.failing) /\ Cleared.gen = hook.rec.gen
      BY <3>1, <3>2 DEF ShownAs, Cleared, Record
    <3>4. KeptAs(Mine, after, devices.silent, word, Cleared, went.failing, Before)
      BY <2>16, <2>19, <3>3 DEF SuccessLoaded
    <3>5. Kept("plan", Cleared, went.failing, Before)'
      BY <2>3, <2>9, <2>11, <2>15, <2>17, <3>1, <3>4 DEF Kept, Cleared
    <3>6. AnyKept'
      BY <1>1, <2>3, <2>11, <2>15, <2>17, <2>19, <3>1, PushKeys DEF SuccessLoaded, AllKept, Kept, AnyKept
    <3>7. hook.rec.slug = <<>> \/ hook.rec.slug = <<"plan", hook.rec.gen>>
      BY <2>7, <2>8, <2>19, <3>1 DEF SuccessLoaded, AllKept, Kept, KeptAs, ShownAs
    <3>8. Success(<<"clear", "loadAny", "clear">>)' /\ hook'.under = <<"plan", hook'.rec.gen>>
      BY <2>1, <2>3, <2>9, <2>19, <3>1 DEF SuccessLoaded, Success
    <3>9. SuccessPushed'
      BY <1>1, <2>8, <2>9, <3>1, <3>5, <3>6, <3>7, <3>8 DEF SuccessPushed
    <3>10. QED  BY <2>14, <3>9 DEF Stages
  <2>20. QED  BY <2>6, <2>18, <2>19
<1>4. QED  BY <1>2, <1>3

\* What a write of a record does.
LEMMA SaveIs ==
  ASSUME OperationsNamed, FInv, NEW key \in Backrest!Keys, NEW rec, Backrest!Save(key, rec), ~Backrest!Fault
  PROVE  went' = went /\ failures' = [failures EXCEPT ![key] = rec]
BY DEF Backrest!Save

LEMMA SaveTyped ==
  ASSUME OperationsNamed, TypedPushes, NEW key \in Backrest!Keys, NEW rec, NEW slug, NEW op, NEW gen,
         rec = Record(slug, op, gen), failures' = [failures EXCEPT ![key] = rec]
  PROVE  /\ failures'[key] = rec /\ \A other \in Backrest!Keys : other # key => failures'[other] = failures[other]
         /\ failures' = [k \in Backrest!Keys |-> Record(failures'[k].slug, failures'[k].op, failures'[k].gen)]
<1>1. DOMAIN failures = Backrest!Keys
      /\ \A k \in Backrest!Keys : failures[k] = Record(failures[k].slug, failures[k].op, failures[k].gen)
  BY DEF TypedPushes
<1>2. rec = Record(rec.slug, rec.op, rec.gen)  BY DEF Record
<1>3. failures'[key] = rec /\ \A other \in Backrest!Keys : other # key => failures'[other] = failures[other]
  BY <1>1
<1>4. \A k \in Backrest!Keys : failures'[k] = Record(failures'[k].slug, failures'[k].op, failures'[k].gen)
  BY <1>1, <1>2, <1>3
<1>5. failures' = [k \in Backrest!Keys |-> failures'[k]]  BY <1>1
<1>6. QED  BY <1>3, <1>4, <1>5

\* What a step does that only goes on with the plan.
LEMMA PlanGoesOn ==
  ASSUME TypedPushes, NEW plan, hook' = [hook EXCEPT !.plan = plan]
  PROVE  /\ hook'.op = hook.op /\ hook'.problem = hook.problem /\ hook'.under = hook.under
         /\ hook'.rec = hook.rec /\ hook'.plan = plan
         /\ hook' = [op |-> hook.op, problem |-> hook.problem, pushes |-> hook.pushes, rec |-> hook.rec,
                     under |-> hook.under, plan |-> plan]
BY DEF TypedPushes

LEMMA RecordKeeps ==
  ASSUME OperationsNamed, FInv, Backrest!Record
  PROVE  FInv'
<1>1. /\ Backrest!Calls("record") /\ hook' = [hook EXCEPT !.plan = Tail(hook.plan)] /\ devices' = devices
      /\ IF hook.under = <<>> THEN failures' = failures /\ went' = went
         ELSE Backrest!Save(Mine, Record(hook.under, hook.op, hook.rec.gen))
  BY DEF Backrest!Record, Backrest!Rest, Mine, Record
<1>2. CASE Backrest!Fault  BY <1>2, PushFault
<1>3. CASE ~Backrest!Fault
  <2>1. went' = went  BY <1>1, <1>3 DEF Backrest!Save
  <2>2. SUFFICES ASSUME ~went.hurt PROVE TypedPushes' /\ Stages'
    BY <2>1 DEF FInv, TypedPast
  <2>3. TypedPushes /\ ProblemPushed  BY <1>1, <2>2, WhichStage
  <2>4. Mine \in Backrest!Keys /\ hook.op \in Alerts /\ hook.under # <<>>
    <3>1. hook.op \in Alerts /\ hook.under = <<Mine, hook.rec.gen>>  BY <2>3 DEF ProblemPushed, Problem
    <3>2. QED  BY <3>1, NoPair, PushKeys DEF Mine
  <2> DEFINE rec == Record(hook.under, hook.op, hook.rec.gen)
  <2>5. failures' = [failures EXCEPT ![Mine] = rec]  BY <1>1, <1>3, <2>4, SaveIs
  <2>6. /\ failures'[Mine] = rec /\ \A other \in Backrest!Keys : other # Mine => failures'[other] = failures[other]
        /\ failures' = [k \in Backrest!Keys |-> Record(failures'[k].slug, failures'[k].op, failures'[k].gen)]
    BY <2>3, <2>4, <2>5, SaveTyped
  <2>7. /\ hook'.op = hook.op /\ hook'.problem = hook.problem /\ hook'.plan = <<>>
        /\ hook' = [op |-> hook'.op, problem |-> hook'.problem, pushes |-> hook'.pushes, rec |-> hook'.rec,
                    under |-> hook'.under, plan |-> hook'.plan]
        /\ hook'.rec = Record(hook'.rec.slug, hook'.rec.op, hook'.rec.gen)
    <3>1. Tail(hook.plan) = <<>>  BY <2>3, PushPlans DEF ProblemPushed, Problem
    <3>2. hook.rec = Record(hook.rec.slug, hook.rec.op, hook.rec.gen)  BY <2>3 DEF TypedPushes
    <3>3. QED  BY <1>1, <2>3, <3>1, <3>2, PlanGoesOn
  <2>8. TypedPushes'  BY <1>1, <2>1, <2>3, <2>6, <2>7 DEF TypedPushes
  <2>9. KeptAs(Mine, devices.shows[Mine], devices.silent, went.newest[Mine], rec, Rise, went.delivered)
    BY <2>3 DEF ProblemPushed, Kept
  <2>10. ASSUME NEW key \in Backrest!Keys, key # Mine
         PROVE  KeptAs(key, devices.shows[key], devices.silent, went.newest[key], failures[key], Rise, went.delivered)
    <3>1. KeptAs(key, devices.shows[key], devices.silent, went.newest[key], failures[key], went.failing, went.delivered)
      BY <2>3, <2>10 DEF ProblemPushed, Kept
    <3>2. went.newest[key] # hook.op  BY <2>3, <2>4, <2>10, OtherKey DEF TypedPushes, Mine
    <3>3. QED  BY <3>1, <3>2, KeptRise DEF Rise
  <2> HIDE DEF rec
  <2>11. AllKept(Rise, went.delivered)'
    <3>1. Rise' = Rise  BY <2>1, <2>7 DEF Rise
    <3>2. QED  BY <1>1, <2>1, <2>6, <2>9, <2>10, <3>1 DEF AllKept, Kept
  <2>12. ProblemOver'  BY <2>1, <2>3, <2>7, <2>11 DEF ProblemOver, ProblemPushed, Problem
  <2>13. QED  BY <2>8, <2>12 DEF Stages
<1>4. QED  BY <1>2, <1>3

LEMMA SaveClearedKeeps ==
  ASSUME OperationsNamed, FInv, Backrest!SaveCleared
  PROVE  FInv'
<1>1. /\ Backrest!Calls("save") /\ hook' = [hook EXCEPT !.plan = Tail(hook.plan)] /\ devices' = devices
      /\ Backrest!Save(hook.rec.slug[1], Cleared)
  <2>1. ASSUME NEW gen PROVE [Backrest!NoFailure EXCEPT !.gen = gen] = Record(<<>>, "", gen)
    <3>1. Backrest!NoFailure = Record(<<>>, "", 0)  BY DEF Backrest!NoFailure, Record
    <3>2. \A slug, op, old : [Record(slug, op, old) EXCEPT !.gen = gen] = Record(slug, op, gen)  BY DEF Record
    <3>3. QED  BY <3>1, <3>2
  <2>2. QED  BY <2>1 DEF Backrest!SaveCleared, Backrest!Rest, Cleared
<1>2. CASE Backrest!Fault  BY <1>2, PushFault
<1>3. CASE ~Backrest!Fault
  <2>1. went' = went  BY <1>1, <1>3 DEF Backrest!Save
  <2>2. SUFFICES ASSUME ~went.hurt PROVE TypedPushes' /\ Stages'
    BY <2>1 DEF FInv, TypedPast
  <2>3. TypedPushes /\ (PlanTaken \/ AnyTaken)  BY <1>1, <2>2, WhichStage
  <2> DEFINE key == hook.rec.slug[1]
  <2>4. key \in Backrest!Keys  BY <2>3, PushKeys DEF PlanTaken, AnyTaken
  <2>5. failures' = [failures EXCEPT ![key] = Cleared]  BY <1>1, <1>3, <2>4, SaveIs
  <2> HIDE DEF key
  <2>6. /\ failures'[key] = Cleared /\ \A other \in Backrest!Keys : other # key => failures'[other] = failures[other]
        /\ failures' = [k \in Backrest!Keys |-> Record(failures'[k].slug, failures'[k].op, failures'[k].gen)]
    BY <2>3, <2>4, <2>5, SaveTyped DEF Cleared
  <2>7. /\ hook'.op = hook.op /\ hook'.problem = hook.problem /\ hook'.under = hook.under
        /\ hook'.rec = hook.rec /\ hook'.plan = Tail(hook.plan)
        /\ hook' = [op |-> hook'.op, problem |-> hook'.problem, pushes |-> hook'.pushes, rec |-> hook'.rec,
                    under |-> hook'.under, plan |-> hook'.plan]
    BY <1>1, <2>3, PlanGoesOn
  <2>8. TypedPushes'  BY <1>1, <2>1, <2>3, <2>6, <2>7 DEF TypedPushes
  <2>9. Fall' = Fall /\ Before' = Before  BY <2>1, <2>7 DEF Fall, Before
  <2>10. CASE PlanTaken
    <3>1. key = "plan"  BY <2>10 DEF PlanTaken, key
    <3>2. hook'.plan = <<"loadAny", "clear">>  BY <2>7, <2>10, PushPlans DEF PlanTaken, Success
    <3>3. AnyKept' /\ PlanKept'
      BY <1>1, <2>1, <2>6, <2>9, <2>10, <3>1, PushKeys DEF PlanTaken, AnyKept, PlanKept, Kept
    <3>4. PlanOver'  BY <2>1, <2>7, <2>10, <3>2, <3>3 DEF PlanOver, PlanTaken, Success
    <3>5. QED  BY <2>8, <3>4 DEF Stages
  <2>11. CASE AnyTaken
    <3>1. key = Backrest!ANY  BY <2>11 DEF AnyTaken, key
    <3>2. hook'.plan = <<>>  BY <2>7, <2>11, PushPlans DEF AnyTaken, Success
    <3>3. AllKept(Fall, went.delivered)'
      BY <1>1, <2>1, <2>6, <2>9, <2>11, <3>1, PushKeys DEF AnyTaken, PlanKept, AllKept, Kept
    <3>4. SuccessOver'  BY <2>1, <2>7, <2>11, <3>2, <3>3 DEF SuccessOver, AnyTaken, Success
    <3>5. QED  BY <2>8, <3>4 DEF Stages
  <2>12. QED  BY <2>3, <2>10, <2>11
<1>4. QED  BY <1>2, <1>3

LEMMA AnswerKeeps ==
  ASSUME OperationsNamed, FInv, Backrest!Answer
  PROVE  FInv'
<1>1. /\ hook # Backrest!Idle /\ hook.plan = <<>> /\ hook' = Backrest!Idle
      /\ failures' = failures /\ devices' = devices
      /\ went' = [went EXCEPT !.failing = IF hook.problem THEN Rise ELSE Fall]
  BY DEF Backrest!Answer, Rise, Fall
<1>2. /\ went'.failing = (IF hook.problem THEN Rise ELSE Fall) /\ went'.newest = went.newest
      /\ went'.delivered = went.delivered /\ went'.hurt = went.hurt
      /\ went' = [failing |-> went'.failing, newest |-> went.newest, delivered |-> went.delivered, hurt |-> went.hurt]
  BY <1>1, WentIs
<1>3. TypedPast'  BY <1>2 DEF FInv, TypedPast
<1>4. SUFFICES ASSUME ~went'.hurt PROVE TypedPushes' /\ Stages'
  BY <1>3 DEF FInv
<1>5. TypedPushes /\ Stages  BY <1>2, <1>4 DEF FInv
<1>6. ProblemOver \/ SuccessOver
  <2>1. ~ProblemComes /\ ~ProblemLoaded /\ ~ProblemPushed
    BY <1>1, PushPlans DEF ProblemComes, ProblemLoaded, ProblemPushed, Problem
  <2>2. ~SuccessComes /\ ~SuccessLoaded /\ ~SuccessPushed
    BY <1>1, PushPlans DEF SuccessComes, SuccessLoaded, SuccessPushed, Success
  <2>3. ~PlanTaken /\ ~PlanOver /\ ~AnyLoaded /\ ~AnyTaken
    BY <1>1, PushPlans DEF PlanTaken, PlanOver, AnyLoaded, AnyTaken, Success
  <2>4. QED  BY <1>1, <1>5, <2>1, <2>2, <2>3 DEF Stages, Resting
<1>7. went'.failing \subseteq Alerts /\ AllKept(went.failing, went.delivered)'
  <2>1. CASE ProblemOver
    <3>1. went'.failing = Rise /\ hook.op \in Alerts  BY <1>2, <2>1 DEF ProblemOver, Problem
    <3>2. QED  BY <1>1, <1>2, <1>5, <2>1, <3>1 DEF ProblemOver, AllKept, Kept, TypedPushes, Rise
  <2>2. CASE SuccessOver
    <3>1. went'.failing = Fall  BY <1>2, <2>2 DEF SuccessOver, Success
    <3>2. AllKept(went.failing, went.delivered)'  BY <1>1, <1>2, <2>2, <3>1 DEF SuccessOver, AllKept, Kept
    <3>3. Fall \subseteq Alerts  BY <1>5 DEF TypedPushes, Fall
    <3>4. QED  BY <3>1, <3>2, <3>3
  <2>3. QED  BY <1>6, <2>1, <2>2
<1>8. TypedPushes'
  <2>1. hook'.rec = Record(hook'.rec.slug, hook'.rec.op, hook'.rec.gen)
        /\ hook' = [op |-> hook'.op, problem |-> hook'.problem, pushes |-> hook'.pushes, rec |-> hook'.rec,
                    under |-> hook'.under, plan |-> hook'.plan]
    BY <1>1 DEF Backrest!Idle, Backrest!NoFailure, Record
  <2>2. QED  BY <1>1, <1>2, <1>5, <1>7, <2>1 DEF TypedPushes
<1>9. QED  BY <1>1, <1>7, <1>8 DEF Stages, Resting

\* Without a failure only the id counts of a record.
LEMMA KeptNone ==
  ASSUME NEW key, NEW shows, NEW silent, NEW newest, NEW rec, NEW failing, NEW top, NEW new,
         KeptAs(key, shows, silent, newest, rec, failing, top), rec.slug = <<>>, new.slug = <<>>, new.gen = rec.gen
  PROVE  KeptAs(key, shows, silent, newest, new, failing, top)
<1>1. ShownAs(key, shows[new.gen], newest, new, failing)  BY NoPair DEF KeptAs, ShownAs
<1>2. QED  BY <1>1 DEF KeptAs

\* A retract of another key's failure, or none, changes nothing of this one.
LEMMA ClearElsewhere ==
  ASSUME NEW key, NEW other, other # key, NEW gen, NEW silent, NEW after, after = silent \union {<<other, gen>>},
         NEW shows, NEW newest, NEW rec, NEW failing, NEW top, KeptAs(key, shows, silent, newest, rec, failing, top)
  PROVE  KeptAs(key, shows, after, newest, rec, failing, top)
<1>1. \A g : <<key, g>> \in silent <=> <<key, g>> \in after  OBVIOUS
<1>2. QED  BY <1>1, KeptElsewhere

LEMMA ClearKeeps ==
  ASSUME OperationsNamed, FInv, Backrest!Clear
  PROVE  FInv'
<1> DEFINE Retracts ==
       /\ Backrest!Concerns(hook.rec) /\ hook.rec.slug # hook.under
       /\ devices' = [devices EXCEPT !.silent = @ \union {hook.rec.slug}]
       /\ hook' = [hook EXCEPT !.plan = <<"save">> \o Tail(hook.plan), !.rec.gen = @ + 1]
     Replaced ==
       /\ Backrest!Concerns(hook.rec) /\ hook.rec.slug = hook.under
       /\ hook' = [hook EXCEPT !.plan = <<"save">> \o Tail(hook.plan)] /\ devices' = devices
     Spares ==
       /\ ~Backrest!Concerns(hook.rec)
       /\ hook' = [hook EXCEPT !.plan = Tail(hook.plan)] /\ devices' = devices
<1>1. /\ Backrest!Calls("clear") /\ failures' = failures
      /\ \/ (Retracts \/ Replaced \/ Spares) /\ went' = went
         \/ Backrest!Fault
  BY DEF Backrest!Clear, Backrest!Rest
<1> HIDE DEF Retracts, Replaced, Spares
<1>2. CASE Backrest!Fault  BY <1>2, PushFault
<1>3. CASE ~Backrest!Fault
  <2>1. (Retracts \/ Replaced \/ Spares) /\ went' = went  BY <1>1, <1>3
  <2>2. SUFFICES ASSUME ~went.hurt PROVE TypedPushes' /\ Stages'
    BY <2>1 DEF FInv, TypedPast
  <2>3. TypedPushes /\ (SuccessPushed \/ AnyLoaded)  BY <1>1, <2>2, WhichStage
  <2>4. hook.op \in Operations /\ 0 < went.delivered  BY <2>3 DEF SuccessPushed, AnyLoaded, Success
  <2>5. Before \in Int /\ Before < MaxWebhooks /\ Before + 1 = went.delivered /\ Before =< went.delivered
        /\ went.delivered \in Int
    BY WentIs DEF Before
  <2>6. Backrest!Concerns(hook.rec) <=>
          hook.rec.slug # <<>> /\ (hook.rec.slug = hook.under \/ hook.rec.op \in {hook.op, Backrest!ANY})
    BY DEF Backrest!Concerns
  <2>7. CASE Retracts
    <3>1. /\ hook'.op = hook.op /\ hook'.problem = hook.problem /\ hook'.under = hook.under
          /\ hook'.plan = <<"save">> \o Tail(hook.plan)
          /\ hook'.rec = Record(hook.rec.slug, hook.rec.op, hook.rec.gen + 1)
          /\ hook' = [op |-> hook'.op, problem |-> hook'.problem, pushes |-> hook'.pushes, rec |-> hook'.rec,
                      under |-> hook'.under, plan |-> hook'.plan]
      BY <2>3, <2>7 DEF Retracts, TypedPushes, Record
    <3>2. hook.rec.slug # <<>> /\ hook.rec.slug # hook.under
      BY <2>6, <2>7 DEF Retracts
    <3>3. hook'.rec.slug = hook.rec.slug /\ Cleared' = Record(<<>>, "", hook.rec.gen + 1)
      BY <3>1 DEF Record, Cleared
    <3>4. /\ devices = [shows |-> devices.shows, silent |-> devices.silent]
          /\ devices.silent \subseteq Backrest!Keys \X Gens
          /\ devices.shows \in [Backrest!Keys -> [Gens -> Shown]]
      BY <2>3 DEF TypedPushes
    <3>5. /\ devices'.shows = devices.shows /\ devices'.silent = devices.silent \union {hook.rec.slug}
          /\ devices' = [shows |-> devices.shows, silent |-> devices'.silent]
      BY <2>7, <3>4 DEF Retracts
    <3>6. ASSUME hook.rec.slug \in Backrest!Keys \X Gens PROVE TypedPushes'
      <4>1. devices' \in [shows : [Backrest!Keys -> [Gens -> Shown]], silent : SUBSET (Backrest!Keys \X Gens)]
        BY <3>4, <3>5, <3>6
      <4>2. hook'.rec = Record(hook'.rec.slug, hook'.rec.op, hook'.rec.gen)  BY <3>1 DEF Record
      <4>3. QED  BY <1>1, <2>1, <2>3, <3>1, <4>1, <4>2 DEF TypedPushes
    <3>7. ASSUME NEW key \in Backrest!Keys,
                 KeptAs(key, devices.shows[key], devices.silent, went.newest[key], hook.rec, went.failing, Before),
                 hook.rec.op \in {hook.op, Backrest!ANY}
          PROVE  /\ hook.rec.slug = <<key, hook.rec.gen>> /\ hook.rec.slug \in Backrest!Keys \X Gens
                 /\ KeptAs(key, devices'.shows[key], devices'.silent, went'.newest[key], Cleared', Fall',
                      went'.delivered)
      <4>1. hook.rec.slug = <<key, hook.rec.gen>> /\ hook.rec.gen \in 0..Before
        BY <3>2, <3>7 DEF KeptAs, ShownAs
      <4>2. hook.rec.gen \in Gens  BY <2>5, <4>1, WentIs DEF Gens
      <4> DEFINE after == devices.silent \union {<<key, hook.rec.gen>>}
                 new == Record(<<>>, "", hook.rec.gen + 1)
      <4>3. new.slug = <<>> /\ new.gen = hook.rec.gen + 1  BY DEF Record
      <4>4. devices'.silent = after /\ after = devices.silent \union {<<key, hook.rec.gen>>}  BY <3>5, <4>1
      <4>5. Fall' = Fall /\ Cleared' = new  BY <2>1, <3>1, <3>3 DEF Fall
      <4> HIDE DEF after, new
      <4>6. KeptAs(key, devices.shows[key], after, went.newest[key], new,
              went.failing \ {hook.op, Backrest!ANY}, Before + 1)
        <5>1. hook.rec.op \notin went.failing \ {hook.op, Backrest!ANY}  BY <3>7
        <5>2. KeptAs(key, devices.shows[key], devices.silent \union {<<key, hook.rec.gen>>}, went.newest[key], new,
                     went.failing \ {hook.op, Backrest!ANY}, Before + 1)
          BY <2>5, <3>2, <3>7, <4>3, <5>1, KeptRetracted
        <5>3. QED  BY <4>4, <5>2
      <4>7. /\ devices'.shows[key] = devices.shows[key] /\ went'.newest[key] = went.newest[key]
            /\ went'.delivered = Before + 1 /\ Fall' = went.failing \ {hook.op, Backrest!ANY}
        BY <2>1, <2>5, <3>5, <4>5 DEF Fall
      <4>8. KeptAs(key, devices'.shows[key], devices'.silent, went'.newest[key], Cleared', Fall', went'.delivered)
        BY <4>4, <4>5, <4>6, <4>7
      <4>9. QED  BY <4>1, <4>2, <4>8
    <3>8. ASSUME NEW key \in Backrest!Keys, NEW other \in Backrest!Keys, key # other,
                 hook.rec.slug = <<other, hook.rec.gen>>, NEW rec, NEW failing, NEW top,
                 KeptAs(key, devices.shows[key], devices.silent, went.newest[key], rec, failing, top)
          PROVE  KeptAs(key, devices'.shows[key], devices'.silent, went'.newest[key], rec, failing, top)
      <4>1. devices'.silent = devices.silent \union {<<other, hook.rec.gen>>}  BY <3>5, <3>8
      <4>2. \A gen : <<key, gen>> \in devices.silent <=> <<key, gen>> \in devices'.silent  BY <3>8, <4>1
      <4> DEFINE after == devices'.silent
      <4> HIDE DEF after
      <4>3. KeptAs(key, devices.shows[key], after, went.newest[key], rec, failing, top)
        BY <3>8, <4>2, KeptElsewhere DEF after
      <4>4. QED  BY <2>1, <3>5, <4>3 DEF after
    <3>9. Before' = Before /\ Fall' = Fall  BY <2>1, <3>1 DEF Before, Fall
    <3>10. CASE SuccessPushed
      <4>1. hook.under = <<>>  BY <3>2, <3>10 DEF SuccessPushed
      <4>2. hook.rec.op \in {hook.op, Backrest!ANY}  BY <2>6, <2>7, <3>2 DEF Retracts
      <4>3. KeptAs("plan", devices.shows["plan"], devices.silent, went.newest["plan"], hook.rec, went.failing, Before)
        BY <3>10, <4>1, NoPair DEF SuccessPushed, Kept
      <4>4. /\ hook.rec.slug = <<"plan", hook.rec.gen>> /\ hook.rec.slug \in Backrest!Keys \X Gens
            /\ Kept("plan", Cleared, Fall, went.delivered)'
        BY <3>7, <4>2, <4>3, PushKeys DEF Kept
      <4>5. AnyKept'
        BY <1>1, <2>1, <3>8, <3>9, <3>10, <4>4, PushKeys DEF SuccessPushed, AnyKept, Kept
      <4>6. hook'.plan = <<"save", "loadAny", "clear">>
        <5>1. Tail(hook.plan) = <<"loadAny", "clear">>  BY <3>10, PushPlans DEF SuccessPushed, Success
        <5>2. QED  BY <3>1, <5>1, PlansJoin
      <4>7. hook'.rec.slug[1] = "plan"
        <5>1. hook'.rec.slug = <<"plan", hook.rec.gen>>  BY <3>3, <4>4
        <5>2. QED  BY <5>1
      <4>8. PlanTaken'
        BY <2>1, <2>4, <3>1, <3>10, <4>1, <4>4, <4>5, <4>6, <4>7 DEF PlanTaken, SuccessPushed, Success
      <4>9. QED  BY <3>6, <4>4, <4>8 DEF Stages
    <3>11. CASE AnyLoaded
      <4>1. KeptAs(Backrest!ANY, devices.shows[Backrest!ANY], devices.silent, went.newest[Backrest!ANY],
              hook.rec, went.failing, Before)
        BY <3>11 DEF AnyLoaded, AnyKept, Kept
      <4>2. hook.rec.op \in {hook.op, Backrest!ANY}  BY <2>6, <2>7, <3>2 DEF Retracts
      <4>3. /\ hook.rec.slug = <<Backrest!ANY, hook.rec.gen>> /\ hook.rec.slug \in Backrest!Keys \X Gens
            /\ Kept(Backrest!ANY, Cleared, Fall, went.delivered)'
        BY <3>7, <4>1, <4>2, PushKeys DEF Kept
      <4>4. PlanKept'
        BY <1>1, <2>1, <3>8, <3>9, <3>11, <4>3, PushKeys DEF AnyLoaded, PlanKept, Kept
      <4>5. hook'.plan = <<"save">>
        <5>1. Tail(hook.plan) = <<>>  BY <3>11, PushPlans DEF AnyLoaded, Success
        <5>2. QED  BY <3>1, <5>1, PlansJoin
      <4>6. hook'.rec.slug[1] = Backrest!ANY
        <5>1. hook'.rec.slug = <<Backrest!ANY, hook.rec.gen>>  BY <3>3, <4>3
        <5>2. QED  BY <5>1
      <4>7. Success(<<"save">>)'  BY <2>1, <2>4, <3>1, <3>11, <4>5 DEF AnyLoaded, Success
      <4>8. AnyTaken'  BY <4>3, <4>4, <4>6, <4>7 DEF AnyTaken
      <4>9. QED  BY <3>6, <4>3, <4>8 DEF Stages
    <3>12. QED  BY <2>3, <3>10, <3>11
  <2>8. CASE Replaced
    <3>1. /\ hook'.op = hook.op /\ hook'.problem = hook.problem /\ hook'.under = hook.under
          /\ hook'.rec = hook.rec /\ hook'.plan = <<"save">> \o Tail(hook.plan)
          /\ hook' = [op |-> hook'.op, problem |-> hook'.problem, pushes |-> hook'.pushes, rec |-> hook'.rec,
                      under |-> hook'.under, plan |-> hook'.plan]
      BY <2>3, <2>8, PlanGoesOn DEF Replaced
    <3>2. devices' = devices /\ hook.rec.slug # <<>> /\ hook.rec.slug = hook.under  BY <2>6, <2>8 DEF Replaced
    <3>3. TypedPushes'  BY <1>1, <2>1, <2>3, <3>1, <3>2 DEF TypedPushes
    <3>4. ~AnyLoaded
      <4> SUFFICES ASSUME AnyLoaded PROVE FALSE  OBVIOUS
      <4>1. hook.rec.slug = <<Backrest!ANY, hook.rec.gen>>
        BY <3>2 DEF AnyLoaded, AnyKept, Kept, KeptAs, ShownAs
      <4>2. hook.rec.slug = <<"plan", hook.under[2]>>  BY <3>2 DEF AnyLoaded, Success
      <4>3. QED  BY <4>1, <4>2, PushKeys
    <3>5. hook.under = <<"plan", hook.rec.gen>> /\ Kept("plan", Cleared, went.failing, Before)
      BY <2>3, <3>2, <3>4 DEF SuccessPushed
    <3>6. Kept("plan", Cleared, Fall, went.delivered)
      <4>1. Cleared.slug = <<>>  BY DEF Cleared, Record
      <4>2. KeptAs("plan", devices.shows["plan"], devices.silent, went.newest["plan"], Cleared, Fall, Before)
        BY <3>5, <4>1, KeptFall DEF Kept, Fall
      <4>3. QED  BY <2>5, <4>2, KeptMore DEF Kept
    <3>7. Cleared' = Cleared /\ Fall' = Fall /\ Before' = Before  BY <2>1, <3>1 DEF Cleared, Fall, Before
    <3>8. Kept("plan", Cleared, Fall, went.delivered)'  BY <2>1, <3>2, <3>6, <3>7 DEF Kept
    <3>9. AnyKept'  BY <1>1, <2>1, <2>3, <3>2, <3>4, <3>7 DEF SuccessPushed, AnyKept, Kept
    <3>10. hook'.plan = <<"save", "loadAny", "clear">>
      <4>1. hook.plan = <<"clear", "loadAny", "clear">>  BY <2>3, <3>4 DEF SuccessPushed, Success
      <4>2. Tail(hook.plan) = <<"loadAny", "clear">>  BY <4>1, PushPlans
      <4>3. QED  BY <3>1, <4>2, PlansJoin
    <3>11. hook'.rec.slug[1] = "plan"  BY <3>1, <3>2, <3>5
    <3>12. Success(<<"save", "loadAny", "clear">>)'
      BY <2>1, <2>3, <3>1, <3>4, <3>10 DEF SuccessPushed, Success
    <3>13. PlanTaken'  BY <3>8, <3>9, <3>11, <3>12 DEF PlanTaken
    <3>14. QED  BY <3>3, <3>13 DEF Stages
  <2>9. CASE Spares
    <3>1. /\ hook'.op = hook.op /\ hook'.problem = hook.problem /\ hook'.under = hook.under
          /\ hook'.rec = hook.rec /\ hook'.plan = Tail(hook.plan)
          /\ hook' = [op |-> hook'.op, problem |-> hook'.problem, pushes |-> hook'.pushes, rec |-> hook'.rec,
                      under |-> hook'.under, plan |-> hook'.plan]
      BY <2>3, <2>9, PlanGoesOn DEF Spares
    <3>2. /\ devices' = devices
          /\ hook.rec.slug = <<>> \/ (hook.rec.slug # hook.under /\ hook.rec.op \notin {hook.op, Backrest!ANY})
      BY <2>6, <2>9 DEF Spares
    <3>3. TypedPushes'  BY <1>1, <2>1, <2>3, <3>1, <3>2 DEF TypedPushes
    <3>4. Fall' = Fall /\ Before' = Before  BY <2>1, <3>1 DEF Fall, Before
    <3>5. ASSUME NEW key \in Backrest!Keys, Kept(key, hook.rec, went.failing, Before)
          PROVE  Kept(key, hook.rec, Fall, went.delivered)
      <4>1. KeptAs(key, devices.shows[key], devices.silent, went.newest[key], hook.rec, Fall, Before)
        BY <3>2, <3>5, KeptFall DEF Kept, Fall
      <4>2. QED  BY <2>5, <4>1, KeptMore DEF Kept
    <3>6. CASE SuccessPushed
      <4>1. Kept("plan", hook.rec, went.failing, Before)
        <5>1. CASE hook.under = <<>>  BY <3>6, <5>1, NoPair DEF SuccessPushed
        <5>2. CASE hook.under # <<>>
          <6>1. hook.under = <<"plan", hook.rec.gen>> /\ Kept("plan", Cleared, went.failing, Before)
            BY <3>6, <5>2 DEF SuccessPushed
          <6>2. hook.rec.slug = <<>>  BY <3>2, <3>6, <6>1 DEF SuccessPushed
          <6>3. Cleared.slug = <<>> /\ Cleared.gen = hook.rec.gen  BY DEF Cleared, Record
          <6>4. QED  BY <6>1, <6>2, <6>3, KeptNone DEF Kept
        <5>3. QED  BY <5>1, <5>2
      <4>2. Kept("plan", hook.rec, Fall, went.delivered)  BY <3>5, <4>1, PushKeys
      <4>3. PlanKept'  BY <1>1, <2>1, <3>2, <3>4, <3>6, <4>2 DEF SuccessPushed, PlanKept, Kept
      <4>4. AnyKept'  BY <1>1, <2>1, <3>2, <3>4, <3>6 DEF SuccessPushed, AnyKept, Kept
      <4>5. hook'.plan = <<"loadAny", "clear">>  BY <3>1, <3>6, PushPlans DEF SuccessPushed, Success
      <4>6. Success(<<"loadAny", "clear">>)'  BY <2>1, <3>1, <3>6, <4>5 DEF SuccessPushed, Success
      <4>7. QED  BY <3>3, <4>3, <4>4, <4>6 DEF PlanOver, Stages
    <3>7. CASE AnyLoaded
      <4>1. Kept(Backrest!ANY, hook.rec, Fall, went.delivered)
        BY <3>5, <3>7, PushKeys DEF AnyLoaded, AnyKept
      <4>2. AllKept(Fall, went.delivered)'
        BY <1>1, <2>1, <3>2, <3>4, <3>7, <4>1, PushKeys DEF AnyLoaded, AllKept, PlanKept, Kept
      <4>3. hook'.plan = <<>>  BY <3>1, <3>7, PushPlans DEF AnyLoaded, Success
      <4>4. Success(<<>>)'  BY <2>1, <3>1, <3>7, <4>3 DEF AnyLoaded, Success
      <4>5. QED  BY <3>3, <4>2, <4>4 DEF SuccessOver, Stages
    <3>8. QED  BY <2>3, <3>6, <3>7
  <2>10. QED  BY <2>1, <2>7, <2>8, <2>9
<1>4. QED  BY <1>2, <1>3

\* The invariant at rest: a webhook between two others is at no stage.
LEMMA RestIs ==
  ASSUME OperationsNamed, FInv, ~went.hurt, hook = Backrest!Idle
  PROVE  TypedPushes /\ AllKept(went.failing, went.delivered)
<1>1. hook.plan = <<>> /\ hook.problem = FALSE /\ hook.op = ""
  BY DEF Backrest!Idle
<1>2. hook.op \notin Alerts /\ hook.op \notin Operations
  BY <1>1 DEF OperationsNamed, Alerts, Backrest!ANY
<1>3. /\ \A plan : ~Problem(plan) /\ ~Success(plan)
  BY <1>1, <1>2 DEF Problem, Success
<1>4. Resting
  BY <1>3 DEF FInv, Stages, ProblemComes, ProblemLoaded, ProblemPushed, ProblemOver, SuccessComes, SuccessLoaded,
              SuccessPushed, PlanTaken, PlanOver, AnyLoaded, AnyTaken, SuccessOver
<1>5. QED  BY <1>4 DEF Resting, FInv

LEMMA PushPromises ==
  ASSUME OperationsNamed, FInv
  PROVE  Backrest!CurrentFailureStays /\ Backrest!SuccessTakesBack
<1> SUFFICES ASSUME Backrest!Calm PROVE Backrest!CurrentFailureStays /\ Backrest!SuccessTakesBack
  BY DEF Backrest!CurrentFailureStays, Backrest!SuccessTakesBack
<1>1. AllKept(went.failing, went.delivered) /\ TypedPushes /\ TypedPast
  BY RestIs DEF Backrest!Calm, FInv
<1>2. went.delivered \in Int /\ MaxWebhooks \in Int /\ went.delivered =< MaxWebhooks  BY WentIs
<1>3. ASSUME NEW key \in Backrest!Keys
      PROVE  /\ failures[key].gen \in Gens
             /\ FreshFrom(key, devices.shows[key], devices.silent, failures[key].gen)
             /\ ShownAs(key, devices.shows[key][failures[key].gen], went.newest[key], failures[key], went.failing)
  <2>1. KeptAs(key, devices.shows[key], devices.silent, went.newest[key], failures[key], went.failing, went.delivered)
    BY <1>1, <1>3 DEF AllKept, Kept
  <2>2. failures[key].gen \in 0..went.delivered  BY <2>1 DEF KeptAs
  <2>3. QED  BY <1>2, <2>1, <2>2 DEF KeptAs, Gens
<1>4. Backrest!CurrentFailureStays
  <2> SUFFICES ASSUME NEW key \in Backrest!Keys, went.newest[key] \in went.failing
               PROVE  \E gen \in 0..MaxWebhooks :
                        devices.shows[key][gen] = went.newest[key] /\ <<key, gen>> \notin devices.silent
    BY DEF Backrest!CurrentFailureStays
  <2>1. devices.shows[key][failures[key].gen] = went.newest[key]  BY <1>3 DEF ShownAs
  <2>2. <<key, failures[key].gen>> \notin devices.silent  BY <1>3 DEF FreshFrom
  <2>3. QED  BY <1>3, <2>1, <2>2 DEF Gens
<1>5. Backrest!SuccessTakesBack
  <2> SUFFICES ASSUME NEW key \in Backrest!Keys, NEW gen \in Gens,
                      devices.shows[key][gen] \in Alerts \ went.failing
               PROVE  <<key, gen>> \in devices.silent
    BY DEF Backrest!SuccessTakesBack, Gens, Alerts
  <2>1. devices.shows[key][gen] \notin {"", "success"}  BY DEF Alerts, OperationsNamed, Backrest!ANY
  <2>2. gen # failures[key].gen
    <3>1. ASSUME gen = failures[key].gen PROVE FALSE
      <4>1. ShownAs(key, devices.shows[key][gen], went.newest[key], failures[key], went.failing)
        BY <1>3, <3>1
      <4>2. QED  BY <2>1, <4>1 DEF ShownAs
    <3>2. QED  BY <3>1
  <2>3. ~(gen > failures[key].gen)  BY <1>3, <2>1 DEF FreshFrom
  <2>4. gen < failures[key].gen
    <3>1. gen \in Int /\ failures[key].gen \in Int  BY <1>2, <1>3 DEF Gens
    <3>2. QED  BY <2>2, <2>3, <3>1
  <2>5. QED  BY <1>3, <2>1, <2>4 DEF FreshFrom
<1>6. QED  BY <1>4, <1>5

\* Whatever fails and succeeds after each other, a current failure stays on
\* the devices and a success takes its operation's failure back, for any
\* operations and any number of webhooks (FailurePushes'
\* CurrentFailureStays and SuccessTakesBack).
THEOREM FailuresStay ==
  ASSUME OperationsNamed
  PROVE  Backrest!Init /\ [][Backrest!Next]_(Backrest!vars)
           => [](Backrest!CurrentFailureStays /\ Backrest!SuccessTakesBack)
<1>1. Backrest!Init => FInv  BY PushInit
<1>2. FInv /\ [Backrest!Next]_(Backrest!vars) => FInv'
  <2> SUFFICES ASSUME FInv, [Backrest!Next]_(Backrest!vars) PROVE FInv'
    OBVIOUS
  <2>1. CASE UNCHANGED Backrest!vars
    <3>1. hook' = hook /\ failures' = failures /\ devices' = devices /\ went' = went
      BY <2>1 DEF Backrest!vars
    <3>2. TypedPast' /\ went'.hurt = went.hurt  BY <3>1 DEF FInv, TypedPast
    <3>3. TypedPushes => TypedPushes'  BY <3>1 DEF TypedPushes
    <3>4. /\ \A key, rec, failing, top : Kept(key, rec, failing, top)' <=> Kept(key, rec, failing, top)
      BY <3>1 DEF Kept
    <3>5. Stages => Stages'
      BY <3>1, <3>4 DEF Stages, Resting, AllKept, ProblemComes, ProblemLoaded, ProblemPushed, ProblemOver, SuccessComes,
        SuccessLoaded, SuccessPushed, PlanTaken, PlanOver, AnyLoaded, AnyTaken, SuccessOver, Problem, Success,
        Rise, Fall, Before, Mine, Cleared, AnyKept, PlanKept, Kept
    <3>6. QED  BY <3>1, <3>2, <3>3, <3>5 DEF FInv
  <2>2. CASE Backrest!Failed
    <3>1. \A op \in Alerts : Backrest!Deliver(op, TRUE, TRUE) => FInv'  BY DeliverKeeps
    <3>2. QED  BY <2>2, <3>1 DEF Backrest!Failed, Alerts
  <2>3. CASE Backrest!Succeeded
    <3>1. \A op \in Operations, pushes \in BOOLEAN : Backrest!Deliver(op, FALSE, pushes) => FInv'
      BY DeliverKeeps DEF Alerts
    <3>2. QED  BY <2>3, <3>1 DEF Backrest!Succeeded
  <2>4. QED
    BY <2>1, <2>2, <2>3, LoadFailureKeeps, NotifyKeeps, RecordKeeps, ClearKeeps, SaveClearedKeeps, AnswerKeeps,
       LandKeeps, CrashKeeps DEF Backrest!Next
<1>3. FInv => Backrest!CurrentFailureStays /\ Backrest!SuccessTakesBack  BY PushPromises
<1>4. QED  BY <1>1, <1>2, <1>3, PTL

---------------------------------------------------------------------------
(* The groups of an alert name: how the rows, the webhooks and what the     *)
(* devices show agree, group by group.                                      *)

\* No group is named like a row of the name, groups have alerts of their own,
\* and no alert is named like what stands for none or a Resolved.
GroupsNamed ==
  /\ PushGroups \cap {"plain", "last"} = {}
  /\ \A g \in PushGroups : GroupAlerts[g] \cap {"noRow", "resolved"} = {}
  /\ \A g, x \in PushGroups : g # x => GroupAlerts[g] \cap GroupAlerts[x] = {}

None == Grafana!None
Report(firing, told) == [firing |-> firing, resolved |-> told \ firing]
Hook(alerts, plan, prev, tracked, elsewhere) ==
  [alerts |-> alerts, plan |-> plan, prev |-> prev, tracked |-> tracked, elsewhere |-> elsewhere]

\* What is left of a webhook's handling, by how far it is.
Coming == {<<"cancel", "load">>, <<"load">>}
Judging == {<<"own", "decide">>, <<"decide">>}
Saving == {<<"plain">>, <<"last">>, <<"last", "own">>}
Saved == {<<"own">>, <<>>}

Busy(h) == h.alerts # None
Fires(h) == h.alerts.firing # {}

PlanFits(plan, fires, retract, elsewhere) ==
  \/ plan = <<"cancel", "load">> /\ ~fires
  \/ plan = <<"load">>
  \/ plan = <<"own", "decide">> /\ retract /\ fires
  \/ plan = <<"decide">>
  \/ plan = <<"retract">> /\ retract /\ ~fires /\ ~elsewhere
  \/ plan = <<"send">>
  \/ plan = <<"plain">> /\ ~retract
  \/ plan = <<"last">> /\ retract /\ fires
  \/ plan = <<"last", "own">> /\ retract /\ ~fires
  \/ plan = <<"own">> /\ retract /\ ~fires
  \/ plan = <<>>

\* A webhook at work on what its group reports.
Working(h, alerts, told, retract) ==
  /\ h.alerts = Report(h.alerts.firing, told) /\ h.alerts.firing \subseteq alerts
  /\ h.alerts.firing # {} \/ told # {}
  /\ PlanFits(h.plan, Fires(h), retract, h.elsewhere)
  /\ h.plan \in Coming => h.prev = None

HookFits(h, alerts, told, retract) ==
  /\ h = Hook(h.alerts, h.plan, h.prev, h.tracked, h.elsewhere)
  /\ told \subseteq alerts
  /\ h = Grafana!Idle \/ Working(h, alerts, told, retract)

\* The row of the last push, and what a group has in its own.
LastPush == IF posted.retract THEN rows["last"] ELSE rows["plain"]
OwnRow(row, alerts) == row = None \/ (row.firing # {} /\ row.firing \subseteq alerts)

TypedGroups ==
  /\ hooks = [g \in PushGroups |-> hooks[g]] /\ rows = [s \in Grafana!Subs |-> rows[s]]
  /\ posted = [retract |-> posted.retract, told |-> [g \in PushGroups |-> posted.told[g]], pushed |-> posted.pushed,
               delivered |-> posted.delivered, hurt |-> posted.hurt, raced |-> posted.raced]
  /\ posted.retract \in BOOLEAN /\ DOMAIN device = {"note", "repeats"}
  /\ posted.retract => rows["plain"] = None
  /\ ~posted.retract => rows["last"] = None /\ \A g \in PushGroups : rows[g] = None
  /\ \A g \in PushGroups : HookFits(hooks[g], GroupAlerts[g], posted.told[g], posted.retract)
  /\ \A g \in PushGroups : OwnRow(rows[g], GroupAlerts[g])

(* Unless a row was not written: what fires was pushed, so was what the row *)
(* of the last push says, and who compares with it compares with what is    *)
(* still the last push or says nothing of the group.                        *)
Pushed(h, alerts, told, pushed, last) ==
  /\ told \subseteq pushed
  /\ Busy(h) /\ h.plan \in Judging /\ h.prev # None =>
       /\ h.prev.firing \cap alerts \subseteq pushed
       /\ last = None \/ last = h.prev \/ last.firing \cap alerts = {}
  /\ Busy(h) /\ h.plan \in Saving \union Saved => h.alerts.firing \subseteq pushed
  /\ Busy(h) /\ h.plan \in Saved => last = None \/ last.firing \cap alerts \subseteq h.alerts.firing

PushesFit ==
  /\ LastPush = None \/ LastPush.firing \subseteq posted.pushed
  /\ \A g \in PushGroups : Pushed(hooks[g], GroupAlerts[g], posted.told[g], posted.pushed, LastPush)

\* A group that fires as far as the devices know.
Owes(h, told) == IF Busy(h) /\ h.plan \in Saving \union Saved THEN Fires(h) ELSE told # {}

\* A row says nothing of a group, or what it last said.
Agrees(row, alerts, told) ==
  row = None \/ (row.firing \union row.resolved) \cap alerts = {} \/ row.firing = told

Told(h, alerts, told, note, last, own, retract) ==
  /\ Owes(h, told) => note # {}
  /\ note \cap alerts # {} => Owes(h, told)
  /\ retract /\ (Owes(h, told) \/ (h.plan \in {<<"decide">>, <<"send">>} /\ Fires(h))) => own # None
  /\ Agrees(last, alerts, IF Busy(h) /\ h.plan \in Saved THEN h.alerts.firing ELSE told)
  /\ Busy(h) /\ h.plan \in Judging => Agrees(h.prev, alerts, told)

\* A group that could still call the repeats off.
Live(h, told) ==
  IF Busy(h) /\ h.plan \in Saving \union Saved THEN Fires(h)
  ELSE told # {} /\ (~Busy(h) \/ h.plan = <<"cancel", "load">> \/ Fires(h))

\* Nobody else is recorded as firing when a group takes the push back.
Alone(g) ==
  posted.retract /\ hooks[g].plan \in {<<"decide">>, <<"retract">>} /\ ~Fires(hooks[g]) /\ ~hooks[g].elsewhere
    => \A x \in PushGroups \ {g} : rows[x] = None

NoteFits ==
  /\ \A g \in PushGroups : Alone(g)
  /\ \A g \in PushGroups : Told(hooks[g], GroupAlerts[g], posted.told[g], device.note, LastPush, rows[g], posted.retract)
  /\ device.repeats => \E g \in PushGroups : Live(hooks[g], posted.told[g])

NInv ==
  /\ TypedGroups
  /\ "write" \notin posted.hurt => PushesFit
  /\ posted.hurt = {} /\ ~posted.raced => NoteFits

\* Plans differ.
LEMMA PlansDiffer ==
  /\ \A a : <<a>> # <<>> /\ Head(<<a>>) = a /\ (\A b : <<a>> = <<b>> => a = b)
  /\ \A a, b : <<a, b>> # <<>> /\ Head(<<a, b>>) = a /\ (\A c : <<a, b>> # <<c>>)
  /\ \A a, b, c, d : <<a, b>> = <<c, d>> => a = c /\ b = d
OBVIOUS

\* What the head of a plan says of it, and of what it leaves.
LEMMA GroupPlans ==
  ASSUME NEW plan, NEW fires, NEW retract, NEW elsewhere, PlanFits(plan, fires, retract, elsewhere), plan # <<>>
  PROVE  /\ Head(plan) = "cancel" => plan = <<"cancel", "load">> /\ ~fires /\ Tail(plan) = <<"load">>
         /\ Head(plan) = "load" => plan = <<"load">>
         /\ Head(plan) = "own" => \/ plan = <<"own", "decide">> /\ retract /\ fires /\ Tail(plan) = <<"decide">>
                                  \/ plan = <<"own">> /\ retract /\ ~fires /\ Tail(plan) = <<>>
         /\ Head(plan) = "decide" => plan = <<"decide">>
         /\ Head(plan) = "retract" => plan = <<"retract">> /\ retract /\ ~fires /\ ~elsewhere
         /\ Head(plan) = "send" => plan = <<"send">>
         /\ Head(plan) = "plain" => plan = <<"plain">> /\ ~retract /\ Tail(plan) = <<>>
         /\ Head(plan) = "last" => \/ plan = <<"last">> /\ retract /\ fires /\ Tail(plan) = <<>>
                                   \/ plan = <<"last", "own">> /\ retract /\ ~fires /\ Tail(plan) = <<"own">>
<1>1. Head(<<"cancel", "load">>) = "cancel" /\ Tail(<<"cancel", "load">>) = <<"load">>  OBVIOUS
<1>2. Head(<<"own", "decide">>) = "own" /\ Tail(<<"own", "decide">>) = <<"decide">>  OBVIOUS
<1>3. Head(<<"last", "own">>) = "last" /\ Tail(<<"last", "own">>) = <<"own">>  OBVIOUS
<1>4. \A a : Head(<<a>>) = a /\ Tail(<<a>>) = <<>>  OBVIOUS
<1>5. CASE plan = <<"cancel", "load">>  BY <1>1, <1>5, PlansDiffer DEF PlanFits
<1>6. CASE plan = <<"own", "decide">>  BY <1>2, <1>6, PlansDiffer DEF PlanFits
<1>7. CASE plan = <<"last", "own">>  BY <1>3, <1>7, PlansDiffer DEF PlanFits
<1>8. CASE plan \notin {<<"cancel", "load">>, <<"own", "decide">>, <<"last", "own">>}
  BY <1>4, <1>8, PlansDiffer DEF PlanFits
<1>9. QED  BY <1>5, <1>6, <1>7, <1>8

LEMMA PlansApart ==
  /\ {<<"cancel", "load">>, <<"load">>} = Coming
  /\ \A p \in Coming : p \notin Judging \union Saving \union Saved \union {<<"decide">>, <<"send">>, <<"retract">>}
                         /\ p # <<>>
  /\ \A p \in Judging : p \notin Coming \union Saving \union Saved \union {<<"send">>, <<"retract">>} /\ p # <<>>
  /\ \A p \in {<<"retract">>, <<"send">>} : p \notin Coming \union Judging \union Saving \union Saved /\ p # <<>>
  /\ \A p \in Saving : p \notin Coming \union Judging \union Saved \union {<<"decide">>, <<"send">>, <<"retract">>}
                         /\ p # <<>>
  /\ \A p \in Saved : p \notin Coming \union Judging \union Saving \union {<<"decide">>, <<"send">>, <<"retract">>}
  /\ <<"own", "decide">> # <<"decide">> /\ <<"cancel", "load">> # <<"load">> /\ <<"send">> # <<"retract">>
BY PlansDiffer DEF Coming, Judging, Saving, Saved
\* Who is at work, and who is not.
LEMMA HookIs ==
  ASSUME GroupsNamed, TypedGroups, NEW g \in PushGroups
  PROVE  /\ hooks[g] = Hook(hooks[g].alerts, hooks[g].plan, hooks[g].prev, hooks[g].tracked, hooks[g].elsewhere)
         /\ posted.told[g] \subseteq GroupAlerts[g]
         /\ hooks[g] = Grafana!Idle => ~Busy(hooks[g]) /\ hooks[g].plan = <<>> /\ hooks[g].prev = None
         /\ hooks[g] # Grafana!Idle => /\ Busy(hooks[g])
                                     /\ Working(hooks[g], GroupAlerts[g], posted.told[g], posted.retract)
                                     /\ hooks[g].alerts.resolved = posted.told[g] \ hooks[g].alerts.firing
<1>1. HookFits(hooks[g], GroupAlerts[g], posted.told[g], posted.retract)  BY DEF TypedGroups
<1>2. /\ Grafana!Idle.alerts = None /\ Grafana!Idle.plan = <<>> /\ Grafana!Idle.prev = None
      /\ None.firing = {"noRow"}
  BY DEF Grafana!Idle, None, Grafana!None
<1>3. CASE hooks[g] = Grafana!Idle  BY <1>1, <1>2, <1>3 DEF HookFits, Busy
<1>4. CASE hooks[g] # Grafana!Idle
  <2>1. Working(hooks[g], GroupAlerts[g], posted.told[g], posted.retract)  BY <1>1, <1>4 DEF HookFits
  <2>2. "noRow" \notin hooks[g].alerts.firing  BY <2>1 DEF Working, GroupsNamed
  <2>3. Busy(hooks[g])  BY <1>2, <2>2 DEF Busy
  <2>4. hooks[g].alerts.resolved = posted.told[g] \ hooks[g].alerts.firing  BY <2>1 DEF Working, Report
  <2>5. QED  BY <1>1, <1>4, <2>1, <2>3, <2>4 DEF HookFits
<1>5. QED  BY <1>3, <1>4

\* A webhook of group g goes on as h.
LEMMA HookGoes ==
  ASSUME TypedGroups, NEW g \in PushGroups, NEW h, hooks' = [hooks EXCEPT ![g] = h]
  PROVE  /\ hooks'[g] = h /\ \A x \in PushGroups : x # g => hooks'[x] = hooks[x]
         /\ hooks' = [x \in PushGroups |-> hooks'[x]]
BY DEF TypedGroups

LEMMA TypedGoes ==
  ASSUME TypedGroups, NEW g \in PushGroups, NEW h, hooks' = [hooks EXCEPT ![g] = h],
         HookFits(h, GroupAlerts[g], posted.told[g], posted.retract), rows' = rows,
         posted'.retract = posted.retract, posted'.told = posted.told, DOMAIN device' = {"note", "repeats"},
         posted' = [retract |-> posted'.retract, told |-> [x \in PushGroups |-> posted'.told[x]],
                    pushed |-> posted'.pushed, delivered |-> posted'.delivered, hurt |-> posted'.hurt,
                    raced |-> posted'.raced]
  PROVE  TypedGroups'
<1>1. /\ hooks'[g] = h /\ \A x \in PushGroups : x # g => hooks'[x] = hooks[x]
      /\ hooks' = [x \in PushGroups |-> hooks'[x]]
  BY HookGoes
<1>2. \A x \in PushGroups : HookFits(hooks'[x], GroupAlerts[x], posted'.told[x], posted'.retract)
  BY <1>1 DEF TypedGroups
<1>3. QED  BY <1>1, <1>2 DEF TypedGroups

\* A fault is recorded, and nothing else.
LEMMA PostedIs ==
  ASSUME TypedGroups
  PROVE  /\ \A kind : Grafana!Fault(kind) =>
              /\ posted'.retract = posted.retract /\ posted'.told = posted.told /\ posted'.pushed = posted.pushed
              /\ posted'.hurt = {kind} /\ posted'.raced = posted.raced /\ posted.hurt \subseteq {kind}
              /\ posted' = [retract |-> posted'.retract, told |-> [x \in PushGroups |-> posted'.told[x]],
                            pushed |-> posted'.pushed, delivered |-> posted'.delivered, hurt |-> posted'.hurt,
                            raced |-> posted'.raced]
         /\ posted' = posted =>
              posted' = [retract |-> posted'.retract, told |-> [x \in PushGroups |-> posted'.told[x]],
                         pushed |-> posted'.pushed, delivered |-> posted'.delivered, hurt |-> posted'.hurt,
                         raced |-> posted'.raced]
BY DEF TypedGroups, Grafana!Fault, Grafana!MayFail

\* Then of the model, as a move of one hook.
LEMMA ThenGoes ==
  ASSUME TypedGroups, NEW g \in PushGroups, NEW plan, Grafana!Then(g, plan)
  PROVE  hooks' = [hooks EXCEPT ![g] =
           Hook(hooks[g].alerts, plan, hooks[g].prev, hooks[g].tracked, hooks[g].elsewhere)]
<1>1. hooks[g] = Hook(hooks[g].alerts, hooks[g].plan, hooks[g].prev, hooks[g].tracked, hooks[g].elsewhere)
  BY DEF TypedGroups, HookFits
<1>2. hooks' = [hooks EXCEPT ![g] = [hooks[g] EXCEPT !.plan = plan]]  BY DEF Grafana!Then
<1>3. [hooks[g] EXCEPT !.plan = plan] = Hook(hooks[g].alerts, plan, hooks[g].prev, hooks[g].tracked, hooks[g].elsewhere)
  BY <1>1 DEF Hook
<1>4. QED  BY <1>2, <1>3

\* More is pushed; and another group's push has become the last.
LEMMA PushedMore ==
  ASSUME NEW h, NEW alerts, NEW told, NEW pushed, NEW last, Pushed(h, alerts, told, pushed, last),
         NEW more, pushed \cap alerts \subseteq more, told \subseteq alerts, Busy(h) => h.alerts.firing \subseteq alerts
  PROVE  Pushed(h, alerts, told, more, last)
BY DEF Pushed

LEMMA PushedOther ==
  ASSUME NEW h, NEW alerts, NEW told, NEW pushed, NEW last, Pushed(h, alerts, told, pushed, last),
         NEW next, next = None \/ next.firing \cap alerts = {}
  PROVE  Pushed(h, alerts, told, pushed, next)
BY DEF Pushed
\* One hook moves on: the others' part of the invariant stays.
LEMMA PushesGo ==
  ASSUME GroupsNamed, TypedGroups, PushesFit, NEW g \in PushGroups, NEW h, hooks' = [hooks EXCEPT ![g] = h],
         rows' = rows, posted'.retract = posted.retract, posted'.told = posted.told,
         posted.pushed \subseteq posted'.pushed,
         Pushed(h, GroupAlerts[g], posted.told[g], posted'.pushed, LastPush)
  PROVE  PushesFit'
<1>1. hooks'[g] = h /\ \A x \in PushGroups : x # g => hooks'[x] = hooks[x]  BY HookGoes
<1>2. LastPush' = LastPush  BY DEF LastPush
<1>3. LastPush = None \/ LastPush.firing \subseteq posted'.pushed  BY DEF PushesFit
<1>4. ASSUME NEW x \in PushGroups, x # g
      PROVE  Pushed(hooks'[x], GroupAlerts[x], posted'.told[x], posted'.pushed, LastPush)
  <2>1. Pushed(hooks[x], GroupAlerts[x], posted.told[x], posted.pushed, LastPush)  BY DEF PushesFit
  <2>2. posted.told[x] \subseteq GroupAlerts[x] /\ (Busy(hooks[x]) => hooks[x].alerts.firing \subseteq GroupAlerts[x])
    BY HookIs DEF Working
  <2>3. posted.pushed \cap GroupAlerts[x] \subseteq posted'.pushed  OBVIOUS
  <2>4. Pushed(hooks[x], GroupAlerts[x], posted.told[x], posted'.pushed, LastPush)
    BY <2>1, <2>2, <2>3, PushedMore
  <2>5. QED  BY <1>1, <1>4, <2>4
<1>5. \A x \in PushGroups : Pushed(hooks'[x], GroupAlerts[x], posted'.told[x], posted'.pushed, LastPush)
  BY <1>1, <1>4
<1>6. QED  BY <1>2, <1>3, <1>5 DEF PushesFit

\* The same where the devices keep the push they have.
LEMMA NotesGo ==
  ASSUME GroupsNamed, TypedGroups, NoteFits, NEW g \in PushGroups, NEW h, hooks' = [hooks EXCEPT ![g] = h],
         rows' = rows, posted'.retract = posted.retract, posted'.told = posted.told,
         device'.note = device.note, device'.repeats => device.repeats,
         Told(h, GroupAlerts[g], posted.told[g], device.note, LastPush, rows[g], posted.retract),
         Alone(g)', device'.repeats => (Live(hooks[g], posted.told[g]) => Live(h, posted.told[g]))
  PROVE  NoteFits'
<1>1. hooks'[g] = h /\ \A x \in PushGroups : x # g => hooks'[x] = hooks[x]  BY HookGoes
<1>2. LastPush' = LastPush  BY DEF LastPush
<1>3. \A x \in PushGroups : Alone(x)'
  <2>1. \A x \in PushGroups : x # g => Alone(x)'  BY <1>1 DEF NoteFits, Alone
  <2>2. QED  BY <2>1
<1>4. \A x \in PushGroups :
        Told(hooks'[x], GroupAlerts[x], posted.told[x], device.note, LastPush, rows[x], posted.retract)
  BY <1>1 DEF NoteFits
<1>5. device'.repeats => \E x \in PushGroups : Live(hooks'[x], posted.told[x])
  BY <1>1 DEF NoteFits
<1>6. QED  BY <1>2, <1>3, <1>4, <1>5 DEF NoteFits

\* The initial state satisfies the invariant.
LEMMA GroupsInit == ASSUME GroupsNamed, Grafana!Init PROVE NInv
<1>1. PICK asks \in BOOLEAN :
        posted = [retract |-> asks, told |-> [g \in PushGroups |-> {}], pushed |-> {},
                  delivered |-> 0, hurt |-> {}, raced |-> FALSE]
  BY DEF Grafana!Init
<1>2. /\ hooks = [g \in PushGroups |-> Grafana!Idle] /\ rows = [s \in Grafana!Subs |-> None]
      /\ device = [note |-> {}, repeats |-> FALSE]
  BY DEF Grafana!Init, None
<1>3. /\ posted.retract \in BOOLEAN /\ posted.pushed = {} /\ \A g \in PushGroups : posted.told[g] = {}
      /\ posted = [retract |-> posted.retract, told |-> [g \in PushGroups |-> posted.told[g]], pushed |-> posted.pushed,
                   delivered |-> posted.delivered, hurt |-> posted.hurt, raced |-> posted.raced]
  BY <1>1
<1>4. /\ \A s \in Grafana!Subs : rows[s] = None
      /\ "plain" \in Grafana!Subs /\ "last" \in Grafana!Subs /\ PushGroups \subseteq Grafana!Subs
  BY <1>2 DEF Grafana!Subs
<1>5. LastPush = None  BY <1>4 DEF LastPush
<1>6. Grafana!Idle = Hook(None, <<>>, None, FALSE, FALSE)  BY DEF Grafana!Idle, Hook, None
<1>7. Grafana!Idle.alerts = None /\ Grafana!Idle.plan = <<>>  BY <1>6 DEF Hook
<1>8. ~Busy(Grafana!Idle)  BY <1>7 DEF Busy
<1>9. \A alerts : HookFits(Grafana!Idle, alerts, {}, posted.retract)  BY <1>6 DEF HookFits, Hook
<1>10. TypedGroups
  <2>1. \A g \in PushGroups : HookFits(hooks[g], GroupAlerts[g], posted.told[g], posted.retract)
    BY <1>2, <1>3, <1>9
  <2>2. \A g \in PushGroups : OwnRow(rows[g], GroupAlerts[g])  BY <1>4 DEF OwnRow
  <2>3. DOMAIN device = {"note", "repeats"}  BY <1>2
  <2>4. QED  BY <1>2, <1>3, <1>4, <2>1, <2>2, <2>3 DEF TypedGroups
<1>11. PushesFit
  <2>1. \A g \in PushGroups : Pushed(hooks[g], GroupAlerts[g], posted.told[g], posted.pushed, LastPush)
    BY <1>2, <1>3, <1>8 DEF Pushed
  <2>2. QED  BY <1>5, <2>1 DEF PushesFit
<1>12. NoteFits
  <2>1. \A g \in PushGroups : hooks[g].plan \notin {<<"decide">>, <<"retract">>, <<"send">>}
    BY <1>2, <1>7, PlansDiffer
  <2>2. \A g \in PushGroups : Alone(g)  BY <2>1 DEF Alone
  <2>3. \A g \in PushGroups :
          Told(hooks[g], GroupAlerts[g], posted.told[g], device.note, LastPush, rows[g], posted.retract)
    BY <1>2, <1>3, <1>5, <1>8, <2>1 DEF Told, Owes, Agrees
  <2>4. QED  BY <1>2, <2>2, <2>3 DEF NoteFits
<1>13. QED  BY <1>10, <1>11, <1>12 DEF NInv

\* A group reports.
LEMMA ReportKeeps ==
  ASSUME GroupsNamed, NInv, NEW g \in PushGroups, Grafana!Deliver(g)
  PROVE  NInv'
<1>1. PICK firing \in SUBSET GroupAlerts[g] :
        /\ firing # {} \/ posted.told[g] # {}
        /\ hooks' = [hooks EXCEPT ![g] = [Grafana!Idle EXCEPT
             !.alerts = [firing |-> firing, resolved |-> posted.told[g] \ firing],
             !.plan = IF firing = {} THEN <<"cancel", "load">> ELSE <<"load">>]]
        /\ posted' = [posted EXCEPT !.delivered = @ + 1]
  BY DEF Grafana!Deliver
<1> DEFINE plan == IF firing = {} THEN <<"cancel", "load">> ELSE <<"load">>
           h == Hook(Report(firing, posted.told[g]), plan, None, FALSE, FALSE)
<1>2. hooks[g] = Grafana!Idle /\ rows' = rows /\ device' = device  BY DEF Grafana!Deliver
<1>3. hooks' = [hooks EXCEPT ![g] = h]
  <2>1. \A a, p : [Grafana!Idle EXCEPT !.alerts = a, !.plan = p] = Hook(a, p, None, FALSE, FALSE)
    <3> DEFINE no == FALSE
               over == <<>>
               idle == Grafana!Idle
    <3>1. idle = Hook(None, over, None, no, no)  BY DEF Grafana!Idle, None, Hook
    <3> HIDE DEF no, over, idle
    <3> TAKE a, p
    <3>2. [idle EXCEPT !.alerts = a, !.plan = p] = [[idle EXCEPT !.alerts = a] EXCEPT !.plan = p]
      OBVIOUS
    <3> DEFINE first == [idle EXCEPT !.alerts = a]
    <3>3. first = Hook(a, over, None, no, no)  BY <3>1 DEF Hook
    <3> HIDE DEF first
    <3>4. [first EXCEPT !.plan = p] = Hook(a, p, None, no, no)  BY <3>3 DEF Hook
    <3>5. QED  BY <3>2, <3>4 DEF first, no, idle
  <2>2. QED  BY <1>1, <2>1 DEF Report
<1>4. TypedGroups  BY DEF NInv
<1>5. /\ posted'.retract = posted.retract /\ posted'.told = posted.told /\ posted'.pushed = posted.pushed
      /\ posted'.hurt = posted.hurt /\ posted'.raced = posted.raced
      /\ posted' = [retract |-> posted'.retract, told |-> [x \in PushGroups |-> posted'.told[x]],
                    pushed |-> posted'.pushed, delivered |-> posted'.delivered, hurt |-> posted'.hurt,
                    raced |-> posted'.raced]
  BY <1>1, <1>4 DEF TypedGroups
<1>6. /\ h = Hook(h.alerts, h.plan, h.prev, h.tracked, h.elsewhere) /\ h.alerts = Report(firing, posted.told[g])
      /\ h.plan = plan /\ h.prev = None /\ h.alerts.firing = firing
  BY DEF Hook, Report
<1>7. plan \in Coming /\ PlanFits(plan, firing # {}, posted.retract, h.elsewhere)
  BY DEF Coming, PlanFits
<1>8. Working(h, GroupAlerts[g], posted.told[g], posted.retract)
  BY <1>1, <1>6, <1>7 DEF Working, Fires
<1>9. posted.told[g] \subseteq GroupAlerts[g]  BY <1>4, HookIs
<1>10. HookFits(h, GroupAlerts[g], posted.told[g], posted.retract)  BY <1>6, <1>8, <1>9 DEF HookFits
<1>11. h.plan \notin Judging \union Saving \union Saved \union {<<"decide">>, <<"send">>, <<"retract">>}
  BY <1>6, <1>7, PlansApart
<1> HIDE DEF h
<1>12. TypedGroups'
  <2>1. DOMAIN device' = {"note", "repeats"}  BY <1>2, <1>4 DEF TypedGroups
  <2>2. QED  BY <1>2, <1>3, <1>4, <1>5, <1>10, <2>1, TypedGoes
<1>13. "write" \notin posted'.hurt => PushesFit'
  <2> SUFFICES ASSUME "write" \notin posted.hurt PROVE PushesFit'
    BY <1>5
  <2>1. PushesFit  BY DEF NInv
  <2>2. posted.told[g] \subseteq posted.pushed  BY <2>1 DEF PushesFit, Pushed
  <2>3. Pushed(h, GroupAlerts[g], posted.told[g], posted'.pushed, LastPush)
    BY <1>5, <1>11, <2>2 DEF Pushed
  <2>4. QED  BY <1>2, <1>3, <1>4, <1>5, <2>1, <2>3, PushesGo
<1>14. posted'.hurt = {} /\ ~posted'.raced => NoteFits'
  <2> SUFFICES ASSUME posted.hurt = {}, ~posted.raced PROVE NoteFits'
    BY <1>5
  <2>1. NoteFits  BY DEF NInv
  <2>2. ~Busy(hooks[g])  BY <1>2, <1>4, HookIs
  <2>3. Told(hooks[g], GroupAlerts[g], posted.told[g], device.note, LastPush, rows[g], posted.retract)
    BY <2>1 DEF NoteFits
  <2>4. Told(h, GroupAlerts[g], posted.told[g], device.note, LastPush, rows[g], posted.retract)
    BY <1>11, <2>2, <2>3 DEF Told, Owes
  <2>5. hooks'[g] = h  BY <1>3, <1>4, HookGoes
  <2>6. Alone(g)'  BY <1>11, <2>5 DEF Alone
  <2>7. Live(hooks[g], posted.told[g]) => Live(h, posted.told[g])
    BY <1>6, <1>11, <2>2 DEF Live, Fires
  <2>8. device'.note = device.note /\ (device'.repeats => device.repeats)  BY <1>2
  <2>9. QED  BY <1>2, <1>3, <1>4, <1>5, <2>1, <2>4, <2>6, <2>7, <2>8, NotesGo
<1>15. QED  BY <1>12, <1>13, <1>14 DEF NInv

\* What NInv says of the webhook whose next call is the given one.
LEMMA CallIs ==
  ASSUME GroupsNamed, NInv, NEW g \in PushGroups, NEW call, Grafana!Calls(g, call)
  PROVE  /\ TypedGroups /\ Busy(hooks[g]) /\ hooks[g] # Grafana!Idle
         /\ Working(hooks[g], GroupAlerts[g], posted.told[g], posted.retract)
         /\ hooks[g].alerts.resolved = posted.told[g] \ hooks[g].alerts.firing
         /\ posted.told[g] \subseteq GroupAlerts[g]
         /\ PlanFits(hooks[g].plan, Fires(hooks[g]), posted.retract, hooks[g].elsewhere)
         /\ hooks[g].plan # <<>> /\ Head(hooks[g].plan) = call
<1>1. TypedGroups /\ hooks[g].plan # <<>> /\ Head(hooks[g].plan) = call  BY DEF NInv, Grafana!Calls
<1>2. hooks[g] # Grafana!Idle  BY <1>1, HookIs
<1>3. QED  BY <1>1, <1>2, HookIs DEF Working

\* A webhook that goes on to another plan keeps its report.
Follows(h, was, plan, prev, elsewhere, alerts, told, retract) ==
  /\ HookFits(h, alerts, told, retract)
  /\ h.alerts = was.alerts /\ h.plan = plan /\ h.prev = prev /\ h.elsewhere = elsewhere
  /\ Busy(h) /\ (Fires(h) <=> Fires(was))

LEMMA ThenFits ==
  ASSUME GroupsNamed, TypedGroups, NEW g \in PushGroups, hooks[g] # Grafana!Idle,
         NEW plan, NEW prev, NEW tracked, NEW elsewhere,
         PlanFits(plan, Fires(hooks[g]), posted.retract, elsewhere), plan \in Coming => prev = None
  PROVE  Follows(Hook(hooks[g].alerts, plan, prev, tracked, elsewhere), hooks[g], plan, prev, elsewhere,
                 GroupAlerts[g], posted.told[g], posted.retract)
<1> DEFINE h == Hook(hooks[g].alerts, plan, prev, tracked, elsewhere)
<1>1. /\ h.alerts = hooks[g].alerts /\ h.plan = plan /\ h.prev = prev /\ h.tracked = tracked
      /\ h.elsewhere = elsewhere /\ h = Hook(h.alerts, h.plan, h.prev, h.tracked, h.elsewhere)
  BY DEF Hook
<1> HIDE DEF h
<1>2. /\ Working(hooks[g], GroupAlerts[g], posted.told[g], posted.retract) /\ Busy(hooks[g])
      /\ posted.told[g] \subseteq GroupAlerts[g]
  BY HookIs
<1>3. Working(h, GroupAlerts[g], posted.told[g], posted.retract)
  <2>1. PlanFits(h.plan, Fires(h), posted.retract, h.elsewhere)  BY <1>1 DEF Fires
  <2>2. QED  BY <1>1, <1>2, <2>1 DEF Working
<1>4. Fires(h) = Fires(hooks[g])  BY <1>1 DEF Fires
<1>5. HookFits(h, GroupAlerts[g], posted.told[g], posted.retract) /\ Busy(h)
  BY <1>1, <1>2, <1>3 DEF HookFits, Busy
<1>6. Follows(h, hooks[g], plan, prev, elsewhere, GroupAlerts[g], posted.told[g], posted.retract)
  BY <1>1, <1>4, <1>5 DEF Follows
<1>7. QED  BY <1>6 DEF h

LEMMA CancelKeeps ==
  ASSUME GroupsNamed, NInv, NEW g \in PushGroups, Grafana!Cancel(g)
  PROVE  NInv'
<1> DEFINE h == Hook(hooks[g].alerts, <<"load">>, hooks[g].prev, hooks[g].tracked, hooks[g].elsewhere)
<1>1. /\ TypedGroups /\ Busy(hooks[g]) /\ hooks[g] # Grafana!Idle
      /\ Working(hooks[g], GroupAlerts[g], posted.told[g], posted.retract)
      /\ hooks[g].plan = <<"cancel", "load">> /\ ~Fires(hooks[g]) /\ Tail(hooks[g].plan) = <<"load">>
  BY CallIs, GroupPlans DEF Grafana!Cancel
<1>2. hooks' = [hooks EXCEPT ![g] = h]
  <2>1. Grafana!Then(g, <<"load">>)  BY <1>1 DEF Grafana!Cancel, Grafana!Advance
  <2>2. QED  BY <1>1, <2>1, ThenGoes
<1>3. /\ rows' = rows
      /\ \/ device' = [device EXCEPT !.repeats = FALSE] /\ posted' = posted
         \/ device' = device /\ Grafana!Fault("call")
  BY DEF Grafana!Cancel
<1>4. /\ HookFits(h, GroupAlerts[g], posted.told[g], posted.retract)
      /\ h.plan = <<"load">> /\ Busy(h) /\ ~Fires(h)
  <2>1. hooks[g].prev = None  BY <1>1 DEF Working, Coming
  <2>2. PlanFits(<<"load">>, Fires(hooks[g]), posted.retract, hooks[g].elsewhere)  BY DEF PlanFits
  <2>3. TypedGroups /\ hooks[g] # Grafana!Idle  BY <1>1
  <2>4. Follows(h, hooks[g], <<"load">>, hooks[g].prev, hooks[g].elsewhere, GroupAlerts[g], posted.told[g],
          posted.retract)
    BY <2>1, <2>2, <2>3, ThenFits
  <2> HIDE DEF h
  <2>5. QED  BY <1>1, <2>4 DEF Follows
<1> HIDE DEF h
<1>5. h.plan \notin Judging \union Saving \union Saved \union {<<"decide">>, <<"send">>, <<"retract">>}
  BY <1>4, PlansApart
<1>6. hooks[g].plan \notin Judging \union Saving \union Saved \union {<<"decide">>, <<"send">>, <<"retract">>}
  BY <1>1, PlansApart
<1>7. /\ posted'.retract = posted.retract /\ posted'.told = posted.told /\ posted'.pushed = posted.pushed
      /\ posted'.raced = posted.raced /\ ("write" \in posted.hurt => "write" \in posted'.hurt)
      /\ posted' = [retract |-> posted'.retract, told |-> [x \in PushGroups |-> posted'.told[x]],
                    pushed |-> posted'.pushed, delivered |-> posted'.delivered, hurt |-> posted'.hurt,
                    raced |-> posted'.raced]
  BY <1>1, <1>3, PostedIs
<1>8. posted'.hurt = {} => posted' = posted /\ device' = [device EXCEPT !.repeats = FALSE]
  BY <1>1, <1>3, PostedIs
<1>9. TypedGroups'
  <2>1. DOMAIN device' = {"note", "repeats"}  BY <1>1, <1>3 DEF TypedGroups
  <2>2. QED  BY <1>1, <1>2, <1>3, <1>4, <1>7, <2>1, TypedGoes
<1>10. "write" \notin posted'.hurt => PushesFit'
  <2> SUFFICES ASSUME "write" \notin posted.hurt PROVE PushesFit'
    BY <1>7
  <2>1. PushesFit  BY DEF NInv
  <2>2. posted.told[g] \subseteq posted.pushed  BY <2>1 DEF PushesFit, Pushed
  <2>3. Pushed(h, GroupAlerts[g], posted.told[g], posted'.pushed, LastPush)
    BY <1>5, <1>7, <2>2 DEF Pushed
  <2>4. QED  BY <1>1, <1>2, <1>3, <1>7, <2>1, <2>3, PushesGo
<1>11. posted'.hurt = {} /\ ~posted'.raced => NoteFits'
  <2> SUFFICES ASSUME posted'.hurt = {}, ~posted'.raced PROVE NoteFits'
    OBVIOUS
  <2>1. NoteFits  BY <1>8 DEF NInv
  <2>2. Told(hooks[g], GroupAlerts[g], posted.told[g], device.note, LastPush, rows[g], posted.retract)
    BY <2>1 DEF NoteFits
  <2>3. Told(h, GroupAlerts[g], posted.told[g], device.note, LastPush, rows[g], posted.retract)
    BY <1>5, <1>6, <2>2 DEF Told, Owes
  <2>4. hooks'[g] = h  BY <1>1, <1>2, HookGoes
  <2>5. Alone(g)'  BY <1>5, <2>4 DEF Alone
  <2>6. device'.note = device.note /\ ~device'.repeats
    <3>1. DOMAIN device = {"note", "repeats"}  BY <1>1 DEF TypedGroups
    <3>2. QED  BY <1>8, <3>1
  <2>7. QED  BY <1>1, <1>2, <1>3, <1>7, <2>1, <2>3, <2>5, <2>6, NotesGo
<1>12. QED  BY <1>9, <1>10, <1>11 DEF NInv

\* What a read of the rows comes to; one that failed knows of no push.
LEMMA LoadGoes ==
  ASSUME TypedGroups, NEW g \in PushGroups, Grafana!Load(g)
  PROVE  \E prev, tracked, elsewhere :
           /\ hooks' = [hooks EXCEPT ![g] = Hook(hooks[g].alerts, Grafana!Decide(g), prev, tracked, elsewhere)]
           /\ \/ posted' = posted /\ prev = LastPush /\ elsewhere = Grafana!Elsewhere(g)
              \/ Grafana!Fault("read") /\ prev = hooks[g].prev
<1> DEFINE plan == Grafana!Decide(g)
           prev == IF posted.retract THEN Grafana!Last ELSE rows["plain"]
           tracked == rows[g] # Grafana!None /\ rows[g].firing # {}
           elsewhere == Grafana!Elsewhere(g)
           yes == TRUE
           With(h) == [x \in PushGroups |-> IF x = g THEN h ELSE hooks[x]]
           one == [hooks EXCEPT ![g].plan = plan]
           two == [one EXCEPT ![g].prev = prev]
           three == [two EXCEPT ![g].tracked = tracked]
           four == [three EXCEPT ![g].elsewhere = elsewhere]
           five == [one EXCEPT ![g].elsewhere = yes]
           a == hooks[g].alerts
           b == hooks[g].prev
           c == hooks[g].tracked
           d == hooks[g].elsewhere
<1>1. prev = LastPush  BY DEF TypedGroups, LastPush, Grafana!Last, None
<1>2. (hooks' = four /\ posted' = posted) \/ (hooks' = five /\ Grafana!Fault("read"))
  BY DEF Grafana!Load
<1> HIDE DEF plan, prev, tracked, elsewhere, yes
<1>3. hooks = [x \in PushGroups |-> hooks[x]] /\ hooks[g] = Hook(a, hooks[g].plan, b, c, d)
  BY DEF TypedGroups, HookFits
<1>4. \A h : [hooks EXCEPT ![g] = h] = With(h)  BY <1>3
<1> HIDE DEF a, b, c, d
<1>5. one = With(Hook(a, plan, b, c, d))  BY <1>3 DEF Hook
<1> HIDE DEF one
<1>6. five = With(Hook(a, plan, b, c, yes))
  <2>1. one = [x \in PushGroups |-> one[x]] /\ one[g] = Hook(a, plan, b, c, d)  BY <1>5
  <2>2. five = [x \in PushGroups |-> IF x = g THEN Hook(a, plan, b, c, yes) ELSE one[x]]  BY <2>1 DEF Hook
  <2>3. \A x \in PushGroups : x # g => one[x] = hooks[x]  BY <1>5
  <2> HIDE DEF five
  <2>4. QED  BY <2>2, <2>3
<1>7. two = With(Hook(a, plan, prev, c, d))
  <2>1. one = [x \in PushGroups |-> one[x]] /\ one[g] = Hook(a, plan, b, c, d)  BY <1>5
  <2>2. two = [x \in PushGroups |-> IF x = g THEN Hook(a, plan, prev, c, d) ELSE one[x]]  BY <2>1 DEF Hook
  <2>3. \A x \in PushGroups : x # g => one[x] = hooks[x]  BY <1>5
  <2> HIDE DEF two
  <2>4. QED  BY <2>2, <2>3
<1> HIDE DEF two
<1>8. three = With(Hook(a, plan, prev, tracked, d))
  <2>1. two = [x \in PushGroups |-> two[x]] /\ two[g] = Hook(a, plan, prev, c, d)  BY <1>7
  <2>2. three = [x \in PushGroups |-> IF x = g THEN Hook(a, plan, prev, tracked, d) ELSE two[x]]
    BY <2>1 DEF Hook
  <2>3. \A x \in PushGroups : x # g => two[x] = hooks[x]  BY <1>7
  <2> HIDE DEF three
  <2>4. QED  BY <2>2, <2>3
<1> HIDE DEF three
<1>9. four = With(Hook(a, plan, prev, tracked, elsewhere))
  <2>1. three = [x \in PushGroups |-> three[x]] /\ three[g] = Hook(a, plan, prev, tracked, d)  BY <1>8
  <2>2. four = [x \in PushGroups |-> IF x = g THEN Hook(a, plan, prev, tracked, elsewhere) ELSE three[x]]
    BY <2>1 DEF Hook
  <2>3. \A x \in PushGroups : x # g => three[x] = hooks[x]  BY <1>8
  <2> HIDE DEF four
  <2>4. QED  BY <2>2, <2>3
<1> HIDE DEF With, four, five
<1>10. CASE hooks' = four /\ posted' = posted
  <2>1. hooks' = [hooks EXCEPT ![g] = Hook(a, plan, prev, tracked, elsewhere)]  BY <1>4, <1>9, <1>10
  <2>2. QED  BY <1>1, <1>10, <2>1 DEF plan, elsewhere, a
<1>11. CASE hooks' = five /\ Grafana!Fault("read")
  <2>1. hooks' = [hooks EXCEPT ![g] = Hook(a, plan, b, c, yes)]  BY <1>4, <1>6, <1>11
  <2>2. QED  BY <1>11, <2>1 DEF plan, a, b
<1>12. QED  BY <1>2, <1>10, <1>11

\* A group that is recorded nowhere else but in its own row is alone.
LEMMA ElsewhereIs ==
  ASSUME GroupsNamed, TypedGroups, NEW g \in PushGroups, hooks[g] # Grafana!Idle, ~Grafana!Elsewhere(g)
  PROVE  \A x \in PushGroups \ {g} : rows[x] = None
<1> SUFFICES ASSUME NEW x \in PushGroups \ {g}, rows[x] # None PROVE FALSE
  OBVIOUS
<1>1. rows[x].firing \subseteq hooks[g].alerts.firing \union hooks[g].alerts.resolved
  BY DEF Grafana!Elsewhere, Grafana!FiringElsewhere, Grafana!Current, None
<1>2. hooks[g].alerts.firing \subseteq GroupAlerts[g] /\ hooks[g].alerts.resolved \subseteq GroupAlerts[g]
  BY HookIs DEF Working
<1>3. rows[x].firing # {} /\ rows[x].firing \subseteq GroupAlerts[x]  BY DEF TypedGroups, OwnRow
<1>4. GroupAlerts[x] \cap GroupAlerts[g] = {}  BY DEF GroupsNamed
<1>5. QED  BY <1>1, <1>2, <1>3, <1>4

LEMMA LoadKeeps ==
  ASSUME GroupsNamed, NInv, NEW g \in PushGroups, Grafana!Load(g)
  PROVE  NInv'
<1>1. /\ TypedGroups /\ Busy(hooks[g]) /\ hooks[g] # Grafana!Idle
      /\ Working(hooks[g], GroupAlerts[g], posted.told[g], posted.retract) /\ hooks[g].plan = <<"load">>
  BY CallIs, GroupPlans DEF Grafana!Load
<1>2. hooks[g].prev = None  BY <1>1 DEF Working, Coming
<1>3. PICK prev, tracked, elsewhere :
        /\ hooks' = [hooks EXCEPT ![g] = Hook(hooks[g].alerts, Grafana!Decide(g), prev, tracked, elsewhere)]
        /\ \/ posted' = posted /\ prev = LastPush /\ elsewhere = Grafana!Elsewhere(g)
           \/ Grafana!Fault("read") /\ prev = hooks[g].prev
  BY <1>1, LoadGoes
<1> DEFINE h == Hook(hooks[g].alerts, Grafana!Decide(g), prev, tracked, elsewhere)
<1>4. rows' = rows /\ device' = device  BY DEF Grafana!Load
<1>5. \/ Grafana!Decide(g) = <<"own", "decide">> /\ Fires(hooks[g]) /\ posted.retract
      \/ Grafana!Decide(g) = <<"decide">> /\ ~(Fires(hooks[g]) /\ posted.retract)
  BY DEF Grafana!Decide, Grafana!Firing, Grafana!Current, Fires
<1>6. Grafana!Decide(g) \in Judging /\ PlanFits(Grafana!Decide(g), Fires(hooks[g]), posted.retract, elsewhere)
  BY <1>5 DEF Judging, PlanFits
<1>7. /\ HookFits(h, GroupAlerts[g], posted.told[g], posted.retract)
      /\ h.alerts = hooks[g].alerts /\ h.plan = Grafana!Decide(g) /\ h.prev = prev /\ h.elsewhere = elsewhere
      /\ Busy(h) /\ (Fires(h) <=> Fires(hooks[g]))
  <2>1. Grafana!Decide(g) \notin Coming  BY <1>6, PlansApart
  <2>2. TypedGroups /\ hooks[g] # Grafana!Idle  BY <1>1
  <2>3. PlanFits(Grafana!Decide(g), Fires(hooks[g]), posted.retract, elsewhere)  BY <1>6
  <2>4. Follows(h, hooks[g], Grafana!Decide(g), prev, elsewhere, GroupAlerts[g], posted.told[g], posted.retract)
    BY <2>1, <2>2, <2>3, ThenFits
  <2> HIDE DEF h
  <2>5. QED  BY <2>4 DEF Follows
<1> HIDE DEF h
<1>8. /\ h.plan \in Judging
      /\ h.plan \notin Coming \union Saving \union Saved \union {<<"send">>, <<"retract">>}
      /\ h.plan = <<"decide">> => ~(Fires(h) /\ posted.retract)
  BY <1>5, <1>6, <1>7, PlansApart
<1>9. /\ posted'.retract = posted.retract /\ posted'.told = posted.told /\ posted'.pushed = posted.pushed
      /\ ("write" \in posted.hurt => "write" \in posted'.hurt)
      /\ posted' = [retract |-> posted'.retract, told |-> [x \in PushGroups |-> posted'.told[x]],
                    pushed |-> posted'.pushed, delivered |-> posted'.delivered, hurt |-> posted'.hurt,
                    raced |-> posted'.raced]
      /\ posted'.hurt = {} => posted' = posted /\ prev = LastPush /\ elsewhere = Grafana!Elsewhere(g)
      /\ prev = LastPush \/ prev = None
  BY <1>1, <1>2, <1>3, PostedIs
<1>10. TypedGroups'
  <2>1. DOMAIN device' = {"note", "repeats"}  BY <1>1, <1>4 DEF TypedGroups
  <2>2. QED  BY <1>1, <1>3, <1>4, <1>7, <1>9, <2>1, TypedGoes DEF h
<1>11. "write" \notin posted'.hurt => PushesFit'
  <2> SUFFICES ASSUME "write" \notin posted.hurt PROVE PushesFit'
    BY <1>9
  <2>1. PushesFit  BY DEF NInv
  <2>2. posted.told[g] \subseteq posted.pushed /\ (LastPush = None \/ LastPush.firing \subseteq posted.pushed)
    BY <2>1 DEF PushesFit, Pushed
  <2>3. Pushed(h, GroupAlerts[g], posted.told[g], posted'.pushed, LastPush)
    BY <1>7, <1>8, <1>9, <2>2 DEF Pushed
  <2>4. QED  BY <1>1, <1>3, <1>4, <1>9, <2>1, <2>3, PushesGo DEF h
<1>12. posted'.hurt = {} /\ ~posted'.raced => NoteFits'
  <2> SUFFICES ASSUME posted'.hurt = {}, ~posted'.raced PROVE NoteFits'
    OBVIOUS
  <2>1. NoteFits /\ prev = LastPush /\ elsewhere = Grafana!Elsewhere(g)  BY <1>9 DEF NInv
  <2>2. Told(hooks[g], GroupAlerts[g], posted.told[g], device.note, LastPush, rows[g], posted.retract)
    BY <2>1 DEF NoteFits
  <2>3. hooks[g].plan \notin Judging \union Saving \union Saved \union {<<"decide">>, <<"send">>}
    BY <1>1, PlansApart
  <2>4. Told(h, GroupAlerts[g], posted.told[g], device.note, LastPush, rows[g], posted.retract)
    BY <1>7, <1>8, <2>1, <2>2, <2>3 DEF Told, Owes
  <2>5. hooks'[g] = h /\ \A x \in PushGroups : x # g => hooks'[x] = hooks[x]
    BY <1>1, <1>3, HookGoes DEF h
  <2>6. Alone(g)'
    <3>1. ~elsewhere => \A x \in PushGroups \ {g} : rows[x] = None  BY <1>1, <2>1, ElsewhereIs
    <3>2. QED  BY <1>4, <1>7, <2>5, <3>1 DEF Alone
  <2>7. Live(hooks[g], posted.told[g]) => Live(h, posted.told[g])
    <3>1. hooks[g].plan # <<"cancel", "load">>  BY <1>1, PlansApart
    <3>2. QED  BY <1>1, <1>7, <1>8, <2>3, <3>1 DEF Live
  <2>8. device'.note = device.note /\ (device'.repeats => device.repeats)  BY <1>4
  <2>9. QED  BY <1>1, <1>3, <1>4, <1>9, <2>1, <2>4, <2>6, <2>7, <2>8, NotesGo DEF h
<1>13. QED  BY <1>10, <1>11, <1>12 DEF NInv

\* What the comparison with the last push comes to.
LEMMA DecidedGoes ==
  ASSUME TypedGroups, NEW g \in PushGroups, Grafana!Decided(g), hooks[g].plan = <<"decide">>
  PROVE  \E plan :
           /\ hooks' = [hooks EXCEPT ![g] =
                Hook(hooks[g].alerts, plan, hooks[g].prev, hooks[g].tracked, hooks[g].elsewhere)]
           /\ \/ /\ hooks[g].prev # None /\ hooks[g].alerts = hooks[g].prev
                 /\ (plan = <<"own">> /\ posted.retract /\ ~Fires(hooks[g]))
                      \/ (plan = <<>> /\ ~(posted.retract /\ ~Fires(hooks[g])))
              \/ plan = <<"retract">> /\ ~Fires(hooks[g]) /\ posted.retract /\ ~hooks[g].elsewhere
              \/ plan = <<"send">>
<1> DEFINE same == Grafana!Same(g)
           back == ~Grafana!Same(g) /\ ~Grafana!Firing(g) /\ posted.retract /\ hooks[g].tracked /\ ~hooks[g].elsewhere
           kept == IF posted.retract /\ ~Grafana!Firing(g) THEN <<"own">> ELSE <<>>
           plan == CASE same -> kept [] back -> <<"retract">> [] OTHER -> <<"send">>
<1>1. Grafana!Then(g, plan)  BY DEF Grafana!Decided
<1>2. hooks' = [hooks EXCEPT ![g] =
                Hook(hooks[g].alerts, plan, hooks[g].prev, hooks[g].tracked, hooks[g].elsewhere)]
  <2> HIDE DEF plan
  <2>1. QED  BY <1>1, ThenGoes
<1>3. same => hooks[g].prev # None /\ hooks[g].alerts = hooks[g].prev
  BY DEF Grafana!Same, Grafana!Current, None
<1>4. Grafana!Firing(g) <=> Fires(hooks[g])  BY DEF Grafana!Firing, Grafana!Current, Fires
<1>5. back => ~same  OBVIOUS
<1>6. CASE same
  <2>1. plan = kept  BY <1>5, <1>6
  <2>2. QED  BY <1>2, <1>3, <1>4, <1>6, <2>1
<1>7. CASE back
  <2>1. plan = <<"retract">>  BY <1>5, <1>7
  <2>2. QED  BY <1>2, <1>4, <1>7, <2>1
<1>8. CASE ~same /\ ~back
  <2>1. plan = <<"send">>  BY <1>8
  <2>2. QED  BY <1>2, <2>1
<1>9. QED  BY <1>6, <1>7, <1>8

LEMMA DecidedKeeps ==
  ASSUME GroupsNamed, NInv, NEW g \in PushGroups, Grafana!Decided(g)
  PROVE  NInv'
<1>1. /\ TypedGroups /\ Busy(hooks[g]) /\ hooks[g] # Grafana!Idle
      /\ Working(hooks[g], GroupAlerts[g], posted.told[g], posted.retract) /\ hooks[g].plan = <<"decide">>
      /\ hooks[g].alerts.resolved = posted.told[g] \ hooks[g].alerts.firing
  BY CallIs, GroupPlans DEF Grafana!Decided
<1>2. PICK plan :
        /\ hooks' = [hooks EXCEPT ![g] =
             Hook(hooks[g].alerts, plan, hooks[g].prev, hooks[g].tracked, hooks[g].elsewhere)]
        /\ \/ /\ hooks[g].prev # None /\ hooks[g].alerts = hooks[g].prev
              /\ (plan = <<"own">> /\ posted.retract /\ ~Fires(hooks[g]))
                   \/ (plan = <<>> /\ ~(posted.retract /\ ~Fires(hooks[g])))
           \/ plan = <<"retract">> /\ ~Fires(hooks[g]) /\ posted.retract /\ ~hooks[g].elsewhere
           \/ plan = <<"send">>
  BY <1>1, DecidedGoes
<1> DEFINE h == Hook(hooks[g].alerts, plan, hooks[g].prev, hooks[g].tracked, hooks[g].elsewhere)
<1>3. rows' = rows /\ device' = device /\ posted' = posted  BY DEF Grafana!Decided
<1>4. /\ plan \in Saved \union {<<"retract">>, <<"send">>}
      /\ PlanFits(plan, Fires(hooks[g]), posted.retract, hooks[g].elsewhere)
  BY <1>2 DEF PlanFits, Saved
<1>5. /\ HookFits(h, GroupAlerts[g], posted.told[g], posted.retract)
      /\ h.alerts = hooks[g].alerts /\ h.plan = plan /\ h.prev = hooks[g].prev /\ h.elsewhere = hooks[g].elsewhere
      /\ Busy(h) /\ (Fires(h) <=> Fires(hooks[g]))
  <2>1. plan \notin Coming  BY <1>4, PlansApart
  <2>2. TypedGroups /\ hooks[g] # Grafana!Idle  BY <1>1
  <2>3. PlanFits(plan, Fires(hooks[g]), posted.retract, hooks[g].elsewhere)  BY <1>4
  <2>4. Follows(h, hooks[g], plan, hooks[g].prev, hooks[g].elsewhere, GroupAlerts[g], posted.told[g], posted.retract)
    BY <2>1, <2>2, <2>3, ThenFits
  <2> HIDE DEF h
  <2>5. QED  BY <2>4 DEF Follows
<1> HIDE DEF h
<1>6. /\ h.plan \notin Judging \union Saving \union Coming
      /\ hooks[g].plan \in Judging /\ hooks[g].plan \notin Coming \union Saving \union Saved
  BY <1>1, <1>4, <1>5, PlansApart DEF Judging
<1>7. h.plan \in Saved => hooks[g].prev # None /\ hooks[g].alerts = hooks[g].prev
  BY <1>2, <1>5, PlansApart
<1>8. TypedGroups'
  <2>1. DOMAIN device' = {"note", "repeats"}  BY <1>1, <1>3 DEF TypedGroups
  <2>2. posted'.retract = posted.retract /\ posted'.told = posted.told  BY <1>3
  <2>3. QED  BY <1>1, <1>2, <1>3, <1>5, <2>1, <2>2, TypedGoes, PostedIs DEF h
<1>9. "write" \notin posted'.hurt => PushesFit'
  <2> SUFFICES ASSUME "write" \notin posted.hurt PROVE PushesFit'
    BY <1>3
  <2>1. PushesFit  BY DEF NInv
  <2>2. Pushed(hooks[g], GroupAlerts[g], posted.told[g], posted.pushed, LastPush)
    BY <2>1 DEF PushesFit
  <2>3. hooks[g].alerts.firing \subseteq GroupAlerts[g]  BY <1>1 DEF Working
  <2>4. h.plan \in Saved =>
          /\ hooks[g].prev.firing \cap GroupAlerts[g] \subseteq posted.pushed
          /\ hooks[g].prev.firing = hooks[g].alerts.firing
          /\ LastPush = None \/ LastPush = hooks[g].prev \/ LastPush.firing \cap GroupAlerts[g] = {}
    BY <1>1, <1>6, <1>7, <2>2 DEF Pushed
  <2>5. Pushed(h, GroupAlerts[g], posted.told[g], posted.pushed, LastPush)
    BY <1>5, <1>6, <2>2, <2>3, <2>4 DEF Pushed
  <2>6. posted'.retract = posted.retract /\ posted'.told = posted.told /\ posted'.pushed = posted.pushed
    BY <1>3
  <2>7. QED  BY <1>1, <1>2, <1>3, <2>1, <2>5, <2>6, PushesGo DEF h
<1>10. posted'.hurt = {} /\ ~posted'.raced => NoteFits'
  <2> SUFFICES ASSUME posted.hurt = {}, ~posted.raced PROVE NoteFits'
    BY <1>3
  <2>1. NoteFits  BY DEF NInv
  <2>2. Told(hooks[g], GroupAlerts[g], posted.told[g], device.note, LastPush, rows[g], posted.retract)
    BY <2>1 DEF NoteFits
  <2>3. h.plan \in Saved => Fires(hooks[g]) /\ posted.told[g] = hooks[g].alerts.firing
    <3> SUFFICES ASSUME h.plan \in Saved PROVE Fires(hooks[g]) /\ posted.told[g] = hooks[g].alerts.firing
      OBVIOUS
    <3>1. Agrees(hooks[g].prev, GroupAlerts[g], posted.told[g])  BY <1>1, <1>6, <2>2 DEF Told
    <3>2. /\ hooks[g].prev.firing = hooks[g].alerts.firing
          /\ hooks[g].prev.resolved = posted.told[g] \ hooks[g].alerts.firing
      BY <1>1, <1>7
    <3>3. /\ hooks[g].alerts.firing \subseteq GroupAlerts[g] /\ posted.told[g] \subseteq GroupAlerts[g]
          /\ hooks[g].alerts.firing # {} \/ posted.told[g] # {}
      BY <1>1, HookIs DEF Working
    <3>4. (hooks[g].prev.firing \union hooks[g].prev.resolved) \cap GroupAlerts[g] # {}  BY <3>2, <3>3
    <3>5. hooks[g].prev.firing = posted.told[g]  BY <1>7, <3>1, <3>4 DEF Agrees
    <3>6. QED  BY <3>2, <3>3, <3>5 DEF Fires
  <2>4. Owes(h, posted.told[g]) <=> Owes(hooks[g], posted.told[g])
    BY <1>5, <1>6, <2>3 DEF Owes, Fires
  <2>5. Told(h, GroupAlerts[g], posted.told[g], device.note, LastPush, rows[g], posted.retract)
    <3>1. posted.retract /\ (Owes(hooks[g], posted.told[g]) \/ Fires(hooks[g])) => rows[g] # None
      BY <1>1, <2>2 DEF Told
    <3>2. Agrees(LastPush, GroupAlerts[g], posted.told[g])  BY <1>6, <2>2 DEF Told
    <3>3. Agrees(LastPush, GroupAlerts[g], IF Busy(h) /\ h.plan \in Saved THEN h.alerts.firing ELSE posted.told[g])
      BY <1>5, <2>3, <3>2
    <3>4. /\ Owes(h, posted.told[g]) => device.note # {}
          /\ device.note \cap GroupAlerts[g] # {} => Owes(h, posted.told[g])
      BY <2>2, <2>4 DEF Told
    <3>5. posted.retract /\ (Owes(h, posted.told[g]) \/ (h.plan \in {<<"decide">>, <<"send">>} /\ Fires(h)))
            => rows[g] # None
      BY <1>5, <2>4, <3>1
    <3>6. QED  BY <1>6, <3>3, <3>4, <3>5 DEF Told
  <2>6. hooks'[g] = h /\ \A x \in PushGroups : x # g => hooks'[x] = hooks[x]
    BY <1>1, <1>2, HookGoes DEF h
  <2>7. Alone(g)'
    <3>1. Alone(g)  BY <2>1 DEF NoteFits
    <3>2. QED  BY <1>1, <1>3, <1>5, <2>6, <3>1 DEF Alone
  <2>8. Live(hooks[g], posted.told[g]) => Live(h, posted.told[g])
    <3>1. hooks[g].plan # <<"cancel", "load">>  BY <1>1, PlansApart
    <3>2. QED  BY <1>1, <1>5, <1>6, <2>3, <3>1 DEF Live
  <2>9. /\ device'.note = device.note /\ (device'.repeats => device.repeats)
        /\ posted'.retract = posted.retract /\ posted'.told = posted.told
    BY <1>3
  <2>10. QED  BY <1>1, <1>2, <1>3, <2>1, <2>5, <2>7, <2>8, <2>9, NotesGo DEF h
<1>11. QED  BY <1>8, <1>9, <1>10 DEF NInv

\* The plan that follows a push or a retract.
LEMMA SavedIs ==
  ASSUME NEW g \in PushGroups
  PROVE  /\ Grafana!Saved(g) \in Saving
         /\ PlanFits(Grafana!Saved(g), Fires(hooks[g]), posted.retract, hooks[g].elsewhere)
BY DEF Grafana!Saved, Grafana!Firing, Grafana!Current, Fires, Saving, PlanFits

\* A retract takes the push off, where nobody else is recorded as firing; one
\* that fails, or reaches no device, sends the Resolved.
LEMMA RetractKeeps ==
  ASSUME GroupsNamed, NInv, NEW g \in PushGroups, Grafana!Retract(g)
  PROVE  NInv'
<1>1. /\ TypedGroups /\ Busy(hooks[g]) /\ hooks[g] # Grafana!Idle
      /\ Working(hooks[g], GroupAlerts[g], posted.told[g], posted.retract)
      /\ hooks[g].plan = <<"retract">> /\ posted.retract /\ ~Fires(hooks[g]) /\ ~hooks[g].elsewhere
  BY CallIs, GroupPlans DEF Grafana!Retract
<1>2. PICK plan :
        /\ hooks' = [hooks EXCEPT ![g] =
             Hook(hooks[g].alerts, plan, hooks[g].prev, hooks[g].tracked, hooks[g].elsewhere)]
        /\ \/ plan = Grafana!Saved(g) /\ device' = [device EXCEPT !.note = {}] /\ posted' = posted
           \/ plan = <<"send">> /\ device' = device /\ (posted' = posted \/ Grafana!Fault("call"))
  BY <1>1, ThenGoes DEF Grafana!Retract
<1> DEFINE h == Hook(hooks[g].alerts, plan, hooks[g].prev, hooks[g].tracked, hooks[g].elsewhere)
<1>3. rows' = rows  BY DEF Grafana!Retract
<1>4. plan \in Saving \union {<<"send">>} /\ PlanFits(plan, Fires(hooks[g]), posted.retract, hooks[g].elsewhere)
  BY <1>2, SavedIs DEF PlanFits
<1>5. /\ HookFits(h, GroupAlerts[g], posted.told[g], posted.retract)
      /\ h.alerts = hooks[g].alerts /\ h.plan = plan /\ h.prev = hooks[g].prev /\ h.elsewhere = hooks[g].elsewhere
      /\ Busy(h) /\ (Fires(h) <=> Fires(hooks[g]))
  <2>1. plan \notin Coming  BY <1>4, PlansApart
  <2>2. TypedGroups /\ hooks[g] # Grafana!Idle  BY <1>1
  <2>3. PlanFits(plan, Fires(hooks[g]), posted.retract, hooks[g].elsewhere)  BY <1>4
  <2>4. Follows(h, hooks[g], plan, hooks[g].prev, hooks[g].elsewhere, GroupAlerts[g], posted.told[g], posted.retract)
    BY <2>1, <2>2, <2>3, ThenFits
  <2> HIDE DEF h
  <2>5. QED  BY <2>4 DEF Follows
<1> HIDE DEF h
<1>6. /\ h.plan \notin Judging \union Saved \union Coming \union {<<"decide">>, <<"retract">>}
      /\ hooks[g].plan \notin Coming \union Judging \union Saving \union Saved /\ hooks[g].plan # <<"cancel", "load">>
  BY <1>1, <1>4, <1>5, PlansApart DEF Judging
<1>7. /\ posted'.retract = posted.retract /\ posted'.told = posted.told /\ posted'.pushed = posted.pushed
      /\ ("write" \in posted.hurt => "write" \in posted'.hurt)
      /\ posted' = [retract |-> posted'.retract, told |-> [x \in PushGroups |-> posted'.told[x]],
                    pushed |-> posted'.pushed, delivered |-> posted'.delivered, hurt |-> posted'.hurt,
                    raced |-> posted'.raced]
      /\ posted'.hurt = {} => posted' = posted
  BY <1>1, <1>2, PostedIs
<1>8. DOMAIN device' = {"note", "repeats"}  BY <1>1, <1>2 DEF TypedGroups
<1>9. TypedGroups'  BY <1>1, <1>2, <1>3, <1>5, <1>7, <1>8, TypedGoes DEF h
<1>10. hooks[g].alerts.firing = {}  BY <1>1 DEF Fires
<1>11. "write" \notin posted'.hurt => PushesFit'
  <2> SUFFICES ASSUME "write" \notin posted.hurt PROVE PushesFit'
    BY <1>7
  <2>1. PushesFit  BY DEF NInv
  <2>2. Pushed(hooks[g], GroupAlerts[g], posted.told[g], posted.pushed, LastPush)
    BY <2>1 DEF PushesFit
  <2>3. Pushed(h, GroupAlerts[g], posted.told[g], posted'.pushed, LastPush)
    BY <1>5, <1>6, <1>7, <1>10, <2>2 DEF Pushed
  <2>4. QED  BY <1>1, <1>2, <1>3, <1>7, <2>1, <2>3, PushesGo DEF h
<1>12. posted'.hurt = {} /\ ~posted'.raced => NoteFits'
  <2> SUFFICES ASSUME posted'.hurt = {}, ~posted'.raced PROVE NoteFits'
    OBVIOUS
  <2>1. NoteFits /\ posted' = posted  BY <1>7 DEF NInv
  <2>2. Told(hooks[g], GroupAlerts[g], posted.told[g], device.note, LastPush, rows[g], posted.retract)
    BY <2>1 DEF NoteFits
  <2>3. hooks'[g] = h /\ \A x \in PushGroups : x # g => hooks'[x] = hooks[x]
    BY <1>1, <1>2, HookGoes DEF h
  <2>4. Alone(g)'  BY <1>6, <2>3 DEF Alone
  <2>5. ~Live(hooks[g], posted.told[g])  BY <1>1, <1>6 DEF Live
  <2>6. CASE plan = <<"send">>
    <3>1. device' = device
      <4>1. <<"send">> \notin Saving  BY PlansApart
      <4>2. QED  BY <1>2, <2>6, <4>1, SavedIs
    <3>2. h.plan \notin Saving  BY <1>5, <2>6, PlansApart
    <3>3. Told(h, GroupAlerts[g], posted.told[g], device.note, LastPush, rows[g], posted.retract)
      BY <1>1, <1>5, <1>6, <2>2, <3>2 DEF Told, Owes
    <3>4. device'.note = device.note /\ (device'.repeats => device.repeats)  BY <3>1
    <3>5. QED  BY <1>1, <1>2, <1>3, <1>7, <2>1, <2>4, <2>5, <3>3, <3>4, NotesGo DEF h
  <2>7. CASE plan # <<"send">>
    <3>1. device'.note = {} /\ device'.repeats = device.repeats
      <4>1. DOMAIN device = {"note", "repeats"}  BY <1>1 DEF TypedGroups
      <4>2. device' = [device EXCEPT !.note = {}]  BY <1>2, <2>7
      <4>3. QED  BY <4>1, <4>2
    <3>2. LastPush' = LastPush  BY <1>3, <1>7 DEF LastPush
    <3>3. h.plan \in Saving  BY <1>4, <1>5, <2>7
    <3>4. Told(h, GroupAlerts[g], posted.told[g], {}, LastPush, rows[g], posted.retract)
      <4>1. ~Owes(h, posted.told[g])  BY <1>1, <1>5, <3>3 DEF Owes
      <4>2. Agrees(LastPush, GroupAlerts[g], posted.told[g])  BY <1>6, <2>2 DEF Told
      <4>3. QED  BY <1>1, <1>5, <1>6, <4>1, <4>2 DEF Told
    <3>5. ASSUME NEW x \in PushGroups, x # g
          PROVE  Told(hooks[x], GroupAlerts[x], posted.told[x], {}, LastPush, rows[x], posted.retract)
      <4>1. Told(hooks[x], GroupAlerts[x], posted.told[x], device.note, LastPush, rows[x], posted.retract)
        BY <2>1 DEF NoteFits
      <4>2. rows[x] = None
        <5>1. Alone(g)  BY <2>1 DEF NoteFits
        <5>2. QED  BY <1>1, <3>5, <5>1 DEF Alone
      <4>3. ~Owes(hooks[x], posted.told[x])  BY <1>1, <4>1, <4>2 DEF Told
      <4>4. QED  BY <4>1, <4>3 DEF Told
    <3>6. \A x \in PushGroups : Told(hooks'[x], GroupAlerts[x], posted.told[x], {}, LastPush, rows[x], posted.retract)
      BY <2>3, <3>4, <3>5
    <3>7. \A x \in PushGroups : Alone(x)'
      <4>1. \A x \in PushGroups : x # g => Alone(x)'  BY <1>3, <2>1, <2>3 DEF NoteFits, Alone
      <4>2. QED  BY <2>4, <4>1
    <3>8. device.repeats => \E x \in PushGroups : Live(hooks'[x], posted.told[x])
      BY <2>1, <2>3, <2>5 DEF NoteFits
    <3>9. QED  BY <1>3, <2>1, <3>1, <3>2, <3>6, <3>7, <3>8 DEF NoteFits
  <2>8. QED  BY <2>6, <2>7
<1>13. QED  BY <1>9, <1>11, <1>12 DEF NInv

\* A push that fails leaves its webhook refused.
LEMMA IdleKeeps ==
  ASSUME GroupsNamed, NInv, NEW g \in PushGroups, hooks' = [hooks EXCEPT ![g] = Grafana!Idle],
         UNCHANGED <<rows, device>>, NEW kind \in {"call", "crash"}, Grafana!Fault(kind)
  PROVE  NInv'
<1>1. TypedGroups  BY DEF NInv
<1>2. /\ posted'.retract = posted.retract /\ posted'.told = posted.told /\ posted'.pushed = posted.pushed
      /\ ("write" \in posted.hurt => "write" \in posted'.hurt)
      /\ posted' = [retract |-> posted'.retract, told |-> [x \in PushGroups |-> posted'.told[x]],
                    pushed |-> posted'.pushed, delivered |-> posted'.delivered, hurt |-> posted'.hurt,
                    raced |-> posted'.raced]
      /\ posted'.hurt # {}
  BY <1>1, PostedIs
<1>3. /\ HookFits(Grafana!Idle, GroupAlerts[g], posted.told[g], posted.retract)
      /\ ~Busy(Grafana!Idle)
  <2> DEFINE no == FALSE
             over == <<>>
             idle == Grafana!Idle
  <2>1. idle = Hook(None, over, None, no, no)  BY DEF Grafana!Idle, None, Hook
  <2> HIDE DEF no, over, idle
  <2>2. idle = Hook(idle.alerts, idle.plan, idle.prev, idle.tracked, idle.elsewhere) /\ idle.alerts = None
    BY <2>1 DEF Hook
  <2>3. posted.told[g] \subseteq GroupAlerts[g]  BY <1>1, HookIs
  <2>4. QED  BY <2>2, <2>3 DEF HookFits, Busy, idle
<1>4. rows' = rows /\ device' = device  OBVIOUS
<1>5. DOMAIN device' = {"note", "repeats"}  BY <1>1, <1>4 DEF TypedGroups
<1>6. TypedGroups'  BY <1>1, <1>2, <1>3, <1>4, <1>5, TypedGoes
<1>7. "write" \notin posted'.hurt => PushesFit'
  <2> SUFFICES ASSUME "write" \notin posted.hurt PROVE PushesFit'
    BY <1>2
  <2>1. PushesFit  BY DEF NInv
  <2>2. Pushed(hooks[g], GroupAlerts[g], posted.told[g], posted.pushed, LastPush)
    BY <2>1 DEF PushesFit
  <2>3. Pushed(Grafana!Idle, GroupAlerts[g], posted.told[g], posted'.pushed, LastPush)
    BY <1>2, <1>3, <2>2 DEF Pushed
  <2>4. QED  BY <1>1, <1>2, <1>4, <2>1, <2>3, PushesGo
<1>8. QED  BY <1>2, <1>6, <1>7 DEF NInv

\* A push says what fires in its group, and replaces what the other groups'
\* pushes said.
LEMMA SendKeeps ==
  ASSUME GroupsNamed, NInv, NEW g \in PushGroups, Grafana!Send(g)
  PROVE  NInv'
<1>1. /\ TypedGroups /\ Busy(hooks[g]) /\ hooks[g] # Grafana!Idle
      /\ Working(hooks[g], GroupAlerts[g], posted.told[g], posted.retract) /\ hooks[g].plan = <<"send">>
  BY CallIs, GroupPlans DEF Grafana!Send
<1>2. CASE /\ hooks' = [hooks EXCEPT ![g] = Grafana!Idle] /\ UNCHANGED <<rows, device>> /\ Grafana!Fault("call")
  BY <1>2, IdleKeeps
<1>3. CASE /\ device' = [note |-> Grafana!Current(g).firing \union {"resolved"},
                         repeats |-> device.repeats \/ (Grafana!Firing(g) /\ Grafana!NewlyFiring(g))]
           /\ Grafana!Then(g, Grafana!Saved(g)) /\ rows' = rows
           /\ posted' = [posted EXCEPT !.pushed = @ \union Grafana!Current(g).firing]
  <2> DEFINE plan == Grafana!Saved(g)
             h == Hook(hooks[g].alerts, plan, hooks[g].prev, hooks[g].tracked, hooks[g].elsewhere)
             told == posted.told[g]
             firing == hooks[g].alerts.firing
             repeats == device.repeats \/ (Grafana!Firing(g) /\ Grafana!NewlyFiring(g))
  <2>1. hooks' = [hooks EXCEPT ![g] = h]  BY <1>1, <1>3, ThenGoes
  <2>2. /\ HookFits(h, GroupAlerts[g], told, posted.retract)
        /\ h.alerts = hooks[g].alerts /\ h.plan = plan /\ h.prev = hooks[g].prev /\ h.elsewhere = hooks[g].elsewhere
        /\ Busy(h) /\ (Fires(h) <=> Fires(hooks[g]))
    <3>1. plan \notin Coming  BY SavedIs, PlansApart
    <3>2. TypedGroups /\ hooks[g] # Grafana!Idle  BY <1>1
    <3>3. PlanFits(plan, Fires(hooks[g]), posted.retract, hooks[g].elsewhere)  BY SavedIs
    <3>4. Follows(h, hooks[g], plan, hooks[g].prev, hooks[g].elsewhere, GroupAlerts[g], posted.told[g], posted.retract)
      BY <3>1, <3>2, <3>3, ThenFits
    <3> HIDE DEF h
    <3>5. QED  BY <3>4 DEF Follows
  <2>3. h.plan \in Saving  BY <2>2, SavedIs
  <2> HIDE DEF h, plan
  <2>4. /\ h.plan \notin Judging \union Saved \union Coming \union {<<"decide">>, <<"send">>, <<"retract">>}
        /\ hooks[g].plan \notin Coming \union Judging \union Saving \union Saved /\ hooks[g].plan # <<"cancel", "load">>
    BY <1>1, <2>3, PlansApart
  <2>5. firing \subseteq GroupAlerts[g]  BY <1>1 DEF Working
  <2>6. /\ posted'.retract = posted.retract /\ posted'.told = posted.told
        /\ posted'.pushed = posted.pushed \union firing /\ posted'.hurt = posted.hurt /\ posted'.raced = posted.raced
        /\ posted' = [retract |-> posted'.retract, told |-> [x \in PushGroups |-> posted'.told[x]],
                      pushed |-> posted'.pushed, delivered |-> posted'.delivered, hurt |-> posted'.hurt,
                      raced |-> posted'.raced]
    <3> DEFINE more == posted.pushed \union firing
    <3>1. posted' = [posted EXCEPT !.pushed = more]  BY <1>3 DEF Grafana!Current
    <3>2. posted = [retract |-> posted.retract, told |-> [x \in PushGroups |-> posted.told[x]],
                    pushed |-> posted.pushed, delivered |-> posted.delivered, hurt |-> posted.hurt,
                    raced |-> posted.raced]
      BY <1>1 DEF TypedGroups
    <3>3. more = posted.pushed \union firing  OBVIOUS
    <3> DEFINE was == posted.told
    <3>4. was = [x \in PushGroups |-> was[x]]  BY <3>2
    <3> HIDE DEF more, was
    <3>5. posted = [retract |-> posted.retract, told |-> was, pushed |-> posted.pushed,
                    delivered |-> posted.delivered, hurt |-> posted.hurt, raced |-> posted.raced]
      BY <3>2, <3>4 DEF was
    <3>6. posted' = [retract |-> posted.retract, told |-> was, pushed |-> more,
                     delivered |-> posted.delivered, hurt |-> posted.hurt, raced |-> posted.raced]
      BY <3>1, <3>5
    <3>7. /\ posted'.retract = posted.retract /\ posted'.told = was /\ posted'.pushed = more
          /\ posted'.delivered = posted.delivered /\ posted'.hurt = posted.hurt /\ posted'.raced = posted.raced
      BY <3>6
    <3>8. posted' = [retract |-> posted'.retract, told |-> [x \in PushGroups |-> posted'.told[x]],
                     pushed |-> posted'.pushed, delivered |-> posted'.delivered, hurt |-> posted'.hurt,
                     raced |-> posted'.raced]
      BY <3>4, <3>6, <3>7
    <3>9. was = posted.told  BY DEF was
    <3>10. QED  BY <3>3, <3>7, <3>8, <3>9
  <2>7. /\ DOMAIN device' = {"note", "repeats"} /\ device'.note = firing \union {"resolved"}
        /\ device'.repeats => device.repeats \/ Fires(hooks[g])
    <3>1. device' = [note |-> firing \union {"resolved"}, repeats |-> repeats]  BY <1>3 DEF Grafana!Current
    <3>2. repeats => device.repeats \/ Fires(hooks[g])  BY DEF Grafana!Firing, Grafana!Current, Fires
    <3> HIDE DEF repeats
    <3>3. QED  BY <3>1, <3>2
  <2>8. TypedGroups'  BY <1>1, <1>3, <2>1, <2>2, <2>6, <2>7, TypedGoes
  <2>9. "write" \notin posted'.hurt => PushesFit'
    <3> SUFFICES ASSUME "write" \notin posted.hurt PROVE PushesFit'
      BY <2>6
    <3>1. PushesFit  BY DEF NInv
    <3>2. Pushed(hooks[g], GroupAlerts[g], told, posted.pushed, LastPush)
      BY <3>1 DEF PushesFit
    <3>3. Pushed(h, GroupAlerts[g], told, posted'.pushed, LastPush)
      BY <2>2, <2>4, <2>6, <3>2 DEF Pushed
    <3>4. posted.pushed \subseteq posted'.pushed  BY <2>6
    <3>5. QED  BY <1>1, <1>3, <2>1, <2>6, <3>1, <3>3, <3>4, PushesGo
  <2>10. posted'.hurt = {} /\ ~posted'.raced => NoteFits'
    <3> SUFFICES ASSUME posted.hurt = {}, ~posted.raced PROVE NoteFits'
      BY <2>6
    <3>1. NoteFits  BY DEF NInv
    <3>2. Told(hooks[g], GroupAlerts[g], told, device.note, LastPush, rows[g], posted.retract)
      BY <3>1 DEF NoteFits
    <3>3. hooks'[g] = h /\ \A x \in PushGroups : x # g => hooks'[x] = hooks[x]
      BY <1>1, <2>1, HookGoes
    <3>4. LastPush' = LastPush  BY <1>3, <2>6 DEF LastPush
    <3>5. Told(h, GroupAlerts[g], told, device'.note, LastPush, rows[g], posted.retract)
      <4>1. Owes(h, told) <=> firing # {}  BY <2>2, <2>3 DEF Owes, Fires
      <4>2. device'.note # {} /\ (device'.note \cap GroupAlerts[g] # {} => firing # {})
        BY <2>7 DEF GroupsNamed
      <4>3. posted.retract /\ firing # {} => rows[g] # None  BY <1>1, <3>2 DEF Told, Fires
      <4>4. Agrees(LastPush, GroupAlerts[g], told)  BY <2>4, <3>2 DEF Told
      <4>5. QED  BY <2>4, <4>1, <4>2, <4>3, <4>4 DEF Told
    <3>6. ASSUME NEW x \in PushGroups, x # g
          PROVE  Told(hooks[x], GroupAlerts[x], posted.told[x], device'.note, LastPush, rows[x], posted.retract)
      <4>1. Told(hooks[x], GroupAlerts[x], posted.told[x], device.note, LastPush, rows[x], posted.retract)
        BY <3>1 DEF NoteFits
      <4>2. device'.note # {} /\ device'.note \cap GroupAlerts[x] = {}
        BY <2>5, <2>7, <3>6 DEF GroupsNamed
      <4>3. QED  BY <4>1, <4>2 DEF Told
    <3>7. \A x \in PushGroups :
            Told(hooks'[x], GroupAlerts[x], posted.told[x], device'.note, LastPush, rows[x], posted.retract)
      BY <3>3, <3>5, <3>6
    <3>8. \A x \in PushGroups : Alone(x)'
      <4>1. \A x \in PushGroups : x # g => Alone(x)'  BY <1>3, <2>6, <3>1, <3>3 DEF NoteFits, Alone
      <4>2. Alone(g)'  BY <2>4, <3>3 DEF Alone
      <4>3. QED  BY <4>1, <4>2
    <3>9. device'.repeats => \E x \in PushGroups : Live(hooks'[x], posted.told[x])
      <4>1. CASE Fires(hooks[g])
        <5>1. Live(h, told)  BY <2>2, <2>3, <4>1 DEF Live
        <5>2. QED  BY <3>3, <5>1
      <4>2. CASE ~Fires(hooks[g])
        <5>1. ~Live(hooks[g], told)  BY <1>1, <2>4, <4>2 DEF Live
        <5>2. QED  BY <2>7, <3>1, <3>3, <4>2, <5>1 DEF NoteFits
      <4>3. QED  BY <4>1, <4>2
    <3>10. QED  BY <1>3, <2>6, <3>4, <3>7, <3>8, <3>9 DEF NoteFits
  <2>11. QED  BY <2>8, <2>9, <2>10 DEF NInv
<1>4. QED  BY <1>2, <1>3 DEF Grafana!Send

\* What a row is written with, and what is left to do after it.
Writes(h, g, plan, sub, to, retract) ==
  \/ h.plan = <<"own", "decide">> /\ plan = <<"decide">> /\ sub = g /\ to = h.alerts /\ retract /\ Fires(h)
  \/ h.plan = <<"own">> /\ plan = <<>> /\ sub = g /\ to = None /\ retract /\ ~Fires(h)
  \/ h.plan = <<"last">> /\ plan = <<>> /\ sub = "last" /\ to = h.alerts /\ retract /\ Fires(h)
  \/ h.plan = <<"last", "own">> /\ plan = <<"own">> /\ sub = "last" /\ to = h.alerts /\ retract /\ ~Fires(h)
  \/ h.plan = <<"plain">> /\ plan = <<>> /\ sub = "plain" /\ to \in {None, h.alerts} /\ ~retract

LEMMA RowIs ==
  ASSUME NEW g \in PushGroups
  PROVE  /\ Grafana!Row(g, "own").sub = g
         /\ Fires(hooks[g]) => Grafana!Row(g, "own").to = hooks[g].alerts
         /\ ~Fires(hooks[g]) => Grafana!Row(g, "own").to = None
         /\ Grafana!Row(g, "last").sub = "last" /\ Grafana!Row(g, "last").to = hooks[g].alerts
         /\ Grafana!Row(g, "plain").sub = "plain" /\ Grafana!Row(g, "plain").to \in {None, hooks[g].alerts}
<1> DEFINE alerts == hooks[g].alerts
           up == Grafana!UpdateState(alerts)
<1>1. /\ Grafana!Row(g, "own") = [sub |-> g, to |-> up] /\ Grafana!Row(g, "last") = [sub |-> "last", to |-> alerts]
      /\ Grafana!Row(g, "plain") = [sub |-> "plain", to |-> up]
  BY DEF Grafana!Row, Grafana!Current
<1>2. (Fires(hooks[g]) => up = alerts) /\ (~Fires(hooks[g]) => up = None)
  BY DEF Grafana!UpdateState, Fires, None
<1> HIDE DEF up
<1>3. QED  BY <1>1, <1>2

LEMMA StoreGoes ==
  ASSUME GroupsNamed, NInv, NEW g \in PushGroups, Grafana!Store(g)
  PROVE  \E plan, sub, to :
           /\ Writes(hooks[g], g, plan, sub, to, posted.retract)
           /\ hooks' = [hooks EXCEPT ![g] =
                Hook(hooks[g].alerts, plan, hooks[g].prev, hooks[g].tracked, hooks[g].elsewhere)]
           /\ device' = device
           /\ \/ rows' = rows /\ Grafana!Fault("write")
              \/ /\ rows' = [rows EXCEPT ![sub] = to]
                 /\ posted'.retract = posted.retract /\ posted'.told = posted.told /\ posted'.pushed = posted.pushed
                 /\ posted'.hurt = posted.hurt
                 /\ ~posted'.raced => ~posted.raced /\ (hooks[g].plan = <<"own", "decide">> => ~Grafana!Missed(g))
                 /\ posted' = [retract |-> posted'.retract, told |-> [x \in PushGroups |-> posted'.told[x]],
                               pushed |-> posted'.pushed, delivered |-> posted'.delivered, hurt |-> posted'.hurt,
                               raced |-> posted'.raced]
<1>1. PICK call \in {"own", "last", "plain"} :
        /\ Grafana!Calls(g, call) /\ Grafana!Advance(g)
        /\ \/ /\ rows' = [rows EXCEPT ![Grafana!Row(g, call).sub] = Grafana!Row(g, call).to]
              /\ posted' = [posted EXCEPT !.raced = @ \/ (call = "own" /\ Grafana!Missed(g))]
           \/ rows' = rows /\ Grafana!Fault("write")
        /\ device' = device
  BY DEF Grafana!Store
<1> DEFINE plan == Tail(hooks[g].plan)
           sub == Grafana!Row(g, call).sub
           to == Grafana!Row(g, call).to
           race == posted.raced \/ (call = "own" /\ Grafana!Missed(g))
<1>2. /\ TypedGroups /\ hooks[g].plan # <<>> /\ Head(hooks[g].plan) = call
      /\ PlanFits(hooks[g].plan, Fires(hooks[g]), posted.retract, hooks[g].elsewhere)
  BY <1>1, CallIs
<1>3. Writes(hooks[g], g, plan, sub, to, posted.retract)
  <2>1. CASE call = "own"
    <3>1. \/ hooks[g].plan = <<"own", "decide">> /\ posted.retract /\ Fires(hooks[g]) /\ plan = <<"decide">>
          \/ hooks[g].plan = <<"own">> /\ posted.retract /\ ~Fires(hooks[g]) /\ plan = <<>>
      BY <1>2, <2>1, GroupPlans
    <3> HIDE DEF plan
    <3>2. QED  BY <2>1, <3>1, RowIs DEF Writes
  <2>2. CASE call = "last"
    <3>1. \/ hooks[g].plan = <<"last">> /\ posted.retract /\ Fires(hooks[g]) /\ plan = <<>>
          \/ hooks[g].plan = <<"last", "own">> /\ posted.retract /\ ~Fires(hooks[g]) /\ plan = <<"own">>
      BY <1>2, <2>2, GroupPlans
    <3> HIDE DEF plan
    <3>2. QED  BY <2>2, <3>1, RowIs DEF Writes
  <2>3. CASE call = "plain"
    <3>1. hooks[g].plan = <<"plain">> /\ ~posted.retract /\ plan = <<>>
      BY <1>2, <2>3, GroupPlans
    <3> HIDE DEF plan
    <3>2. QED  BY <2>3, <3>1, RowIs DEF Writes
  <2>4. QED  BY <1>1, <2>1, <2>2, <2>3
<1>4. hooks' = [hooks EXCEPT ![g] =
        Hook(hooks[g].alerts, plan, hooks[g].prev, hooks[g].tracked, hooks[g].elsewhere)]
  <2>1. Grafana!Then(g, plan)  BY <1>1 DEF Grafana!Advance
  <2> HIDE DEF plan
  <2>2. QED  BY <1>2, <2>1, ThenGoes
<1>5. CASE rows' = rows /\ Grafana!Fault("write")  BY <1>1, <1>3, <1>4, <1>5
<1>6. CASE /\ rows' = [rows EXCEPT ![sub] = to]
           /\ posted' = [posted EXCEPT !.raced = race]
  <2>1. ~race => ~posted.raced /\ (hooks[g].plan = <<"own", "decide">> => ~Grafana!Missed(g))
    <3>1. hooks[g].plan = <<"own", "decide">> => call = "own"
      <4>1. Head(<<"own", "decide">>) = "own"  OBVIOUS
      <4>2. QED  BY <1>2, <4>1
    <3>2. QED  BY <3>1
  <2> DEFINE was == posted.told
  <2>2. /\ was = [x \in PushGroups |-> was[x]]
        /\ posted = [retract |-> posted.retract, told |-> was, pushed |-> posted.pushed,
                     delivered |-> posted.delivered, hurt |-> posted.hurt, raced |-> posted.raced]
    BY <1>2 DEF TypedGroups
  <2> HIDE DEF race, was
  <2>3. posted' = [retract |-> posted.retract, told |-> was, pushed |-> posted.pushed,
                   delivered |-> posted.delivered, hurt |-> posted.hurt, raced |-> race]
    BY <1>6, <2>2
  <2>4. /\ posted'.retract = posted.retract /\ posted'.told = was /\ posted'.pushed = posted.pushed
        /\ posted'.delivered = posted.delivered /\ posted'.hurt = posted.hurt /\ posted'.raced = race
    BY <2>3
  <2>5. posted' = [retract |-> posted'.retract, told |-> [x \in PushGroups |-> posted'.told[x]],
                   pushed |-> posted'.pushed, delivered |-> posted'.delivered, hurt |-> posted'.hurt,
                   raced |-> posted'.raced]
    BY <2>2, <2>3, <2>4
  <2>6. was = posted.told  BY DEF was
  <2>7. ~posted'.raced => ~posted.raced /\ (hooks[g].plan = <<"own", "decide">> => ~Grafana!Missed(g))
    BY <2>1, <2>4
  <2> HIDE DEF plan, sub, to
  <2>8. QED  BY <1>1, <1>3, <1>4, <1>6, <2>4, <2>5, <2>6, <2>7
<1>7. QED  BY <1>1, <1>5, <1>6

\* A row is written, and no other.
LEMMA RowGoes ==
  ASSUME TypedGroups, NEW sub \in Grafana!Subs, NEW to, rows' = [rows EXCEPT ![sub] = to]
  PROVE  /\ rows'[sub] = to /\ \A s \in Grafana!Subs : s # sub => rows'[s] = rows[s]
         /\ rows' = [s \in Grafana!Subs |-> rows'[s]]
BY DEF TypedGroups

\* A webhook that writes a row, or fails to, goes on as the next plan says.
LEMMA WritesFit ==
  ASSUME GroupsNamed, TypedGroups, NEW g \in PushGroups, hooks[g] # Grafana!Idle, NEW plan, NEW sub, NEW to,
         Writes(hooks[g], g, plan, sub, to, posted.retract)
  PROVE  /\ PlanFits(plan, Fires(hooks[g]), posted.retract, hooks[g].elsewhere)
         /\ plan \notin Coming /\ sub \in {g, "plain", "last"} /\ sub \in Grafana!Subs
         /\ sub = g => plan = <<"decide">> \/ plan = <<>>
<1>1. plan \in {<<"decide">>, <<"own">>, <<>>}  BY DEF Writes
<1>2. plan \notin Coming
  <2>1. <<"decide">> \in Judging /\ <<"own">> \in Saved /\ <<>> \in Saved  BY DEF Judging, Saved
  <2>2. QED  BY <1>1, <2>1, PlansApart
<1>3. PlanFits(plan, Fires(hooks[g]), posted.retract, hooks[g].elsewhere)  BY DEF Writes, PlanFits
<1>4. sub \in {g, "plain", "last"}  BY DEF Writes
<1>5. sub \in Grafana!Subs  BY <1>4 DEF Grafana!Subs
<1>6. sub = g => plan = <<"decide">> \/ plan = <<>>  BY DEF Writes, GroupsNamed
<1>7. QED  BY <1>2, <1>3, <1>4, <1>5, <1>6

\* What a row of the name is written with keeps the rows as they should be.
LEMMA TypedWrites ==
  ASSUME GroupsNamed, TypedGroups, NEW g \in PushGroups, NEW h, hooks' = [hooks EXCEPT ![g] = h],
         HookFits(h, GroupAlerts[g], posted.told[g], posted.retract), hooks[g] # Grafana!Idle,
         NEW plan, NEW sub, NEW to, Writes(hooks[g], g, plan, sub, to, posted.retract),
         rows' = [rows EXCEPT ![sub] = to], device' = device,
         posted'.retract = posted.retract, posted'.told = posted.told,
         posted' = [retract |-> posted'.retract, told |-> [x \in PushGroups |-> posted'.told[x]],
                    pushed |-> posted'.pushed, delivered |-> posted'.delivered, hurt |-> posted'.hurt,
                    raced |-> posted'.raced]
  PROVE  TypedGroups'
<1>1. /\ hooks'[g] = h /\ \A x \in PushGroups : x # g => hooks'[x] = hooks[x]
      /\ hooks' = [x \in PushGroups |-> hooks'[x]]
  BY HookGoes
<1>2. sub \in {g, "plain", "last"} /\ sub \in Grafana!Subs  BY WritesFit
<1>3. /\ rows'[sub] = to /\ \A s \in Grafana!Subs : s # sub => rows'[s] = rows[s]
      /\ rows' = [s \in Grafana!Subs |-> rows'[s]]
  BY <1>2, RowGoes
<1>4. /\ "plain" \in Grafana!Subs /\ "last" \in Grafana!Subs /\ PushGroups \subseteq Grafana!Subs
      /\ "plain" \notin PushGroups /\ "last" \notin PushGroups /\ "plain" # "last"
  BY DEF Grafana!Subs, GroupsNamed
<1>5. \A x \in PushGroups : HookFits(hooks'[x], GroupAlerts[x], posted'.told[x], posted'.retract)
  BY <1>1 DEF TypedGroups
<1>6. hooks[g].alerts.firing \subseteq GroupAlerts[g]  BY HookIs DEF Working
<1>7. \A x \in PushGroups : OwnRow(rows'[x], GroupAlerts[x])
  <2>1. ASSUME NEW x \in PushGroups PROVE OwnRow(rows'[x], GroupAlerts[x])
    <3>1. CASE x # sub
      <4>1. rows'[x] = rows[x]  BY <1>3, <1>4, <3>1
      <4>2. QED  BY <4>1 DEF TypedGroups
    <3>2. CASE x = sub
      <4>1. x = g /\ rows'[x] = to  BY <1>2, <1>3, <1>4, <3>2
      <4>2. to = None \/ (to = hooks[g].alerts /\ Fires(hooks[g]))
        BY <1>4, <3>2 DEF Writes
      <4>3. QED  BY <1>6, <4>1, <4>2 DEF OwnRow, Fires
    <3>3. QED  BY <3>1, <3>2
  <2>2. QED  BY <2>1
<1>8. /\ posted.retract => rows'["plain"] = None
      /\ ~posted.retract => rows'["last"] = None /\ \A x \in PushGroups : rows'[x] = None
  <2>1. posted.retract => sub # "plain"  BY <1>4 DEF Writes
  <2>2. ~posted.retract => sub = "plain"  BY DEF Writes
  <2>3. QED  BY <1>3, <1>4, <2>1, <2>2 DEF TypedGroups
<1>9. DOMAIN device' = {"note", "repeats"}  BY DEF TypedGroups
<1>10. QED  BY <1>1, <1>3, <1>5, <1>7, <1>8, <1>9 DEF TypedGroups

\* The last push of another group says nothing of this one.
LEMMA Foreign ==
  ASSUME GroupsNamed, TypedGroups, NEW g \in PushGroups, hooks[g] # Grafana!Idle, NEW x \in PushGroups, x # g
  PROVE  (hooks[g].alerts.firing \union hooks[g].alerts.resolved) \cap GroupAlerts[x] = {}
<1>1. hooks[g].alerts.firing \subseteq GroupAlerts[g] /\ hooks[g].alerts.resolved \subseteq GroupAlerts[g]
  BY HookIs DEF Working
<1>2. GroupAlerts[g] \cap GroupAlerts[x] = {}  BY DEF GroupsNamed
<1>3. QED  BY <1>1, <1>2

LEMMA StoreKeeps ==
  ASSUME GroupsNamed, NInv, NEW g \in PushGroups, Grafana!Store(g)
  PROVE  NInv'
<1>1. PICK plan, sub, to :
        /\ Writes(hooks[g], g, plan, sub, to, posted.retract)
        /\ hooks' = [hooks EXCEPT ![g] =
             Hook(hooks[g].alerts, plan, hooks[g].prev, hooks[g].tracked, hooks[g].elsewhere)]
        /\ device' = device
        /\ \/ rows' = rows /\ Grafana!Fault("write")
           \/ /\ rows' = [rows EXCEPT ![sub] = to]
              /\ posted'.retract = posted.retract /\ posted'.told = posted.told /\ posted'.pushed = posted.pushed
              /\ posted'.hurt = posted.hurt
              /\ ~posted'.raced => ~posted.raced /\ (hooks[g].plan = <<"own", "decide">> => ~Grafana!Missed(g))
              /\ posted' = [retract |-> posted'.retract, told |-> [x \in PushGroups |-> posted'.told[x]],
                            pushed |-> posted'.pushed, delivered |-> posted'.delivered, hurt |-> posted'.hurt,
                            raced |-> posted'.raced]
  BY StoreGoes
<1> DEFINE h == Hook(hooks[g].alerts, plan, hooks[g].prev, hooks[g].tracked, hooks[g].elsewhere)
           told == posted.told[g]
<1>2. TypedGroups /\ hooks[g] # Grafana!Idle
  <2>1. \E call \in {"own", "last", "plain"} : Grafana!Calls(g, call)  BY DEF Grafana!Store
  <2>2. QED  BY <2>1, CallIs
<1>3. Busy(hooks[g]) /\ Working(hooks[g], GroupAlerts[g], told, posted.retract)  BY <1>2, HookIs
<1>4. /\ PlanFits(plan, Fires(hooks[g]), posted.retract, hooks[g].elsewhere)
      /\ plan \notin Coming /\ sub \in {g, "plain", "last"} /\ sub \in Grafana!Subs
      /\ sub = g => plan = <<"decide">> \/ plan = <<>>
  BY <1>1, <1>2, WritesFit
<1>5. /\ HookFits(h, GroupAlerts[g], told, posted.retract)
      /\ h.alerts = hooks[g].alerts /\ h.plan = plan /\ h.prev = hooks[g].prev /\ h.elsewhere = hooks[g].elsewhere
      /\ Busy(h) /\ (Fires(h) <=> Fires(hooks[g]))
  <2>1. PlanFits(plan, Fires(hooks[g]), posted.retract, hooks[g].elsewhere)  BY <1>4
  <2>2. plan \in Coming => hooks[g].prev = None  BY <1>4
  <2>3. Follows(h, hooks[g], plan, hooks[g].prev, hooks[g].elsewhere, GroupAlerts[g], posted.told[g], posted.retract)
    BY <1>2, <2>1, <2>2, ThenFits
  <2> HIDE DEF h
  <2>4. QED  BY <2>3 DEF Follows
<1>6. hooks' = [hooks EXCEPT ![g] = h]  BY <1>1
<1> HIDE DEF h
<1>7. CASE rows' = rows /\ Grafana!Fault("write")
  <2>1. /\ posted'.retract = posted.retract /\ posted'.told = posted.told /\ posted'.hurt = {"write"}
        /\ posted' = [retract |-> posted'.retract, told |-> [x \in PushGroups |-> posted'.told[x]],
                      pushed |-> posted'.pushed, delivered |-> posted'.delivered, hurt |-> posted'.hurt,
                      raced |-> posted'.raced]
    BY <1>2, <1>7, PostedIs
  <2>2. DOMAIN device' = {"note", "repeats"}  BY <1>1, <1>2 DEF TypedGroups
  <2>3. TypedGroups'  BY <1>2, <1>5, <1>6, <1>7, <2>1, <2>2, TypedGoes
  <2>4. QED  BY <2>1, <2>3 DEF NInv
<1>8. CASE /\ rows' = [rows EXCEPT ![sub] = to]
           /\ posted'.retract = posted.retract /\ posted'.told = posted.told /\ posted'.pushed = posted.pushed
           /\ posted'.hurt = posted.hurt
           /\ ~posted'.raced => ~posted.raced /\ (hooks[g].plan = <<"own", "decide">> => ~Grafana!Missed(g))
           /\ posted' = [retract |-> posted'.retract, told |-> [x \in PushGroups |-> posted'.told[x]],
                         pushed |-> posted'.pushed, delivered |-> posted'.delivered, hurt |-> posted'.hurt,
                         raced |-> posted'.raced]
  <2>1. TypedGroups'  BY <1>1, <1>2, <1>5, <1>6, <1>8, TypedWrites
  <2>2. hooks'[g] = h /\ \A x \in PushGroups : x # g => hooks'[x] = hooks[x]
    BY <1>2, <1>6, HookGoes
  <2>3. rows'[sub] = to /\ \A s \in Grafana!Subs : s # sub => rows'[s] = rows[s]
    BY <1>2, <1>4, <1>8, RowGoes
  <2>4. /\ "plain" \in Grafana!Subs /\ "last" \in Grafana!Subs /\ PushGroups \subseteq Grafana!Subs
        /\ "plain" \notin PushGroups /\ "last" \notin PushGroups
    BY DEF Grafana!Subs, GroupsNamed
  <2>5. sub = g => LastPush' = LastPush
    <3>1. sub = g => rows'["plain"] = rows["plain"] /\ rows'["last"] = rows["last"]  BY <2>3, <2>4
    <3>2. QED  BY <1>8, <3>1 DEF LastPush
  <2>6. sub # g => LastPush' = to /\ (to = None \/ to = hooks[g].alerts)
    <3>1. sub # g => \/ sub = "last" /\ posted.retract /\ to = hooks[g].alerts
                     \/ sub = "plain" /\ ~posted.retract /\ to \in {None, hooks[g].alerts}
      BY <1>1 DEF Writes
    <3>2. QED  BY <1>8, <2>3, <3>1 DEF LastPush
  <2>7. /\ sub = g => \/ hooks[g].plan \in Judging /\ h.plan \in Judging /\ Fires(h) /\ to # None
                      \/ hooks[g].plan \in Saved /\ h.plan \in Saved /\ ~Fires(h)
        /\ sub # g => hooks[g].plan \in Saving /\ h.plan \in Saved
    <3>1. "noRow" \notin hooks[g].alerts.firing /\ None.firing = {"noRow"}
      BY <1>3 DEF Working, GroupsNamed, None, Grafana!None
    <3>2. hooks[g].alerts # None  BY <3>1
    <3>3. QED  BY <1>1, <1>5, <2>4, <3>2 DEF Writes, Judging, Saving, Saved
  <2>8. /\ hooks[g].alerts.firing \subseteq GroupAlerts[g]
        /\ \A x \in PushGroups : x # g =>
             (hooks[g].alerts.firing \union hooks[g].alerts.resolved) \cap GroupAlerts[x] = {}
    BY <1>2, <1>3, Foreign DEF Working
  <2>9. sub # g => \A x \in PushGroups : x # g =>
          LastPush' = None \/ (LastPush'.firing \union LastPush'.resolved) \cap GroupAlerts[x] = {}
    BY <2>6, <2>8
  <2>10. /\ h.plan \notin Coming
         /\ h.plan \in Judging => h.plan \notin Saving \union Saved /\ h.plan # <<"cancel", "load">>
         /\ h.plan \in Saved => h.plan \notin Judging \union Saving
                                /\ h.plan \notin {<<"decide">>, <<"send">>, <<"retract">>}
         /\ hooks[g].plan \in Judging => hooks[g].plan \notin Saving \union Saved /\ hooks[g].plan # <<"cancel", "load">>
    BY <1>4, <1>5, PlansApart DEF Coming
  <2>11. "write" \notin posted'.hurt => PushesFit'
    <3> SUFFICES ASSUME "write" \notin posted.hurt PROVE PushesFit'
      BY <1>8
    <3>1. PushesFit  BY DEF NInv
    <3>2. Pushed(hooks[g], GroupAlerts[g], told, posted.pushed, LastPush)  BY <3>1 DEF PushesFit
    <3>3. LastPush' = None \/ LastPush'.firing \subseteq posted.pushed
      <4>1. CASE sub = g  BY <2>5, <3>1, <4>1 DEF PushesFit
      <4>2. CASE sub # g
        <5>1. hooks[g].alerts.firing \subseteq posted.pushed  BY <1>3, <2>7, <3>2, <4>2 DEF Pushed
        <5>2. QED  BY <2>6, <4>2, <5>1
      <4>3. QED  BY <4>1, <4>2
    <3>4. Pushed(h, GroupAlerts[g], told, posted.pushed, LastPush')
      <4>1. CASE sub = g  BY <1>3, <1>5, <2>5, <2>7, <2>10, <3>2, <4>1 DEF Pushed
      <4>2. CASE sub # g  BY <1>3, <1>5, <2>6, <2>7, <2>10, <3>2, <4>2 DEF Pushed
      <4>3. QED  BY <4>1, <4>2
    <3>5. ASSUME NEW x \in PushGroups, x # g
          PROVE  Pushed(hooks[x], GroupAlerts[x], posted.told[x], posted.pushed, LastPush')
      <4>1. Pushed(hooks[x], GroupAlerts[x], posted.told[x], posted.pushed, LastPush)  BY <3>1 DEF PushesFit
      <4>2. CASE sub = g  BY <2>5, <4>1, <4>2
      <4>3. CASE sub # g
        <5>1. LastPush' = None \/ LastPush'.firing \cap GroupAlerts[x] = {}  BY <2>9, <3>5, <4>3
        <5>2. QED  BY <4>1, <5>1, PushedOther
      <4>4. QED  BY <4>2, <4>3
    <3>6. \A x \in PushGroups : Pushed(hooks'[x], GroupAlerts[x], posted'.told[x], posted'.pushed, LastPush')
      BY <1>8, <2>2, <3>4, <3>5
    <3>7. QED  BY <1>8, <3>3, <3>6 DEF PushesFit
  <2>12. posted'.hurt = {} /\ ~posted'.raced => NoteFits'
    <3> SUFFICES ASSUME posted.hurt = {}, ~posted'.raced PROVE NoteFits'
      BY <1>8
    <3>1. NoteFits /\ (hooks[g].plan = <<"own", "decide">> => ~Grafana!Missed(g))  BY <1>8 DEF NInv
    <3>2. Told(hooks[g], GroupAlerts[g], told, device.note, LastPush, rows[g], posted.retract)
      BY <3>1 DEF NoteFits
    <3>3. Told(h, GroupAlerts[g], told, device.note, LastPush', rows'[g], posted.retract)
      <4>1. CASE sub = g /\ h.plan \in Judging
        <5>1. rows'[g] # None  BY <2>3, <2>7, <2>10, <4>1
        <5>2. QED  BY <1>3, <1>5, <2>5, <2>7, <2>10, <3>2, <4>1, <5>1 DEF Told, Owes
      <4>2. CASE sub = g /\ h.plan \in Saved
        BY <1>3, <1>5, <2>5, <2>7, <2>10, <3>2, <4>2 DEF Told, Owes
      <4>3. CASE sub # g
        <5>1. rows'[g] = rows[g]  BY <2>3, <2>4, <4>3
        <5>2. h.plan \in Saved /\ hooks[g].plan \in Saving  BY <2>7, <4>3
        <5>3. Owes(h, told) <=> Owes(hooks[g], told)  BY <1>3, <1>5, <5>2 DEF Owes
        <5>4. Agrees(LastPush', GroupAlerts[g], h.alerts.firing)  BY <1>5, <2>6, <4>3 DEF Agrees
        <5>5. QED  BY <1>5, <2>10, <3>2, <5>1, <5>2, <5>3, <5>4 DEF Told
      <4>4. QED  BY <2>7, <4>1, <4>2, <4>3
    <3>4. ASSUME NEW x \in PushGroups, x # g
          PROVE  Told(hooks[x], GroupAlerts[x], posted.told[x], device.note, LastPush', rows'[x], posted.retract)
      <4>1. Told(hooks[x], GroupAlerts[x], posted.told[x], device.note, LastPush, rows[x], posted.retract)
        BY <3>1 DEF NoteFits
      <4>2. rows'[x] = rows[x]  BY <1>4, <2>3, <2>4, <3>4
      <4>3. CASE sub = g  BY <2>5, <4>1, <4>2, <4>3
      <4>4. CASE sub # g
        <5>1. LastPush' = None \/ (LastPush'.firing \union LastPush'.resolved) \cap GroupAlerts[x] = {}
          BY <2>9, <3>4, <4>4
        <5>2. QED  BY <4>1, <4>2, <5>1 DEF Told, Agrees
      <4>5. QED  BY <4>3, <4>4
    <3>5. \A x \in PushGroups :
            Told(hooks'[x], GroupAlerts[x], posted'.told[x], device'.note, LastPush', rows'[x], posted'.retract)
      BY <1>1, <1>8, <2>2, <3>3, <3>4
    <3>6. \A x \in PushGroups : Alone(x)'
      <4>1. Alone(g)'
        <5>1. hooks'[g].plan \notin {<<"decide">>, <<"retract">>} \/ Fires(hooks'[g])
          BY <2>2, <2>7, <2>10
        <5>2. QED  BY <5>1 DEF Alone
      <4>2. ASSUME NEW x \in PushGroups, x # g PROVE Alone(x)'
        <5> SUFFICES ASSUME posted.retract, hooks[x].plan \in {<<"decide">>, <<"retract">>}, ~Fires(hooks[x]),
                            ~hooks[x].elsewhere, NEW y \in PushGroups \ {x}
                     PROVE  rows'[y] = None
          BY <1>8, <2>2, <4>2 DEF Alone
        <5>1. rows[y] = None  BY <3>1 DEF NoteFits, Alone
        <5>2. CASE y # sub  BY <2>3, <2>4, <5>1, <5>2
        <5>3. CASE y = sub
          <6>1. y = g /\ sub = g  BY <1>4, <2>4, <5>3
          <6>2. CASE hooks[g].plan = <<"own", "decide">>
            <7>1. ~Grafana!Missed(g)  BY <3>1, <6>2
            <7>2. hooks[x].plan # <<>> /\ Head(hooks[x].plan) \notin {"cancel", "load"}
              <8>1. /\ <<"decide">> # <<>> /\ Head(<<"decide">>) = "decide"
                    /\ <<"retract">> # <<>> /\ Head(<<"retract">>) = "retract"
                OBVIOUS
              <8>2. QED  BY <8>1
            <7>3. QED  BY <4>2, <7>1, <7>2 DEF Grafana!Missed
          <6>3. CASE hooks[g].plan # <<"own", "decide">>
            <7>1. to = None  BY <1>1, <2>4, <6>1, <6>3 DEF Writes
            <7>2. QED  BY <2>3, <5>3, <7>1
          <6>4. QED  BY <6>2, <6>3
        <5>4. QED  BY <5>2, <5>3
      <4>3. QED  BY <4>1, <4>2
    <3>7. device'.repeats => \E x \in PushGroups : Live(hooks'[x], posted.told[x])
      <4>1. Live(hooks[g], told) => Live(h, told)
        BY <1>3, <1>5, <2>7, <2>10 DEF Live
      <4>2. QED  BY <1>1, <2>2, <3>1, <4>1 DEF NoteFits
    <3>8. QED  BY <1>8, <3>5, <3>6, <3>7 DEF NoteFits
  <2>13. QED  BY <2>1, <2>11, <2>12 DEF NInv
<1>9. QED  BY <1>1, <1>7, <1>8

\* A group that has nothing at work.
LEMMA IdleFits ==
  ASSUME NEW alerts, NEW told \in SUBSET alerts, NEW retract
  PROVE  /\ HookFits(Grafana!Idle, alerts, told, retract) /\ ~Busy(Grafana!Idle)
         /\ Grafana!Idle.plan = <<>> /\ Grafana!Idle.prev = None
<1> DEFINE no == FALSE
           over == <<>>
           idle == Grafana!Idle
<1>1. idle = Hook(None, over, None, no, no)  BY DEF Grafana!Idle, None, Hook
<1> HIDE DEF no, over, idle
<1>2. /\ idle = Hook(idle.alerts, idle.plan, idle.prev, idle.tracked, idle.elsewhere) /\ idle.alerts = None
      /\ idle.plan = over /\ idle.prev = None
  BY <1>1 DEF Hook
<1>3. QED  BY <1>2 DEF HookFits, Busy, idle, over

\* What an answer of 200 leaves as reported and as pushed.
LEMMA AnswerGoes ==
  ASSUME TypedGroups, NEW g \in PushGroups, Grafana!Answer(g)
  PROVE  /\ posted'.told = [posted.told EXCEPT ![g] = hooks[g].alerts.firing]
         /\ posted'.pushed = posted.pushed \ hooks[g].alerts.resolved
         /\ posted'.retract = posted.retract /\ posted'.hurt = posted.hurt /\ posted'.raced = posted.raced
         /\ posted' = [retract |-> posted'.retract, told |-> [x \in PushGroups |-> posted'.told[x]],
                       pushed |-> posted'.pushed, delivered |-> posted'.delivered, hurt |-> posted'.hurt,
                       raced |-> posted'.raced]
<1> DEFINE was == posted.told
           firing == hooks[g].alerts.firing
           less == posted.pushed \ hooks[g].alerts.resolved
           next == [was EXCEPT ![g] = firing]
<1>1. posted' = [posted EXCEPT !.told[g] = firing, !.pushed = less]  BY DEF Grafana!Answer, Grafana!Current
<1>2. /\ was = [x \in PushGroups |-> was[x]]
      /\ posted = [retract |-> posted.retract, told |-> was, pushed |-> posted.pushed,
                   delivered |-> posted.delivered, hurt |-> posted.hurt, raced |-> posted.raced]
  BY DEF TypedGroups
<1>3. [posted EXCEPT !.told[g] = firing, !.pushed = less] = [[posted EXCEPT !.told = next] EXCEPT !.pushed = less]
  <2> HIDE DEF firing, less
  <2>1. QED  OBVIOUS
<1>4. next = [x \in PushGroups |-> next[x]]  BY <1>2
<1>5. next = [posted.told EXCEPT ![g] = hooks[g].alerts.firing]  OBVIOUS
<1>6. less = posted.pushed \ hooks[g].alerts.resolved  OBVIOUS
<1> HIDE DEF was, less, next, firing
<1>7. [posted EXCEPT !.told = next] = [retract |-> posted.retract, told |-> next, pushed |-> posted.pushed,
                   delivered |-> posted.delivered, hurt |-> posted.hurt, raced |-> posted.raced]
  BY <1>2
<1>8. posted' = [retract |-> posted.retract, told |-> next, pushed |-> less,
                 delivered |-> posted.delivered, hurt |-> posted.hurt, raced |-> posted.raced]
  BY <1>1, <1>3, <1>7
<1>9. /\ posted'.retract = posted.retract /\ posted'.told = next /\ posted'.pushed = less
      /\ posted'.delivered = posted.delivered /\ posted'.hurt = posted.hurt /\ posted'.raced = posted.raced
  BY <1>8
<1>10. QED  BY <1>4, <1>5, <1>6, <1>8, <1>9

\* An answer settles what the group has reported, and forgets what resolved.
LEMMA GroupAnswerKeeps ==
  ASSUME GroupsNamed, NInv, NEW g \in PushGroups, Grafana!Answer(g)
  PROVE  NInv'
<1> DEFINE firing == hooks[g].alerts.firing
           resolved == hooks[g].alerts.resolved
<1>1. /\ hooks[g] # Grafana!Idle /\ hooks[g].plan = <<>> /\ hooks' = [hooks EXCEPT ![g] = Grafana!Idle]
      /\ rows' = rows /\ device' = device
  BY DEF Grafana!Answer
<1>2. TypedGroups  BY DEF NInv
<1>3. /\ posted'.told = [posted.told EXCEPT ![g] = firing] /\ posted'.pushed = posted.pushed \ resolved
      /\ posted'.retract = posted.retract /\ posted'.hurt = posted.hurt /\ posted'.raced = posted.raced
      /\ posted' = [retract |-> posted'.retract, told |-> [x \in PushGroups |-> posted'.told[x]],
                    pushed |-> posted'.pushed, delivered |-> posted'.delivered, hurt |-> posted'.hurt,
                    raced |-> posted'.raced]
  BY <1>2, AnswerGoes
<1>4. /\ Busy(hooks[g]) /\ Working(hooks[g], GroupAlerts[g], posted.told[g], posted.retract)
      /\ resolved = posted.told[g] \ firing /\ posted.told[g] \subseteq GroupAlerts[g]
  BY <1>1, <1>2, HookIs
<1>5. firing \subseteq GroupAlerts[g] /\ resolved \subseteq GroupAlerts[g] \ firing  BY <1>4 DEF Working
<1>6. /\ hooks'[g] = Grafana!Idle /\ \A x \in PushGroups : x # g => hooks'[x] = hooks[x]
      /\ hooks' = [x \in PushGroups |-> hooks'[x]]
  BY <1>1, <1>2, HookGoes
<1>7. posted'.told[g] = firing /\ \A x \in PushGroups : x # g => posted'.told[x] = posted.told[x]
  <2>1. posted.told = [x \in PushGroups |-> posted.told[x]]  BY <1>2 DEF TypedGroups
  <2> HIDE DEF firing
  <2>2. QED  BY <1>3, <2>1
<1>8. /\ HookFits(Grafana!Idle, GroupAlerts[g], firing, posted.retract) /\ ~Busy(Grafana!Idle)
      /\ Grafana!Idle.plan = <<>> /\ Grafana!Idle.prev = None
  BY <1>5, IdleFits
<1>9. /\ hooks[g].plan \in Saved
      /\ hooks[g].plan \notin Coming \union Judging \union Saving \union {<<"decide">>, <<"send">>, <<"retract">>}
  <2>1. <<>> \in Saved  BY DEF Saved
  <2>2. QED  BY <1>1, <2>1, PlansApart
<1>10. LastPush' = LastPush  BY <1>1, <1>3 DEF LastPush
<1> HIDE DEF firing, resolved
<1>11. TypedGroups'
  <2>1. \A x \in PushGroups : HookFits(hooks'[x], GroupAlerts[x], posted'.told[x], posted'.retract)
    BY <1>2, <1>3, <1>6, <1>7, <1>8 DEF TypedGroups
  <2>2. QED  BY <1>1, <1>2, <1>3, <1>6, <2>1 DEF TypedGroups
<1>12. "write" \notin posted'.hurt => PushesFit'
  <2> SUFFICES ASSUME "write" \notin posted.hurt PROVE PushesFit'
    BY <1>3
  <2>1. PushesFit  BY DEF NInv
  <2>2. Pushed(hooks[g], GroupAlerts[g], posted.told[g], posted.pushed, LastPush)  BY <2>1 DEF PushesFit
  <2>3. firing \subseteq posted.pushed /\ (LastPush = None \/ LastPush.firing \cap GroupAlerts[g] \subseteq firing)
    BY <1>4, <1>9, <2>2 DEF Pushed, firing
  <2>4. LastPush = None \/ LastPush.firing \subseteq posted'.pushed
    BY <1>3, <1>5, <2>1, <2>3 DEF PushesFit
  <2>5. Pushed(Grafana!Idle, GroupAlerts[g], firing, posted'.pushed, LastPush)
    <3>1. firing \subseteq posted'.pushed  BY <1>3, <1>5, <2>3
    <3>2. QED  BY <1>8, <3>1 DEF Pushed
  <2>6. ASSUME NEW x \in PushGroups, x # g
        PROVE  Pushed(hooks[x], GroupAlerts[x], posted.told[x], posted'.pushed, LastPush)
    <3>1. Pushed(hooks[x], GroupAlerts[x], posted.told[x], posted.pushed, LastPush)  BY <2>1 DEF PushesFit
    <3>2. posted.told[x] \subseteq GroupAlerts[x] /\ (Busy(hooks[x]) => hooks[x].alerts.firing \subseteq GroupAlerts[x])
      BY <1>2, HookIs DEF Working
    <3>3. posted.pushed \cap GroupAlerts[x] \subseteq posted'.pushed
      <4>1. GroupAlerts[g] \cap GroupAlerts[x] = {}  BY <2>6 DEF GroupsNamed
      <4>2. QED  BY <1>3, <1>5, <4>1
    <3>4. QED  BY <3>1, <3>2, <3>3, PushedMore
  <2>7. \A x \in PushGroups : Pushed(hooks'[x], GroupAlerts[x], posted'.told[x], posted'.pushed, LastPush)
    BY <1>6, <1>7, <2>5, <2>6
  <2>8. QED  BY <1>10, <2>4, <2>7 DEF PushesFit
<1>13. posted'.hurt = {} /\ ~posted'.raced => NoteFits'
  <2> SUFFICES ASSUME posted.hurt = {}, ~posted.raced PROVE NoteFits'
    BY <1>3
  <2>1. NoteFits  BY DEF NInv
  <2>2. Told(hooks[g], GroupAlerts[g], posted.told[g], device.note, LastPush, rows[g], posted.retract)
    BY <2>1 DEF NoteFits
  <2>3. Owes(Grafana!Idle, firing) <=> Owes(hooks[g], posted.told[g])
    BY <1>4, <1>8, <1>9 DEF Owes, Fires, firing
  <2>4. Grafana!Idle.plan \notin Judging \union {<<"decide">>, <<"send">>, <<"retract">>}
    BY <1>1, <1>8, <1>9
  <2>5. Agrees(LastPush, GroupAlerts[g], firing)  BY <1>4, <1>9, <2>2 DEF Told, firing
  <2>6. Told(Grafana!Idle, GroupAlerts[g], firing, device.note, LastPush, rows[g], posted.retract)
    BY <1>8, <2>2, <2>3, <2>4, <2>5 DEF Told
  <2>7. \A x \in PushGroups :
          Told(hooks'[x], GroupAlerts[x], posted'.told[x], device'.note, LastPush', rows'[x], posted'.retract)
    BY <1>1, <1>3, <1>6, <1>7, <1>10, <2>1, <2>6 DEF NoteFits
  <2>8. \A x \in PushGroups : Alone(x)'
    <3>1. Alone(g)'  BY <1>6, <2>4 DEF Alone
    <3>2. \A x \in PushGroups : x # g => Alone(x)'  BY <1>1, <1>3, <1>6, <2>1 DEF NoteFits, Alone
    <3>3. QED  BY <3>1, <3>2
  <2>9. device'.repeats => \E x \in PushGroups : Live(hooks'[x], posted'.told[x])
    <3>1. Live(hooks[g], posted.told[g]) => Live(Grafana!Idle, firing)
      BY <1>4, <1>8, <1>9 DEF Live, Fires, firing
    <3>2. QED  BY <1>1, <1>6, <1>7, <2>1, <3>1 DEF NoteFits
  <2>10. QED  BY <2>7, <2>8, <2>9 DEF NoteFits
<1>14. QED  BY <1>11, <1>12, <1>13 DEF NInv

\* The relay goes down with whatever was being handled.
LEMMA GroupCrashKeeps == ASSUME GroupsNamed, NInv, Grafana!Crash PROVE NInv'
<1>1. hooks' = [g \in PushGroups |-> Grafana!Idle] /\ rows' = rows /\ device' = device /\ Grafana!Fault("crash")
  BY DEF Grafana!Crash
<1>2. TypedGroups  BY DEF NInv
<1>3. /\ posted'.retract = posted.retract /\ posted'.told = posted.told /\ posted'.pushed = posted.pushed
      /\ posted'.hurt = {"crash"} /\ posted.hurt \subseteq {"crash"}
      /\ posted' = [retract |-> posted'.retract, told |-> [x \in PushGroups |-> posted'.told[x]],
                    pushed |-> posted'.pushed, delivered |-> posted'.delivered, hurt |-> posted'.hurt,
                    raced |-> posted'.raced]
  BY <1>1, <1>2, PostedIs
<1>4. /\ \A g \in PushGroups : hooks'[g] = Grafana!Idle
      /\ hooks' = [g \in PushGroups |-> hooks'[g]]
  <2> DEFINE idle == Grafana!Idle
  <2> HIDE DEF idle
  <2>1. hooks' = [g \in PushGroups |-> idle]  BY <1>1 DEF idle
  <2>2. QED  BY <2>1 DEF idle
<1>5. \A g \in PushGroups : posted.told[g] \subseteq GroupAlerts[g]  BY <1>2, HookIs
<1>6. \A g \in PushGroups : HookFits(Grafana!Idle, GroupAlerts[g], posted.told[g], posted.retract)
  BY <1>5, IdleFits
<1>7. ~Busy(Grafana!Idle)  BY IdleFits
<1>8. TypedGroups'
  <2>1. \A x \in PushGroups : HookFits(hooks'[x], GroupAlerts[x], posted'.told[x], posted'.retract)
    BY <1>3, <1>4, <1>6
  <2>2. QED  BY <1>1, <1>2, <1>3, <1>4, <2>1 DEF TypedGroups
<1>9. PushesFit'
  <2>1. PushesFit  BY <1>3 DEF NInv
  <2>2. LastPush' = LastPush  BY <1>1, <1>3 DEF LastPush
  <2>3. \A g \in PushGroups : posted.told[g] \subseteq posted.pushed  BY <2>1 DEF PushesFit, Pushed
  <2>4. \A x \in PushGroups : Pushed(Grafana!Idle, GroupAlerts[x], posted.told[x], posted.pushed, LastPush)
    BY <1>7, <2>3 DEF Pushed
  <2>5. QED  BY <1>3, <1>4, <2>1, <2>2, <2>4 DEF PushesFit
<1>10. posted'.hurt # {}  BY <1>3
<1>11. QED  BY <1>8, <1>9, <1>10 DEF NInv

\* What NInv says of the groups once nothing is at work.
LEMMA GroupsPromise ==
  ASSUME GroupsNamed, NInv PROVE Grafana!FiringWasPushed /\ Grafana!PushMatchesGroups
<1>1. TypedGroups  BY DEF NInv
<1>2. Grafana!FiringWasPushed
  <2> SUFFICES ASSUME Grafana!Quiet, posted.hurt \subseteq {"read", "call", "crash"}
               PROVE  \A g \in PushGroups : posted.told[g] \subseteq posted.pushed
    BY DEF Grafana!FiringWasPushed
  <2>1. PushesFit  BY DEF NInv
  <2>2. QED  BY <2>1 DEF PushesFit, Pushed
<1>3. Grafana!PushMatchesGroups
  <2> SUFFICES ASSUME Grafana!Quiet, posted.hurt = {}, ~posted.raced
               PROVE  /\ ~Grafana!AllResolved => device.note # {}
                      /\ Grafana!AllResolved => device.note \cap Grafana!Fingerprints = {} /\ ~device.repeats
    BY DEF Grafana!PushMatchesGroups
  <2>1. NoteFits  BY DEF NInv
  <2>2. \A g \in PushGroups : ~Busy(hooks[g])  BY <1>1, HookIs DEF Grafana!Quiet, Grafana!Busy
  <2>3. \A g \in PushGroups : Owes(hooks[g], posted.told[g]) <=> posted.told[g] # {}
    BY <2>2 DEF Owes
  <2>4. /\ \A g \in PushGroups : posted.told[g] # {} => device.note # {}
        /\ \A g \in PushGroups : device.note \cap GroupAlerts[g] # {} => posted.told[g] # {}
    BY <2>1, <2>3 DEF NoteFits, Told
  <2>5. device.repeats => \E g \in PushGroups : posted.told[g] # {}
    BY <2>1, <2>2 DEF NoteFits, Live
  <2>6. QED  BY <2>4, <2>5 DEF Grafana!AllResolved, Grafana!Fingerprints
<1>4. QED  BY <1>2, <1>3

\* Every step of the groups' webhooks keeps the invariant.
LEMMA GroupsKeep == ASSUME GroupsNamed, NInv, [Grafana!Next]_(Grafana!vars) PROVE NInv'
<1>1. CASE UNCHANGED Grafana!vars
  <2>1. /\ hooks' = hooks /\ rows' = rows /\ device' = device /\ posted' = posted  BY <1>1 DEF Grafana!vars
  <2>2. LastPush' = LastPush  BY <2>1 DEF LastPush
  <2>3. TypedGroups => TypedGroups'  BY <2>1 DEF TypedGroups
  <2>4. PushesFit => PushesFit'  BY <2>1, <2>2 DEF PushesFit
  <2>5. NoteFits => NoteFits'  BY <2>1, <2>2 DEF NoteFits, Alone
  <2>6. QED  BY <2>1, <2>3, <2>4, <2>5 DEF NInv
<1>2. CASE Grafana!Next
  BY <1>2, ReportKeeps, CancelKeeps, LoadKeeps, StoreKeeps, DecidedKeeps, RetractKeeps, SendKeeps, GroupAnswerKeeps,
     GroupCrashKeeps DEF Grafana!Next
<1>3. QED  BY <1>1, <1>2

\* Whatever the groups of a name report in between, every alert that fires was
\* pushed since it began, and the devices show a push while a group fires and
\* none that says firing, or repeats, once all have resolved.
THEOREM GroupsStay ==
  ASSUME GroupsNamed
  PROVE  Grafana!Init /\ [][Grafana!Next]_(Grafana!vars) => [](Grafana!FiringWasPushed /\ Grafana!PushMatchesGroups)
<1>1. Grafana!Init => NInv  BY GroupsInit
<1>2. NInv /\ [Grafana!Next]_(Grafana!vars) => NInv'  BY GroupsKeep
<1>3. NInv => Grafana!FiringWasPushed /\ Grafana!PushMatchesGroups  BY GroupsPromise
<1>4. QED  BY <1>1, <1>2, <1>3, PTL
==============================================================================
