---------------------------- MODULE RetryClient ----------------------------
(***************************************************************************)
(* shared/pushward/client.go: doWithRetryInto, the retry loop every call   *)
(* to the PushWard server goes through, with the CircuitBreaker that the   *)
(* calls of one Client share.  A call is a slot: it returns to "idle" and  *)
(* may be made again.  Time is counted in ticks; a second is SecondTicks.  *)
(* Response bodies, headers, logging and onResult are left out.            *)
(***************************************************************************)
EXTENDS Integers, Breaker

CONSTANTS Calls,          \* concurrent calls on one Client
          Threshold,      \* NewCircuitBreaker's threshold
          MaxAttempts,    \* 5 in the code
          RetryBudget,    \* WithRetryBudget; 0 is unlimited
          MaxRetryAfter,  \* 2 minutes in the code
          SecondTicks,    \* ticks of a second, the unit of Retry-After
          Hints,          \* counts a server may send as Retry-After
                          \* (0: none), besides a negative one
          RequestTimes,   \* how long one request may take
          MaxInt          \* the largest int64

ASSUME ThresholdAssumption == Threshold \in Nat \ {0}
ASSUME AttemptsAssumption == MaxAttempts \in Nat \ {0}
ASSUME TimesAssumption ==
  /\ RetryBudget \in Nat
  /\ MaxRetryAfter \in Nat \ {0}
  /\ SecondTicks \in Nat \ {0}
  /\ RequestTimes \subseteq Nat
  /\ Hints \subseteq Int
\* The longest backoff, 8 s in the code, is within what a server may ask for.
ASSUME BackoffAssumption ==
  \A n \in 1..MaxAttempts - 1 : SecondTicks * 2 ^ (n - 1) \in 0..MaxRetryAfter

VARIABLES cb,         \* the breaker
          pc,         \* where each call is
          attempt,    \* the loop variable
          throttled,  \* lastThrottled
          override,   \* retryAfterOverride
          elapsed,    \* time.Since(start), saturated at RetryBudget + 1
          parked,     \* time spent in retry sleeps
          cancelled   \* ctx.Done() is closed

vars == <<cb, pc, attempt, throttled, override, elapsed, parked, cancelled>>
loopVars == <<attempt, throttled, override, elapsed, parked>>

PCs == {"idle", "admitted", "loop", "sleeping", "sending"}

Active(c) == pc[c] # "idle"

\* Mutant of boundedDelay: the product wraps before it is bounded.
WrappedDelay(n, unit) ==
  LET product == ((n * unit + MaxInt + 1) % (2 * MaxInt + 2)) - MaxInt - 1
  IN  IF n <= 0 THEN 0 ELSE IF product > MaxRetryAfter THEN MaxRetryAfter ELSE product

(* A server's count of unit as a delay.  The bound comes before the        *)
(* product, which int64 need not hold.                                     *)
boundedDelay(n, unit) ==
  IF n <= 0 THEN 0
  ELSE IF n > MaxRetryAfter \div unit THEN MaxRetryAfter
  ELSE n * unit

(* The header first, seconds or a date (a count of ticks from now), else   *)
(* the body's retry_after_ms.                                              *)
throttleDelay(header, unit, bodyTicks) ==
  LET d == boundedDelay(header, unit)
  IN  IF d = 0 THEN boundedDelay(bodyTicks, 1) ELSE d

(* Equal jitter: from half of second << (attempt - 1) up to just below it. *)
Backoffs(n) ==
  LET base == SecondTicks * 2 ^ (n - 1) IN (base \div 2) .. (base - 1)

BackoffsOf(c) ==
  IF override[c] # 0 THEN {override[c]} ELSE Backoffs(attempt[c])

OverBudget(c, b) == RetryBudget > 0 /\ elapsed[c] + b > RetryBudget

Later(c, t) ==
  IF elapsed[c] + t > RetryBudget THEN RetryBudget + 1 ELSE elapsed[c] + t

Init ==
  /\ cb = NewCircuitBreaker
  /\ pc = [c \in Calls |-> "idle"]
  /\ attempt = [c \in Calls |-> 0]
  /\ throttled = [c \in Calls |-> FALSE]
  /\ override = [c \in Calls |-> 0]
  /\ elapsed = [c \in Calls |-> 0]
  /\ parked = [c \in Calls |-> 0]
  /\ cancelled = [c \in Calls |-> FALSE]

(* The call returns, having told the breaker how it went. *)
Return(c, cbAfter) ==
  /\ cb' = cbAfter
  /\ pc' = [pc EXCEPT ![c] = "idle"]
  /\ attempt' = [attempt EXCEPT ![c] = 0]
  /\ throttled' = [throttled EXCEPT ![c] = FALSE]
  /\ override' = [override EXCEPT ![c] = 0]
  /\ elapsed' = [elapsed EXCEPT ![c] = 0]
  /\ parked' = [parked EXCEPT ![c] = 0]
  /\ cancelled' = [cancelled EXCEPT ![c] = FALSE]

(* Allow refuses: ErrCircuitOpen, no request. *)
Refused(c) ==
  /\ pc[c] = "idle" /\ ~Allows(cb)
  /\ UNCHANGED vars

Admitted(c) ==
  /\ pc[c] = "idle" /\ Allows(cb)
  /\ cb' = AfterAllow(cb)
  /\ pc' = [pc EXCEPT ![c] = "admitted"]
  /\ UNCHANGED <<loopVars, cancelled>>

(* json.Marshal of the body fails: the request never reaches the backend. *)
MarshalFails(c) ==
  /\ pc[c] = "admitted"
  /\ Return(c, Abort(cb))

Marshalled(c) ==
  /\ pc[c] = "admitted"
  /\ pc' = [pc EXCEPT ![c] = "loop"]
  /\ UNCHANGED <<cb, loopVars, cancelled>>

FirstAttempt(c) ==
  /\ pc[c] = "loop" /\ attempt[c] = 0
  /\ pc' = [pc EXCEPT ![c] = "sending"]
  /\ UNCHANGED <<cb, loopVars, cancelled>>

Park(c, b) ==
  /\ pc' = [pc EXCEPT ![c] = "sleeping"]
  /\ override' = [override EXCEPT ![c] = 0]
  /\ elapsed' = [elapsed EXCEPT ![c] = Later(c, b)]
  /\ parked' = [parked EXCEPT ![c] = @ + b]
  /\ UNCHANGED <<cb, attempt, throttled, cancelled>>

\* Mutant of Sleep: the budget is checked against the time already spent only.
SleepIfTimeLeft(c) ==
  /\ pc[c] = "loop" /\ attempt[c] \in 1 .. MaxAttempts - 1
  /\ \E b \in BackoffsOf(c) : ~OverBudget(c, 0) /\ Park(c, b)

(* Back off before the next attempt.  The sleep is charged when it starts. *)
Sleep(c) ==
  /\ pc[c] = "loop" /\ attempt[c] \in 1 .. MaxAttempts - 1
  /\ \E b \in BackoffsOf(c) : ~OverBudget(c, b) /\ Park(c, b)

\* Mutant of ExhaustedSignal.
FaultWhateverTheAnswer(c) == RecordFailure(cb, Threshold)

(* Sustained 429 is reachable; 5xx and network errors are a fault. *)
ExhaustedSignal(c) ==
  IF throttled[c] THEN RecordReachable(cb) ELSE RecordFailure(cb, Threshold)

(* The attempts or the retry budget are used up. *)
Exhausted(c) ==
  /\ pc[c] = "loop"
  /\ \/ attempt[c] = MaxAttempts
     \/ attempt[c] \in 1 .. MaxAttempts - 1 /\ \E b \in BackoffsOf(c) : OverBudget(c, b)
  /\ Return(c, ExhaustedSignal(c))

WakeUp(c) ==
  /\ pc[c] = "sleeping"
  /\ pc' = [pc EXCEPT ![c] = "sending"]
  /\ UNCHANGED <<cb, loopVars, cancelled>>

CancelledAsleep(c) ==
  /\ pc[c] = "sleeping" /\ cancelled[c]
  /\ Return(c, Abort(cb))

(* http.NewRequestWithContext fails. *)
RequestNotBuilt(c) ==
  /\ pc[c] = "sending"
  /\ Return(c, Abort(cb))

\* Mutant of Retry: a throttled attempt is repeated at once and not counted.
RetryUncounted(c, isThrottle, hint) ==
  /\ pc' = [pc EXCEPT ![c] = IF isThrottle THEN "sending" ELSE "loop"]
  /\ throttled' = [throttled EXCEPT ![c] = isThrottle]
  /\ override' = [override EXCEPT ![c] = hint]
  /\ \E t \in RequestTimes : elapsed' = [elapsed EXCEPT ![c] = Later(c, t)]
  /\ attempt' = [attempt EXCEPT ![c] = IF isThrottle THEN @ ELSE @ + 1]
  /\ UNCHANGED <<cb, parked, cancelled>>

(* continue: the loop goes on with the next attempt. *)
Retry(c, isThrottle, hint) ==
  /\ pc' = [pc EXCEPT ![c] = "loop"]
  /\ throttled' = [throttled EXCEPT ![c] = isThrottle]
  /\ override' = [override EXCEPT ![c] = hint]
  /\ \E t \in RequestTimes : elapsed' = [elapsed EXCEPT ![c] = Later(c, t)]
  /\ attempt' = [attempt EXCEPT ![c] = @ + 1]
  /\ UNCHANGED <<cb, parked, cancelled>>

(* A transport error, a 5xx, any other status that is neither 2xx nor 4xx, *)
(* or a 409 its handler leaves to the loop.  With ctx done this is all Do  *)
(* returns.                                                                *)
Failed(c) ==
  /\ pc[c] = "sending"
  /\ Retry(c, FALSE, 0)

(* 429, other than the two codes that fail fast. *)
Throttled(c) ==
  /\ pc[c] = "sending" /\ ~cancelled[c]
  /\ \E header, body \in Hints \union {-1}, unit \in {SecondTicks, 1} :
       Retry(c, TRUE, throttleDelay(header, unit, body))

(* A 4xx, a 409 its handler settles, quota.exceeded or answer_wait.limit. *)
Rejected(c) ==
  /\ pc[c] = "sending" /\ ~cancelled[c]
  /\ Return(c, RecordReachable(cb))

(* 2xx, even when its body does not decode. *)
Succeeded(c) ==
  /\ pc[c] = "sending" /\ ~cancelled[c]
  /\ Return(c, RecordSuccess(cb))

(* The caller's context ends. *)
Cancel(c) ==
  /\ Active(c) /\ ~cancelled[c]
  /\ cancelled' = [cancelled EXCEPT ![c] = TRUE]
  /\ UNCHANGED <<cb, pc, loopVars>>

CooldownEnds ==
  /\ cb.cooling
  /\ cb' = CooldownOver(cb)
  /\ UNCHANGED <<pc, loopVars, cancelled>>

Answered(c) ==
  Failed(c) \/ Throttled(c) \/ Rejected(c) \/ Succeeded(c) \/ RequestNotBuilt(c)

Advance(c) ==
  \/ MarshalFails(c) \/ Marshalled(c) \/ FirstAttempt(c)
  \/ Sleep(c) \/ Exhausted(c) \/ WakeUp(c) \/ CancelledAsleep(c)
  \/ Answered(c)

Next ==
  \/ \E c \in Calls : Refused(c) \/ Admitted(c) \/ Advance(c) \/ Cancel(c)
  \/ CooldownEnds

(* The HTTP client's timeout and the timers make every started call move   *)
(* on; nothing makes a caller call or cancel.                              *)
Fairness == \A c \in Calls : WF_vars(Advance(c))

Spec == Init /\ [][Next]_vars /\ Fairness

---------------------------------------------------------------------------
\* Type correctness of every variable of the module.
TypeOK ==
  /\ cb \in Breakers(Threshold)
  /\ pc \in [Calls -> PCs]
  /\ attempt \in [Calls -> 0..MaxAttempts]
  /\ throttled \in [Calls -> BOOLEAN]
  /\ override \in [Calls -> 0..MaxRetryAfter]
  /\ elapsed \in [Calls -> Int]
  /\ parked \in [Calls -> Int]
  /\ cancelled \in [Calls -> BOOLEAN]

(* A half-open breaker refuses everyone, so some call must still owe it a  *)
(* report: breaker.go Abort's comment, "wedged in half-open forever".      *)
HalfOpenHasProbe ==
  cb.state = "halfOpen" => \E c \in Calls : Active(c)

(* Whatever Retry-After says, the sleeps of one call sum to at most the    *)
(* retry budget, or to one clamped wait per retry without a budget.        *)
ParkBounded ==
  \A c \in Calls :
    parked[c] \in 0 .. IF RetryBudget > 0 THEN RetryBudget
                       ELSE (MaxAttempts - 1) * MaxRetryAfter

(* Throttling, however long, is no fault: the breaker opens only when a    *)
(* call gives up whose last answer was a 5xx or a network error.           *)
OnlyFaultsTrip ==
  [][cb.state = "closed" /\ cb'.state = "open" =>
       \E c \in Calls : pc[c] = "loop" /\ ~throttled[c] /\ pc'[c] = "idle"]_vars

(* Only a 2xx ends a streak of faults that is climbing toward Threshold: a *)
(* 4xx, a 429 or an aborted call of another caller must leave it standing. *)
StreakEndsOnSuccessOnly ==
  [][cb.state = "closed" /\ cb'.failures < cb.failures =>
       \E c \in Calls : Succeeded(c)]_vars

(* Late results of calls admitted before the breaker opened cannot put off *)
(* the probe: once the cooldown is over, it starts again only through one. *)
ProbeNotPostponed ==
  [][cb.state = "open" /\ ~cb.cooling => ~(cb'.state = "open" /\ cb'.cooling)]_vars

(* What reports may do to the shared breaker, whatever their order.         *)
BreakerMoves == OnlyFaultsTrip /\ StreakEndsOnSuccessOnly /\ ProbeNotPostponed

\* Every call that was admitted returns to its caller and slept within bounds.
CallsReturn == []ParkBounded /\ \A c \in Calls : Active(c) ~> ~Active(c)
============================================================================
