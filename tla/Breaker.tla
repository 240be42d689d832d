------------------------------ MODULE Breaker ------------------------------
(***************************************************************************)
(* shared/pushward/breaker.go: CircuitBreaker as a value and its methods   *)
(* as operators.  Every method body runs under cb.mu, so one operator is   *)
(* one atomic step of the module that uses it.                             *)
(*                                                                         *)
(* openUntil is abstracted to cooling: "open and now is not after          *)
(* openUntil".  The clock is CooldownOver, an action of the environment.   *)
(***************************************************************************)
EXTENDS Naturals

BreakerStates == {"closed", "open", "halfOpen"}

Breakers(threshold) ==
  [state : BreakerStates, failures : 0..threshold, cooling : BOOLEAN]

NewCircuitBreaker == [state |-> "closed", failures |-> 0, cooling |-> FALSE]

(* now().After(openUntil) becomes true. *)
CooldownOver(cb) == [cb EXCEPT !.cooling = FALSE]

\* Open with a fresh cooldown.
Trip(failures) == [state |-> "open", failures |-> failures, cooling |-> TRUE]

(* What Allow returns ... *)
Allows(cb) == cb.state = "closed" \/ (cb.state = "open" /\ ~cb.cooling)

(* ... and what it leaves: the caller that finds the cooldown over is the probe. *)
AfterAllow(cb) ==
  IF cb.state = "open" /\ ~cb.cooling THEN [cb EXCEPT !.state = "halfOpen"] ELSE cb

(* Closed with no failure counted.  openUntil stays, but nothing reads it   *)
(* before the next Trip sets it, so cooling is reset with the rest.        *)
RecordSuccess(cb) == NewCircuitBreaker

\* Mutant of RecordReachable: any answer ends the streak.
RecordReachableResets(cb) == RecordSuccess(cb)

RecordReachable(cb) ==
  IF cb.state = "halfOpen" THEN NewCircuitBreaker ELSE cb

\* Mutants of RecordFailure: a late failure restarts the cooldown; one failure
\* too many is needed.
RecordFailureExtends(cb, threshold) == Trip(threshold)
RecordFailureLate(cb, threshold) ==
  IF cb.state = "closed" /\ cb.failures <= threshold
  THEN [cb EXCEPT !.failures = @ + 1]
  ELSE Trip(cb.failures)

RecordFailure(cb, threshold) ==
  CASE cb.state = "closed" /\ cb.failures + 1 < threshold ->
         [cb EXCEPT !.failures = @ + 1]
    [] cb.state = "closed" /\ cb.failures + 1 >= threshold -> Trip(cb.failures + 1)
    [] cb.state = "halfOpen" -> Trip(cb.failures)
    [] cb.state = "open" -> cb

\* Mutant of Abort: the probe is dropped and nobody is told.
AbortForgotten(cb) == cb

(* A probe that never reached the backend re-arms the breaker. *)
Abort(cb) == IF cb.state = "halfOpen" THEN Trip(cb.failures) ELSE cb

IsOpen(cb) == cb.state # "closed"

(* Whether Allow would refuse a call right now. *)
Blocking(cb) == cb.state = "halfOpen" \/ (cb.state = "open" /\ cb.cooling)

(* A closed breaker has counted fewer failures than its threshold.         *)
Sound(b, threshold) ==
  b \in Breakers(threshold) /\ (b.state = "closed" => b.failures < threshold)
============================================================================
