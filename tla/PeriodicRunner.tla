---------------------------- MODULE PeriodicRunner ----------------------------
(* shared/syncx/periodic.go: a function run at an interval by a goroutine   *)
(* of its own, until a Stop or the context ends it. Stops may overlap, and  *)
(* one may come before the start.                                           *)
EXTENDS FiniteSets

CONSTANT Stops  \* goroutines that call Stop

VARIABLES
  periodic, \* started; whether its context is cancelled
  loop,     \* the goroutine
  once,     \* who is in stopOnce, or that it is over
  stops,    \* where each Stop is
  early     \* a Stop came before the start

vars == <<periodic, loop, once, stops, early>>

NoStop == "free"
Init ==
  /\ periodic = [started |-> FALSE, cancelled |-> FALSE]
  /\ loop = "none"
  /\ once = NoStop
  /\ stops = [s \in Stops |-> "none"]
  /\ early = FALSE

Start ==
  /\ ~periodic.started
  /\ periodic' = [periodic EXCEPT !.started = TRUE]
  /\ loop' = "waiting"
  /\ UNCHANGED <<once, stops, early>>

\* The caller's context ends.
Cancel ==
  /\ periodic.started
  /\ periodic' = [periodic EXCEPT !.cancelled = TRUE]
  /\ UNCHANGED <<loop, once, stops, early>>

\* The select takes either when both are ready.
Run == loop = "waiting" /\ loop' = "running" /\ UNCHANGED <<periodic, once, stops, early>>
Ran == loop = "running" /\ loop' = "waiting" /\ UNCHANGED <<periodic, once, stops, early>>
LoopEnds ==
  /\ loop = "waiting" /\ periodic.cancelled
  /\ loop' = "over"
  /\ UNCHANGED <<periodic, once, stops, early>>

\* The first in cancels, or finds nothing to cancel.
Enter(s) ==
  /\ stops[s] = "none" /\ once = NoStop
  /\ once' = s
  /\ stops' = [stops EXCEPT ![s] = IF periodic.started THEN "waiting" ELSE "leaving"]
  /\ periodic' = [periodic EXCEPT !.cancelled = @ \/ periodic.started]
  /\ early' = ~periodic.started
  /\ UNCHANGED loop

\* Mutant of Stop: it does not wait for what is under way.
StopAtOnce(s) ==
  /\ stops[s] \in {"waiting", "leaving"}
  /\ once' = "over" /\ stops' = [stops EXCEPT ![s] = "returned"]
  /\ UNCHANGED <<periodic, loop, early>>

\* It returns once the goroutine is over.
Stop(s) ==
  /\ stops[s] = "leaving" \/ (stops[s] = "waiting" /\ loop = "over")
  /\ once' = "over" /\ stops' = [stops EXCEPT ![s] = "returned"]
  /\ UNCHANGED <<periodic, loop, early>>

\* The others wait for the first.
LateStop(s) ==
  /\ stops[s] = "none" /\ once = "over"
  /\ stops' = [stops EXCEPT ![s] = "returned"]
  /\ UNCHANGED <<periodic, loop, once, early>>

Next == Start \/ Cancel \/ Run \/ Ran \/ LoopEnds \/ \E s \in Stops : Enter(s) \/ Stop(s) \/ LateStop(s)

(* ------------------------------ properties ------------------------------ *)

(* When any Stop returns, overlapping ones too, the function is not running *)
(* and never will be - unless a Stop before the start has used up the once. *)
StoppedIsQuiet == (\E s \in Stops : stops[s] = "returned") /\ ~early => loop = "over"
=============================================================================
