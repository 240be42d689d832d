----------------------------- MODULE TimerGroup -----------------------------
(***************************************************************************)
(* shared/syncx/timergroup.go: one active timer and a wait group over its  *)
(* AfterFunc callbacks.  The timers a Reset creates are numbered; g.mu is  *)
(* held through Reset, which is taken apart because the wait group and the *)
(* firing of timers are outside g.mu.  Stop and Close are one step each:   *)
(* their two effects cannot be told apart by a callback or a Wait.         *)
(***************************************************************************)
EXTENDS Integers, FiniteSets

CONSTANT MaxTimers   \* bound: how many timers are ever created
ASSUME MaxTimersAssumption == MaxTimers \in Nat

VARIABLES timer,     \* g.timer; 0 is nil
          callback,  \* what became of each timer's callback
          created,   \* how many timers there are
          wg,        \* g.wg's counter
          stopped,   \* g.stopped
          mu,        \* how far the Reset that holds g.mu has come
          caller,    \* the callback that Reset was called from; 0: another goroutine
          shutdown   \* Close, then Wait, by the shutting-down goroutine

vars == <<timer, callback, created, wg, stopped, mu, caller, shutdown>>

Timers == 1..MaxTimers

Live == {t \in Timers : callback[t] \in {"armed", "running"}}

Running == {t \in Timers : callback[t] = "running"}

Init ==
  /\ timer = 0 /\ created = 0
  /\ callback = [t \in Timers |-> "unused"]
  /\ wg = 0 /\ stopped = FALSE
  /\ mu = "free" /\ caller = 0
  /\ shutdown = "open"

\* Mutant of ResetBegin: a closed group is re-armed.
ResetBeginAnyway(by) ==
  /\ mu = "free" /\ created < MaxTimers
  /\ by \in {0} \union Running
  /\ mu' = "added" /\ caller' = by /\ wg' = wg + 1
  /\ UNCHANGED <<timer, callback, created, stopped, shutdown>>

\* Mutant of ResetBegin: Reset stops the prior timer before it adds.
ResetBeginUnadded(by) ==
  /\ mu = "free" /\ ~stopped /\ created < MaxTimers
  /\ by \in {0} \union Running
  /\ mu' = "added" /\ caller' = by
  /\ UNCHANGED <<timer, callback, created, wg, stopped, shutdown>>

(* Reset, by any goroutine or from within a running callback: Add before   *)
(* anything else.  A Reset of a closed group returns at once.              *)
ResetBegin(by) ==
  /\ mu = "free" /\ ~stopped /\ created < MaxTimers
  /\ by \in {0} \union Running
  /\ mu' = "added" /\ caller' = by /\ wg' = wg + 1
  /\ UNCHANGED <<timer, callback, created, stopped, shutdown>>

Stoppable == timer # 0 /\ callback[timer] = "armed"

\* Mutant of Cancelled: the stopped callback's Add is not balanced.
CancelledUnbalanced ==
  /\ callback' = IF Stoppable THEN [callback EXCEPT ![timer] = "cancelled"] ELSE callback
  /\ wg' = wg

(* timer.Stop() && wg.Done(). *)
Cancelled ==
  IF Stoppable
  THEN callback' = [callback EXCEPT ![timer] = "cancelled"] /\ wg' = wg - 1
  ELSE UNCHANGED <<callback, wg>>

ResetStop ==
  /\ mu = "added"
  /\ Cancelled
  /\ mu' = "stopped"
  /\ UNCHANGED <<timer, created, stopped, caller, shutdown>>

\* Mutant of ResetArm: the new timer is not the group's.
ResetArmDetached ==
  /\ mu = "stopped"
  /\ timer' = created + 1 /\ created' = created
  /\ callback' = [callback EXCEPT ![created + 1] = "armed"]
  /\ mu' = "free" /\ caller' = 0
  /\ UNCHANGED <<wg, stopped, shutdown>>

ResetArm ==
  /\ mu = "stopped"
  /\ created' = created + 1 /\ timer' = created'
  /\ callback' = [callback EXCEPT ![created'] = "armed"]
  /\ mu' = "free" /\ caller' = 0
  /\ UNCHANGED <<wg, stopped, shutdown>>

Stop ==
  /\ mu = "free"
  /\ Cancelled
  /\ timer' = 0
  /\ UNCHANGED <<created, stopped, mu, caller, shutdown>>

Close ==
  /\ mu = "free" /\ shutdown = "open"
  /\ Cancelled
  /\ timer' = 0 /\ stopped' = TRUE /\ shutdown' = "closed"
  /\ UNCHANGED <<created, mu, caller>>

(* The timer fires: its goroutine starts, whoever holds g.mu. *)
Fire(t) ==
  /\ callback[t] = "armed"
  /\ callback' = [callback EXCEPT ![t] = "running"]
  /\ UNCHANGED <<timer, created, wg, stopped, mu, caller, shutdown>>

(* The callback returns; it is not inside Reset. *)
Return(t) ==
  /\ callback[t] = "running" /\ caller # t
  /\ callback' = [callback EXCEPT ![t] = "returned"]
  /\ wg' = wg - 1
  /\ UNCHANGED <<timer, created, stopped, mu, caller, shutdown>>

Wait ==
  /\ shutdown = "closed" /\ wg = 0
  /\ shutdown' = "waited"
  /\ UNCHANGED <<timer, callback, created, wg, stopped, mu, caller>>

(* Nothing is left to do once the group is closed and waited for. *)
Finished == shutdown = "waited" /\ UNCHANGED vars

Next ==
  \/ \E by \in Timers \union {0} : ResetBegin(by)
  \/ ResetStop \/ ResetArm \/ Stop \/ Close \/ Wait \/ Finished
  \/ \E t \in Timers : Fire(t) \/ Return(t)

Fairness ==
  /\ WF_vars(ResetStop) /\ WF_vars(ResetArm) /\ WF_vars(Wait)
  /\ \A t \in Timers : WF_vars(Fire(t)) /\ WF_vars(Return(t))

Spec == Init /\ [][Next]_vars /\ Fairness

---------------------------------------------------------------------------
\* Type correctness of every variable of the module.
TypeOK ==
  /\ timer \in 0..created /\ created \in 0..MaxTimers /\ caller \in 0..created
  /\ callback \in [Timers -> {"unused", "armed", "running", "returned", "cancelled"}]
  /\ wg \in Int /\ stopped \in BOOLEAN
  /\ mu \in {"free", "added", "stopped"}
  /\ shutdown \in {"open", "closed", "waited"}

(* A Wait that returns has waited for everyone: with the counter at zero   *)
(* no callback is scheduled or running and no Reset is about to schedule   *)
(* one (Reset's Add comes before it stops the prior timer).                *)
ZeroMeansQuiet == wg = 0 => Live = {} /\ mu = "free"

(* The counter is the number of scheduled and running callbacks, and one   *)
(* for the Reset that has added but not armed yet: never an unbalanced     *)
(* Done, never a negative counter (a panic in Go).                         *)
WgCounts == wg = Cardinality(Live) + IF mu = "free" THEN 0 ELSE 1

(* Only the timer the group still knows may be waiting to fire, so Stop    *)
(* and Close can always reach it.                                          *)
ArmedIsKnown == \A t \in Timers : callback[t] = "armed" => t = timer

(* After Close and Wait no callback runs and none is ever scheduled, even  *)
(* by a callback that reschedules itself: the code's two-phase ends.       *)
QuietAfterShutdown == shutdown = "waited" => Live = {} /\ mu = "free"

\* Wait returns once the group is closed: the callbacks under way finish.
WaitReturns == shutdown = "closed" ~> shutdown = "waited"

============================================================================
