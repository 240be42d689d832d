--------------------------- MODULE GrafanaBridge ----------------------------
(* The Grafana bridge (grafana/internal/handler, grafana/internal/poller):  *)
(* the card of one alert name, kept by webhook goroutines that answer first *)
(* and work after, a checker that asks Grafana about missed resolves, a     *)
(* sweeper, and a polling goroutine that feeds the card.                    *)
EXTENDS Naturals

CONSTANTS
  Handlers,     \* webhook goroutines at once
  Instances,    \* fingerprints of the alert
  MaxWebhooks,  \* bound on what happens to the alert
  MaxFaults     \* bound on calls that fail

VARIABLES
  firing,    \* instances that fire, as Grafana knows them
  active,    \* the entry of the name: its fingerprints and lastSeen
  handlers,  \* each goroutine: where it is, its instance, whether it is new
  checker,   \* the checker: where it is, the lastSeen it read
  polls,     \* whether a goroutine polls for the card
  card,      \* the activity on the server
  past       \* webhooks, faults, lost webhooks, overlapping handlers

vars == <<firing, active, handlers, checker, polls, card, past>>

NoEntry == [there |-> FALSE, fps |-> {}, seen |-> 0]
Done == [at |-> "done", fp |-> "none", new |-> FALSE]

Init ==
  /\ firing = {}
  /\ active = NoEntry
  /\ handlers = [h \in Handlers |-> Done]
  /\ checker = [at |-> "idle", seen |-> 0]
  /\ polls = FALSE
  /\ card = "none"
  /\ past = [webhooks |-> 0, faults |-> 0, lost |-> FALSE, overlapped |-> FALSE]

Failing == {h \in Handlers : handlers[h].at \in {"create", "update", "start"}}
TearingDown ==
  checker.at \in {"stop", "end"} \/ \E h \in Handlers : handlers[h].at \in {"stop", "end"}

Counted(failed) ==
  /\ failed => past.faults < MaxFaults
  /\ past' = [past EXCEPT !.faults = IF failed THEN @ + 1 ELSE @]

Goto(h, at) == handlers' = [handlers EXCEPT ![h].at = at]
Return(h) == handlers' = [handlers EXCEPT ![h] = Done]

\* Grafana fires, repeats or resolves an instance; a webhook may get lost.
Webhook(h, fp, fires) == \E lost \in BOOLEAN :
  /\ past.webhooks < MaxWebhooks
  /\ handlers[h].at = "done"
  /\ fires \/ fp \in firing
  /\ firing' = IF fires THEN firing \union {fp} ELSE firing \ {fp}
  /\ past' = [past EXCEPT !.webhooks = @ + 1, !.lost = @ \/ lost,
                          !.overlapped = @ \/ fp \in {handlers[g].fp : g \in Handlers}]
  /\ handlers' = IF lost THEN handlers
                 ELSE [handlers EXCEPT ![h] =
                         [at |-> IF fires THEN "reserve" ELSE "release", fp |-> fp, new |-> FALSE]]
  /\ UNCHANGED <<active, checker, polls, card>>

(* ---------------------------- handleFiring ------------------------------ *)

\* Check and mark under the lock. Every firing refreshes lastSeen.
Reserve(h) ==
  /\ handlers[h].at = "reserve"
  /\ active' = [there |-> TRUE, fps |-> active.fps \union {handlers[h].fp},
                seen |-> past.webhooks]
  /\ handlers' = [handlers EXCEPT ![h].at = IF active.there THEN "update" ELSE "create",
                                  ![h].new = ~active.there]
  /\ past' = [past EXCEPT !.overlapped = @ \/ TearingDown]
  /\ UNCHANGED <<firing, checker, polls, card>>

CreateActivity(h) == \E failed \in BOOLEAN :
  /\ handlers[h].at = "create"
  /\ Counted(failed)
  /\ IF failed THEN active' = NoEntry /\ Return(h) /\ UNCHANGED card
     ELSE /\ card' = IF card = "ongoing" THEN card ELSE "created"
          /\ Goto(h, "update")
          /\ UNCHANGED active
  /\ UNCHANGED <<firing, checker, polls>>

\* With no values yet a new alert is left to the poller, which seeds the card.
Update(h) ==
  /\ handlers[h].at = "update"
  /\ \/ /\ UNCHANGED <<card, past>>
        /\ IF handlers[h].new THEN Goto(h, "start") ELSE Return(h)
     \/ \E failed \in BOOLEAN :
          /\ Counted(failed)
          /\ card' = IF failed THEN card ELSE "ongoing"
          /\ IF handlers[h].new /\ ~failed THEN Goto(h, "start") ELSE Return(h)
  /\ UNCHANGED <<firing, active, checker, polls>>

StartPoller(h) ==
  /\ handlers[h].at = "start"
  /\ polls' = TRUE
  /\ Return(h)
  /\ UNCHANGED <<firing, active, checker, card, past>>

(* --------------------------- handleResolved ----------------------------- *)

Dropped == active' = NoEntry /\ past' = [past EXCEPT !.overlapped = @ \/ Failing # {}]

\* Mutant of Release: the first instance to resolve ends the card.
ReleaseAtOnce(h) ==
  /\ handlers[h].at = "release"
  /\ IF active.there THEN Dropped /\ Goto(h, "stop")
     ELSE Return(h) /\ UNCHANGED <<active, past>>
  /\ UNCHANGED <<firing, checker, polls, card>>

\* The card ends with the last of the name's instances.
Release(h) ==
  LET left == active.fps \ {handlers[h].fp} IN
  /\ handlers[h].at = "release"
  /\ IF active.there /\ left = {} THEN Dropped /\ Goto(h, "stop")
     ELSE active' = [active EXCEPT !.fps = left] /\ Return(h) /\ UNCHANGED past
  /\ UNCHANGED <<firing, checker, polls, card>>

StopPoller(h) ==
  /\ handlers[h].at = "stop"
  /\ polls' = FALSE
  /\ Goto(h, "end")
  /\ UNCHANGED <<firing, active, checker, card, past>>

EndActivity(h) == \E failed \in BOOLEAN :
  /\ handlers[h].at = "end"
  /\ Counted(failed)
  /\ card' = IF failed THEN card ELSE "ended"
  /\ Return(h)
  /\ UNCHANGED <<firing, active, checker, polls>>

(* ------------------- the checker, sweeper and poller -------------------- *)

CheckStates ==
  /\ checker.at = "idle" /\ active.there
  /\ checker' = [at |-> "ask", seen |-> active.seen]
  /\ UNCHANGED <<firing, active, handlers, polls, card, past>>

IsAlertFiring ==
  /\ checker.at = "ask"
  /\ \/ Counted(TRUE) /\ checker' = [checker EXCEPT !.at = "idle"]
     \/ /\ checker' = [checker EXCEPT !.at = IF firing = {} THEN "confirm" ELSE "idle"]
        /\ UNCHANGED past
  /\ UNCHANGED <<firing, active, handlers, polls, card>>

\* Mutant of Unrefreshed: an entry that is there is the one that was read.
StillThere == active.there

\* An entry that was refreshed since it was read is spared.
Unrefreshed == active.there /\ active.seen = checker.seen

Confirm ==
  /\ checker.at = "confirm"
  /\ IF Unrefreshed
     THEN Dropped /\ checker' = [checker EXCEPT !.at = "stop"]
     ELSE checker' = [checker EXCEPT !.at = "idle"] /\ UNCHANGED <<active, past>>
  /\ UNCHANGED <<firing, handlers, polls, card>>

CheckerStops ==
  /\ checker.at = "stop"
  /\ polls' = FALSE
  /\ checker' = [checker EXCEPT !.at = "end"]
  /\ UNCHANGED <<firing, active, handlers, card, past>>

CheckerEnds == \E failed \in BOOLEAN :
  /\ checker.at = "end"
  /\ Counted(failed)
  /\ card' = IF failed THEN card ELSE "ended"
  /\ checker' = [checker EXCEPT !.at = "idle"]
  /\ UNCHANGED <<firing, active, handlers, polls>>

\* The stale timeout has passed since the last webhook of the name: the
\* server's own clock ends the card.
SweepStale ==
  /\ active.there /\ \A h \in Handlers : handlers[h].at = "done"
  /\ polls' = FALSE
  /\ active' = NoEntry
  /\ card' = IF card = "none" THEN card ELSE "ended"
  /\ past' = [past EXCEPT !.lost = TRUE]
  /\ UNCHANGED <<firing, handlers, checker>>

\* Every tick sends the card an ongoing state: a seed, later only values.
PollTick ==
  /\ polls
  /\ card' = "ongoing"
  /\ UNCHANGED <<firing, active, handlers, checker, polls, past>>

Next ==
  \/ \E h \in Handlers, fp \in Instances, fires \in BOOLEAN : Webhook(h, fp, fires)
  \/ \E h \in Handlers :
       \/ Reserve(h) \/ CreateActivity(h) \/ Update(h) \/ StartPoller(h)
       \/ Release(h) \/ StopPoller(h) \/ EndActivity(h)
  \/ CheckStates \/ IsAlertFiring \/ Confirm \/ CheckerStops \/ CheckerEnds
  \/ SweepStale \/ PollTick

Spec == Init /\ [][Next]_vars

(* ------------------------------ properties ------------------------------ *)

Quiet == checker.at \in {"idle", "ask", "confirm"} /\ \A h \in Handlers : handlers[h].at = "done"

(* While no call fails, no webhook is lost and no teardown overlaps a       *)
(* firing, the card follows the instances: any that fires keeps an entry,   *)
(* a poller and a card that has not ended, whatever the checker concluded   *)
(* before a re-firing (handleFiring, checkAlertStates), and with the last   *)
(* one resolved the poller is stopped and the card is not left up.          *)
CardFollowsAlert ==
  Quiet /\ past.faults = 0 /\ ~past.lost /\ ~past.overlapped =>
    /\ firing = active.fps
    /\ polls <=> firing # {}
    /\ (card \in {"created", "ongoing"}) <=> firing # {}

(* A resolve nobody heard of is repaired: after the checker's verdict no    *)
(* poller is left that no entry, and so nobody, could ever stop.            *)
PollerHasEntry ==
  Quiet /\ past.faults = 0 /\ ~past.overlapped => (polls => active.there)
=============================================================================
