---------------------------- MODULE GrafanaGroups ----------------------------
(***************************************************************************)
(* One alert name of the relay's Grafana provider (internal/grafana).  A   *)
(* notification policy may split a name into groups, whose pushes go out   *)
(* under one collapse id and replace each other on the device, and whose   *)
(* webhooks are handled at the same time; Grafana posts one webhook of a   *)
(* group at a time and repeats one that was refused.  Without ?retract=1   *)
(* the name's last push is the row "plain"; with it the last push is in    *)
(* "last", and each group has a row of what it reported firing.            *)
(***************************************************************************)
EXTENDS Naturals, Sequences

CONSTANTS
  Groups,
  Alerts,       \* the fingerprints of each group: [Groups -> SUBSET Fingerprints]
  MaxWebhooks   \* bound: webhooks delivered

VARIABLES
  handler,  \* for each group, the webhook being handled
  store,    \* the rows of the name
  server,   \* what the device shows under the collapse id, and whether it repeats
  past      \* what Grafana reported, what was pushed, and what went wrong

vars == <<handler, store, server, past>>

Fingerprints == UNION {Alerts[g] : g \in Groups}
None == [firing |-> {"noRow"}, resolved |-> {}]
Idle == [alerts |-> None, plan |-> <<>>, prev |-> None, tracked |-> FALSE, elsewhere |-> FALSE]
Subs == {"plain", "last"} \union Groups

Init ==
  /\ handler = [g \in Groups |-> Idle]
  /\ store = [s \in Subs |-> None]
  /\ server = [note |-> {}, repeats |-> FALSE]
  /\ \E asks \in BOOLEAN :
       past = [retract |-> asks, told |-> [g \in Groups |-> {}], pushed |-> {},
               delivered |-> 0, hurt |-> {}, raced |-> FALSE]

Busy == {g \in Groups : handler[g] # Idle}
MayFail(kind) == past.hurt \subseteq {kind}
Fault(kind) == MayFail(kind) /\ past' = [past EXCEPT !.hurt = {kind}]

(* The group reports what fires now, and what fired at its last report.    *)
Deliver(g) ==
  /\ handler[g] = Idle /\ past.delivered < MaxWebhooks
  /\ \E firing \in SUBSET Alerts[g] :
       LET alerts == [firing |-> firing, resolved |-> past.told[g] \ firing]
       IN /\ firing # {} \/ past.told[g] # {}
          /\ handler' = [handler EXCEPT ![g] = [Idle EXCEPT !.alerts = alerts,
               !.plan = IF firing = {} THEN <<"cancel", "load">> ELSE <<"load">>]]
          /\ past' = [past EXCEPT !.delivered = @ + 1]
  /\ UNCHANGED <<store, server>>

---------------------------------------------------------------------------
Calls(g, call) == handler[g].plan # <<>> /\ Head(handler[g].plan) = call
Then(g, plan) == handler' = [handler EXCEPT ![g].plan = plan]
Advance(g) == Then(g, Tail(handler[g].plan))
Current(g) == handler[g].alerts
Firing(g) == Current(g).firing # {}

(* ack.Cancel only logs a failure.                                         *)
Cancel(g) ==
  /\ Calls(g, "cancel")
  /\ Advance(g)
  /\ \/ server' = [server EXCEPT !.repeats = FALSE] /\ UNCHANGED past
     \/ UNCHANGED server /\ Fault("call")
  /\ UNCHANGED store

(* loadName: the last push, whether this group is recorded firing, and     *)
(* whether another may be.  A failed read knows of no push and may miss a  *)
(* group.                                                                  *)
Last == IF store["last"] # None THEN store["last"] ELSE store["plain"]
FiringElsewhere(g, row) == row.firing \ (Current(g).firing \union Current(g).resolved)

\* Mutant of Elsewhere: only the row written without ?retract=1 counts.
ElsewhereOlder(g) == store["plain"] # None

Elsewhere(g) ==
  \/ store["plain"] # None
  \/ \E other \in Groups \ {g} : store[other] # None /\ FiringElsewhere(g, store[other]) # {}

(* The row of the group is written before its push goes out, so another    *)
(* that resolves meanwhile sees it.                                        *)
Decide(g) == IF Firing(g) /\ past.retract THEN <<"own", "decide">> ELSE <<"decide">>

Load(g) ==
  /\ Calls(g, "load")
  /\ \/ /\ handler' = [handler EXCEPT ![g].plan = Decide(g),
             ![g].prev = IF past.retract THEN Last ELSE store["plain"],
             ![g].tracked = store[g] # None /\ store[g].firing # {},
             ![g].elsewhere = Elsewhere(g)]
        /\ UNCHANGED past
     \/ /\ handler' = [handler EXCEPT ![g].plan = Decide(g), ![g].elsewhere = TRUE]
        /\ Fault("read")
  /\ UNCHANGED <<store, server>>

---------------------------------------------------------------------------
(* The rows.                                                               *)

(* updateState: nothing that fires needs no row.                           *)
UpdateState(alerts) == IF alerts.firing = {} THEN None ELSE alerts

Row(g, call) ==
  CASE call = "own" -> [sub |-> g, to |-> UpdateState(Current(g))]
    [] call = "last" -> [sub |-> "last", to |-> Current(g)]
    [] call = "plain" -> [sub |-> "plain", to |-> UpdateState(Current(g))]

(* A group that appears after another read the rows is not seen by it.     *)
Missed(g) == \E other \in Groups \ {g} : handler[other].plan # <<>> /\ Head(handler[other].plan) \notin {"cancel", "load"}

Store(g) ==
  \E call \in {"own", "last", "plain"} :
    /\ Calls(g, call)
    /\ Advance(g)
    /\ \/ /\ store' = [store EXCEPT ![Row(g, call).sub] = Row(g, call).to]
          /\ past' = [past EXCEPT !.raced = @ \/ (call = "own" /\ Missed(g))]
       \/ UNCHANGED store /\ Fault("write")
    /\ UNCHANGED server

\* Mutant of Saved: a resolve under ?retract=1 is not kept as the last push.
SavedFiring(g) ==
  IF ~past.retract THEN <<"plain">> ELSE IF Firing(g) THEN <<"last">> ELSE <<"own">>

(* saveName, or the row a push without ?retract=1 writes.                  *)
Saved(g) ==
  IF ~past.retract THEN <<"plain">> ELSE IF Firing(g) THEN <<"last">> ELSE <<"last", "own">>

Same(g) == handler[g].prev # None /\ Current(g) = handler[g].prev

Decided(g) ==
  /\ Calls(g, "decide")
  /\ Then(g, CASE Same(g) -> IF past.retract /\ ~Firing(g) THEN <<"own">> ELSE <<>>
               [] ~Same(g) /\ ~Firing(g) /\ past.retract /\ handler[g].tracked /\ ~handler[g].elsewhere -> <<"retract">>
               [] OTHER -> <<"send">>)
  /\ UNCHANGED <<store, server, past>>

(* Any doubt, and a retract that reached no device, sends the Resolved.    *)
Retract(g) ==
  /\ Calls(g, "retract")
  /\ \/ server' = [server EXCEPT !.note = {}] /\ Then(g, Saved(g)) /\ UNCHANGED past
     \/ UNCHANGED server /\ Then(g, <<"send">>) /\ (UNCHANGED past \/ Fault("call"))
  /\ UNCHANGED store

NewlyFiring(g) == handler[g].prev = None \/ Current(g).firing \ handler[g].prev.firing # {}

(* ack.Send; a push that fails is the webhook's failure.                   *)
Send(g) ==
  /\ Calls(g, "send")
  /\ \/ /\ server' = [note |-> Current(g).firing \union {"resolved"},
                      repeats |-> server.repeats \/ (Firing(g) /\ NewlyFiring(g))]
        /\ Then(g, Saved(g))
        /\ past' = [past EXCEPT !.pushed = @ \union Current(g).firing]
     \/ UNCHANGED server /\ handler' = [handler EXCEPT ![g] = Idle] /\ Fault("call")
  /\ UNCHANGED store

Answer(g) ==
  /\ handler[g] # Idle /\ handler[g].plan = <<>>
  /\ handler' = [handler EXCEPT ![g] = Idle]
  /\ past' = [past EXCEPT !.told[g] = Current(g).firing, !.pushed = @ \ Current(g).resolved]
  /\ UNCHANGED <<store, server>>

Crash ==
  /\ Busy # {} /\ Fault("crash")
  /\ handler' = [g \in Groups |-> Idle]
  /\ UNCHANGED <<store, server>>

Next ==
  \/ \E g \in Groups :
       \/ Deliver(g) \/ Cancel(g) \/ Load(g) \/ Store(g) \/ Decided(g)
       \/ Retract(g) \/ Send(g) \/ Answer(g)
  \/ Crash

---------------------------------------------------------------------------
(* Properties.                                                             *)

Quiet == Busy = {}
AllResolved == \A g \in Groups : past.told[g] = {}

(* The dedup never swallows an alert: one that Grafana reports firing, and *)
(* was answered 200 for, was pushed since it began, however the pushes of  *)
(* the other group came in between and whatever the store answered.        *)
FiringWasPushed ==
  Quiet /\ past.hurt \subseteq {"read", "call", "crash"} => \A g \in Groups : past.told[g] \subseteq past.pushed

(* A resolve takes the name's push off the devices only when no group of   *)
(* the name fires, and leaves no push that says firing and none repeating  *)
(* once all have resolved.                                                 *)
PushMatchesGroups ==
  Quiet /\ past.hurt = {} /\ ~past.raced =>
    /\ ~AllResolved => server.note # {}
    /\ AllResolved => server.note \intersect Fingerprints = {} /\ ~server.repeats
=============================================================================
