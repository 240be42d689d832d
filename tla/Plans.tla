-------------------------------- MODULE Plans --------------------------------
(***************************************************************************)
(* A webhook handler of relay/internal as a plan: the calls it makes, in   *)
(* order, each with what the handler does when the call fails.  A plan is  *)
(* a sequence of calls that ends with an answer to the sender.  The plans  *)
(* are in AlertPlans and MediaPlans; Relay runs them.                      *)
(* A webhook URL carries the request's overrides (overrides.go): whether   *)
(* it allows the activity and the notification, and asks for ack=1 and     *)
(* retract=1.                                                              *)
(*                                                                         *)
(* Keys name the activities of one incident: "main" is the one the webhook *)
(* reports on, "side" a second one with a slug of its own.  Content,       *)
(* titles, priorities and levels are left out.                             *)
(***************************************************************************)
EXTENDS Sequences

(* What a failed call leads to: GoOn, or one of the plans of a set.        *)
GoOn == {}

Answer(ok) == <<[do |-> "answer", ok |-> ok]>>
Done == Answer(TRUE)            \* 200
Refuse == Answer(FALSE)         \* humautil.UpstreamError: the sender may retry
Refused == {Refuse}

StopTimer(k) == [do |-> "stop", key |-> k]
Get(k, found, absent, err) ==
  [do |-> "get", key |-> k, found |-> found, absent |-> absent, or |-> err]
Set(k, err) == [do |-> "set", key |-> k, or |-> err]
Delete(k) == [do |-> "delete", key |-> k, or |-> GoOn]
Create(k, err) == [do |-> "create", key |-> k, or |-> err]
Update(k, state, err) == [do |-> "update", key |-> k, state |-> state, or |-> err]
ScheduleEnd(k) == [do |-> "end", key |-> k]
IfPending(k, pending, over) == [do |-> "ifPending", key |-> k, pending |-> pending, over |-> over]
EndIfTracked(k, found, absent) ==
  [do |-> "endIfTracked", key |-> k, found |-> found, absent |-> absent, or |-> {absent}]
Push(note, err) == [do |-> "push", note |-> note, or |-> err]
Send(u, note, err) == [do |-> "send", acked |-> u.ack, note |-> note, or |-> err]
Cancel == [do |-> "cancel", or |-> GoOn]
Retract(gone, still) == [do |-> "retract", gone |-> gone, or |-> {still}]

When(condition, plan) == IF condition THEN plan ELSE <<>>

AllowsActivity(u) == "activity" \in u.channels
AllowsNotification(u) == "notification" \in u.channels
NotifyFallback(u, worthIt) == AllowsNotification(u) /\ (worthIt \/ ~AllowsActivity(u))

(* A notification in the activity's stead.                                 *)
Instead(u) == When(AllowsNotification(u), <<Push("notice", Refused)>>) \o Done

(* Nothing but a notification.                                             *)
NotifyOnly(u) == When(AllowsNotification(u), <<Push("notice", Refused)>>) \o Done

(* selftest.SendTest, under a slug no other event uses.                    *)
SendTest == <<Create("side", Refused), Update("side", "ongoing", Refused)>> \o Done

---------------------------------------------------------------------------
(* What a webhook says of the activity "main" of its provider.             *)

Alerts(plan) == [says |-> "alert", plan |-> plan]
On(plan) == [says |-> "on", plan |-> plan]        \* there is something to show
Off(plan) == [says |-> "off", plan |-> plan]      \* it is over
Perhaps(plan) == [says |-> "unsure", plan |-> plan]  \* a change, if it is shown
Aside(plan) == [says |-> "nothing", plan |-> plan]
============================================================================
