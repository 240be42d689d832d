----------------------------- MODULE AlertPlans -----------------------------
(***************************************************************************)
(* The plans of the relay's alerting, backup and universal webhooks.       *)
(***************************************************************************)
EXTENDS Plans

---------------------------------------------------------------------------
(* komodo, gatus, truenas and uptimekuma: a row that both deduplicates the *)
(* alert and says that there is one to resolve.                            *)

\* Mutant of Alert: the end of the previous alert is not called off.
AlertOverEnd(u) ==
  LET isNew == <<Set("main", GoOn)>>
        \o When(AllowsActivity(u),
             <<Create("main", {<<Delete("main")>> \o Refuse}),
               Update("main", "ongoing", {<<Delete("main")>> \o Refuse})>>)
        \o When(AllowsNotification(u), <<Send(u, "alert", GoOn)>>) \o Done
  IN <<Get("main", <<Set("main", GoOn), Update("main", "ongoing", Refused)>> \o Done, isNew, {isNew})>>

\* Mutant of Alert: the row is written once the activity is up.
AlertRowLast(u) ==
  LET isNew == When(AllowsActivity(u), <<Create("main", Refused), Update("main", "ongoing", Refused)>>)
        \o <<Set("main", GoOn)>>
        \o When(AllowsNotification(u), <<Send(u, "alert", GoOn)>>) \o Done
      known == <<Set("main", GoOn)>>
        \o When(AllowsActivity(u), <<Update("main", "ongoing", Refused)>>) \o Done
  IN <<StopTimer("main"), Get("main", known, isNew, {isNew})>>

Alert(u) ==
  LET rollBack == {<<Delete("main")>> \o Refuse}
      isNew == <<Set("main", GoOn)>>
        \o When(AllowsActivity(u), <<Create("main", rollBack), Update("main", "ongoing", rollBack)>>)
        \o When(AllowsNotification(u), <<Send(u, "alert", GoOn)>>) \o Done
      known == <<Set("main", GoOn)>>
        \o When(AllowsActivity(u), <<Update("main", "ongoing", Refused)>>) \o Done
  IN <<StopTimer("main"), Get("main", known, isNew, {isNew})>>

\* Mutant of Resolved: an alert on no device needs no push.
ResolvedUnseen(u) ==
  LET resolved == <<Push("resolved", GoOn)>> \o Done
      notify == IF ~AllowsNotification(u) THEN Done
                ELSE IF u.retract THEN <<Retract(Done, Done)>> ELSE resolved
      found == <<IF AllowsActivity(u) THEN ScheduleEnd("main") ELSE Delete("main")>> \o notify
  IN When(u.ack /\ AllowsNotification(u), <<Cancel>>) \o <<Get("main", found, Done, {Done})>>

Resolved(u) ==
  LET resolved == <<Push("resolved", GoOn)>> \o Done
      notify == IF ~AllowsNotification(u) THEN Done
                ELSE IF u.retract THEN <<Retract(Done, resolved)>> ELSE resolved
      found == <<IF AllowsActivity(u) THEN ScheduleEnd("main") ELSE Delete("main")>> \o notify
  IN When(u.ack /\ AllowsNotification(u), <<Cancel>>) \o <<Get("main", found, Done, {Done})>>

(* uptimekuma handleDown, handleUp; gatus; truenas, whose ack and retract  *)
(* are paths of their own.                                                 *)
Down(u) == Alert(u)
Up(u) == Resolved(u)
Triggered(u) == Alert(u)
GatusResolved(u) == Resolved(u)
CreateAlert(u) == Alert(u)
Clear(u) == Resolved(u)

(* uptimekuma handlePending *)
Pending(u) ==
  IF ~AllowsActivity(u) THEN Done
  ELSE <<StopTimer("main"), Set("main", {Done}), Create("main", {<<Delete("main")>> \o Refuse}),
         Update("main", "ongoing", Refused)>> \o Done

(* komodo handleOneShot *)
OneShot(u) == When(AllowsNotification(u), <<Send(u, "notice", Refused)>>) \o Done

---------------------------------------------------------------------------
(* proxmox *)

Starting(u) ==
  IF ~AllowsActivity(u) THEN Done
  ELSE <<StopTimer("main"), Create("main", Refused), Set("main", GoOn),
         Update("main", "ongoing", Refused)>> \o Done

Finished(u) ==
  IF ~AllowsActivity(u) THEN Done
  ELSE <<Get("main", <<ScheduleEnd("main")>> \o Done, Done, Refused)>>

(* handleReplication *)
ReplicationStarting(u) == Starting(u)
ReplicationFinished(u) == Finished(u)

Fencing(u) ==
  IF ~AllowsActivity(u) THEN Done
  ELSE <<Create("side", Refused), Update("side", "ongoing", Refused), Set("side", GoOn),
         ScheduleEnd("side")>> \o Done

Updates(u) == Fencing(u)

(* No row.                                                                 *)
SystemMail(u) ==
  IF ~AllowsActivity(u) THEN Done
  ELSE <<Create("side", Refused), Update("side", "ongoing", Refused), ScheduleEnd("side")>> \o Done

---------------------------------------------------------------------------
(* backrest.  The record of failure pushes has a module of its own.        *)

BackrestStart(u) ==
  IF ~AllowsActivity(u) THEN Done
  ELSE <<Create("main", Refused), Update("main", "ongoing", Refused), Set("main", GoOn)>> \o Done

\* Mutant of BackrestEnd: under channels=notification the open activity is forgotten.
BackrestEndForgets(u, problem) ==
  IF ~AllowsActivity(u) THEN <<Push("notice", Refused)>> \o Done
  ELSE <<Create("main", Refused), Update("main", "ongoing", Refused), Set("main", GoOn),
         ScheduleEnd("main")>> \o Done

BackrestEnd(u, problem) ==
  LET notify(err) == When(NotifyFallback(u, problem), <<Push("notice", err)>>) \o Done
  IN IF AllowsActivity(u)
     THEN <<Create("main", Refused), Update("main", "ongoing", Refused), Set("main", GoOn),
            ScheduleEnd("main")>> \o notify(GoOn)
     ELSE <<EndIfTracked("main", notify(Refused), notify(Refused))>>

BackrestAlert(u, problem) ==
  LET notify(err) == When(NotifyFallback(u, problem), <<Push("notice", err)>>) \o Done
  IN IF AllowsActivity(u)
     THEN <<Create("side", Refused), Update("side", "ongoing", Refused), ScheduleEnd("side")>> \o notify(GoOn)
     ELSE notify(Refused)

---------------------------------------------------------------------------
(* The universal webhook (universalhook).  An event is an "alert" with a   *)
(* correlation key, an alert that is only "titled", whose pushes have no   *)
(* collapse id, or "progress".                                             *)

Raise(u, kind, err) ==
  CASE kind = "alert" -> Send(u, "alert", err)
    [] kind = "titled" -> Send(u, "notice", err)
    [] kind = "progress" -> Push("notice", err)

(* A card refused for good is raised as a notification, whatever the       *)
(* request's channels.                                                     *)
Ongoing(u, kind) ==
  LET worthIt == NotifyFallback(u, kind # "progress")
      card(isNew) == <<Update("main", "ongoing", Refused), Set("main", GoOn)>>
        \o When(isNew /\ worthIt, <<Raise(u, kind, GoOn)>>) \o Done
      new == <<Create("main", {Refuse, <<Raise(u, kind, Refused)>> \o Done})>> \o card(TRUE)
  IN IF AllowsActivity(u) THEN <<StopTimer("main"), Get("main", card(FALSE), new, {new})>>
     ELSE When(worthIt, <<Raise(u, kind, Refused)>>) \o Done

(* deliverActivity, an update to an open card.                             *)
Bookkeeping(u, kind) ==
  IF ~AllowsActivity(u) THEN Done
  ELSE <<IfPending("main", Done, <<Get("main", Ongoing(u, kind), Done, {Ongoing(u, kind)})>>)>>

End(u, kind) ==
  LET outcome(tracked) ==
        <<Push(IF kind = "alert" THEN "resolved" ELSE "notice", IF tracked THEN GoOn ELSE Refused)>> \o Done
      notify(tracked) ==
        IF ~NotifyFallback(u, TRUE) THEN Done
        ELSE IF kind = "alert" /\ tracked /\ u.retract THEN <<Retract(Done, outcome(TRUE))>>
        ELSE outcome(tracked)
      ending == <<IfPending("main", Done, <<ScheduleEnd("main")>> \o notify(TRUE))>>
  IN When(kind # "progress" /\ u.ack /\ AllowsNotification(u), <<Cancel>>)
     \o (IF AllowsActivity(u) THEN <<Get("main", ending, notify(FALSE), {notify(FALSE)})>>
         ELSE <<EndIfTracked("main", notify(TRUE), notify(FALSE))>>)

---------------------------------------------------------------------------
(* The webhooks of each provider.                                          *)

KomodoWebhooks(u) ==
  {Alerts(Alert(u)), Off(Resolved(u)), Aside(OneShot(u)), Aside(SendTest)}
UptimeKumaWebhooks(u) == {Alerts(Down(u)), On(Pending(u)), Off(Up(u)), Aside(SendTest)}
GatusWebhooks(u) == {Alerts(Triggered(u)), Off(GatusResolved(u))}
TrueNASWebhooks(u) == {Alerts(CreateAlert(u)), Off(Clear(u))}
ProxmoxWebhooks(u) ==
  {On(Starting(u)), On(ReplicationStarting(u)), Off(Finished(u)), Off(ReplicationFinished(u)),
   Aside(Fencing(u)), Aside(Updates(u)), Aside(SystemMail(u)), Aside(SendTest)}
BackrestWebhooks(u) ==
  {On(BackrestStart(u))} \union
  UNION {{Off(BackrestEnd(u, problem)), Aside(BackrestAlert(u, problem))} : problem \in BOOLEAN}
UniversalWebhooks(u, kind) ==
  {IF kind = "progress" THEN On(Ongoing(u, kind)) ELSE Alerts(Ongoing(u, kind)),
   Perhaps(Bookkeeping(u, kind)), Off(End(u, kind)), Aside(NotifyOnly(u))}
=============================================================================
