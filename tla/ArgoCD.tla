------------------------------- MODULE ArgoCD -------------------------------
(***************************************************************************)
(* relay/internal/argocd/handler.go: one application of one tenant, the    *)
(* replicas of the relay that serve it, the row and the tombstone they     *)
(* share in the state store, and its activity (the card) on the PushWard   *)
(* server.                                                                 *)
(*                                                                         *)
(* A replica handles one webhook or one expired grace timer of the app at  *)
(* a time (lockApp).  What a handler will do is settled by the row it      *)
(* loads: a plan, whose store and server calls are steps of their own, so  *)
(* that replicas meet anywhere between them.  An end (lifecycle/ender.go)  *)
(* is two timers whose callbacks run beside the lock: an ONGOING frame,    *)
(* then ENDED and the deletion of the row.  Stop does not reach a callback *)
(* that runs.  Rows live for an hour, far beyond the clock.                *)
(***************************************************************************)
EXTENDS Integers, Sequences

CONSTANTS
  Replicas, Revisions,
  NoRevision,   \* the empty revision of a payload
  Grace,        \* SyncGracePeriod in ticks of the clock
  Slack,        \* overdueSlack
  LastEvent,    \* bound: no webhook arrives later
  Limit         \* bounds: how many webhooks, faults, restarts and sweeps

ASSUME TimesAssumption == Grace \in Nat /\ Slack \in Nat /\ LastEvent \in Nat \ {0}
ASSUME LimitAssumption == Limit \in [{"webhooks", "faults", "restarts", "sweeps"} -> Nat]

VARIABLES
  now,
  row, tombstone,         \* the state store; the tombstone is its expiry
  card,                   \* the step the activity shows
  timers, entry, fired,   \* armed timers, the one in graceTimers, expired ones
  job,                    \* what each replica does under the app's lock
  ender,                  \* the last end scheduled: its generation and timer
  callbacks,              \* of ends, that run: what each does next
  stale,                  \* the card shows a frame of an end that was stopped
  sweep,                  \* StartCleanup's goroutine
  draining,               \* StopAll has run
  lost,                   \* a timer went with a replica, and no webhook since
  used                    \* of Limit

store == <<row, tombstone>>
graceVars == <<timers, entry, fired>>
endVars == <<ender, callbacks, stale>>
lifeVars == <<sweep, draining>>
vars == <<now, store, card, graceVars, job, endVars, lifeVars, lost, used>>

Events == {"sync-running", "sync-succeeded", "deployed", "sync-failed", "health-degraded"}
Kinds == {"grace", "backstop", "retry"}     \* of timers: where they were armed

App(rev, step, pending, since) ==
  [rev |-> rev, step |-> step, pending |-> pending, since |-> since]
NoRow == App(NoRevision, 0, FALSE, 0)
NoCard == 0 - 1                             \* 0: created, no content yet
NoTimer == [at |-> 0, kind |-> "none"]
Timer(at, kind) == [at |-> at, kind |-> kind]
Free == [by |-> "none", todo |-> <<>>]
NoEnd == [gen |-> 0, at |-> "none", step |-> 0]

Horizon == LastEvent + Grace + Slack + Limit.faults

(* No row, or one an older pod left pending without pending_since. *)
Init ==
  /\ now = 1
  /\ row \in {NoRow} \union [rev : Revisions, step : {1, 2}, pending : {TRUE}, since : {0}]
  /\ tombstone = 0 /\ card = NoCard
  /\ timers = [r \in Replicas |-> {}] /\ entry = [r \in Replicas |-> NoTimer]
  /\ fired = [r \in Replicas |-> {}] /\ job = [r \in Replicas |-> Free]
  /\ ender = [r \in Replicas |-> NoEnd] /\ callbacks = [r \in Replicas |-> {}] /\ stale = FALSE
  /\ sweep = [r \in Replicas |-> "idle"] /\ draining = [r \in Replicas |-> FALSE]
  /\ lost = row.pending
  /\ used = [what \in DOMAIN Limit |-> 0]

Spend(what) ==
  /\ used[what] < Limit[what]
  /\ used' = [used EXCEPT ![what] = @ + 1]

(* A call that may fail, once more. *)
Fault == Spend("faults")
NoFault == UNCHANGED used

---------------------------------------------------------------------------
(* What a handler does, as a function of the row it loaded.                *)

Do(op) == [op |-> op]
Save(app) == [op |-> "save", app |-> app]
SavePending(app) == [op |-> "savePending", app |-> app]
Update(step) == [op |-> "update", step |-> step]
ScheduleEnd(step) == [op |-> "scheduleEnd", step |-> step]
Backstop(app) == [op |-> "backstop", app |-> app]
Load(rev) == [op |-> "load", rev |-> rev]

When(condition, ops) == IF condition THEN ops ELSE <<>>

Fresh(rev, step) == App(rev, step, FALSE, 0)
AtStep(app, step) == [app EXCEPT !.step = step]
\* Mutant of Shown: the app stays pending.
ShownPending(app) == [app EXCEPT !.since = 0]
Shown(app) == [app EXCEPT !.pending = FALSE, !.since = 0]

overdue(app) ==
  app.pending /\ app.since # 0 /\ now - app.since > Grace + Slack

materialize(app) == <<Do("disarm"), Save(Shown(app)), Do("create")>>

(* An overdue app is shown before anything else, and then is as shown. *)
Promote(app) == When(overdue(app), materialize(app))
Promoted(app) == IF overdue(app) THEN Shown(app) ELSE app

SyncRunningPlan(loaded, rev) ==
  LET needsCreate == loaded = NoRow \/ (rev # NoRevision /\ loaded.rev # rev)
      app == IF needsCreate THEN Fresh(rev, 1) ELSE AtStep(Promoted(loaded), 1)
  IN When(~needsCreate, Promote(loaded))
     \o <<Do("stopEnd")>>
     \o When(needsCreate /\ loaded # NoRow, <<Do("disarm")>>)
     \o <<Save(app)>>
     \o IF Grace > 0 /\ (needsCreate \/ app.pending)
        THEN <<SavePending(app), Do("arm")>>
        ELSE When(needsCreate, <<Do("create")>>) \o <<Update(1)>>

\* Mutant of SucceededInGrace: no backstop is armed.
SucceededUnbacked(app) == <<Save(AtStep(app, 2))>>

SucceededInGrace(app) == <<Save(AtStep(app, 2)), Backstop(app)>>

SyncSucceededPlan(loaded, rev) ==
  LET app == Promoted(loaded)
  IN Promote(loaded) \o
        CASE app.pending -> SucceededInGrace(app)
          [] app = NoRow /\ Grace > 0 ->
               <<Do("skipIfTombstone"), SavePending(Fresh(rev, 2)), Do("armAnew")>>
          [] app = NoRow /\ Grace = 0 ->
               <<Save(Fresh(rev, 2)), Do("create"), Update(2)>>
          [] OTHER -> <<Save(AtStep(app, 2)), Update(2)>>

\* Mutant of DeployedPlan: a tracked app's step is advanced, not set.
DeployedAdvances(loaded, rev) ==
  IF loaded = NoRow THEN <<Do("tombstone")>>
  ELSE <<Save(AtStep(loaded, loaded.step + 1)), ScheduleEnd(3)>>

DeployedPlan(loaded, rev) ==
  LET app == Promoted(loaded)
  IN Promote(loaded) \o
        CASE app.pending ->
               <<Do("disarm"), Do("delete")>> \o When(Grace > 0, <<Do("tombstone")>>)
          [] app = NoRow /\ Grace > 0 -> <<Do("tombstone")>>
          [] app = NoRow /\ Grace = 0 ->
               <<Save(Fresh(rev, 3)), Do("create"), ScheduleEnd(3)>>
          [] OTHER -> <<Save(AtStep(app, 3)), ScheduleEnd(3)>>

(* errorPreamble, then the end. *)
SyncFailedPlan(app, rev) ==
  (CASE app.pending -> materialize(app)
     [] app = NoRow -> <<Save(Fresh(rev, 1)), Do("create")>>
     [] OTHER -> <<>>)
  \o <<ScheduleEnd(IF app = NoRow THEN 1 ELSE app.step)>>

HealthDegradedPlan(app, rev) ==
  IF app.step = 2 /\ ~app.pending THEN <<Update(2)>> ELSE SyncFailedPlan(app, rev)

\* Mutant of GraceExpiredPlan: the update shows the first step.
GraceExpiredAtStart(app) ==
  IF app.pending THEN materialize(app) \o <<Update(1)>> ELSE <<Do("forget")>>

GraceExpiredPlan(app) ==
  IF app.pending THEN materialize(app) \o <<Update(app.step)>> ELSE <<Do("forget")>>

Plan(by, app, rev) ==
  CASE by = "sync-running"    -> SyncRunningPlan(app, rev)
    [] by = "sync-succeeded"  -> SyncSucceededPlan(app, rev)
    [] by = "deployed"        -> DeployedPlan(app, rev)
    [] by = "sync-failed"     -> SyncFailedPlan(app, rev)
    [] by = "health-degraded" -> HealthDegradedPlan(app, rev)
    [] by \in Kinds           -> GraceExpiredPlan(app)

---------------------------------------------------------------------------
(* The lock is taken: by a webhook, or by a timer that has expired.        *)

Begin(r, by, todo) ==
  /\ job[r] = Free
  /\ job' = [job EXCEPT ![r] = [by |-> by, todo |-> todo]]
  /\ UNCHANGED <<now, store, card, timers, entry, endVars, lifeVars, lost>>

handleWebhook(r, event, rev) ==
  /\ ~draining[r] /\ now <= LastEvent
  /\ Begin(r, event, When(event = "sync-running", <<Do("skipIfTombstone")>>) \o <<Load(rev)>>)
  /\ Spend("webhooks")
  /\ UNCHANGED fired

graceExpired(r, t) ==
  /\ t \in fired[r]
  /\ Begin(r, t.kind, <<Load(NoRevision)>>)
  /\ fired' = [fired EXCEPT ![r] = @ \ {t}]
  /\ UNCHANGED used

---------------------------------------------------------------------------
(* The steps of a plan.                                                    *)

Doing(r, op) == job[r] # Free /\ Head(job[r].todo).op = op
Arg(r) == Head(job[r].todo)

Then(r, todo) ==
  job' = [job EXCEPT ![r] = IF todo = <<>> THEN Free ELSE [@ EXCEPT !.todo = todo]]
Continue(r) == Then(r, Tail(job[r].todo))

LoadApp(r) ==
  /\ Doing(r, "load")
  /\ \/ /\ Then(r, Plan(job[r].by, row, Arg(r).rev))
        /\ lost' = (lost /\ job[r].by \in Kinds)
        /\ NoFault
     \/ /\ Then(r, When(job[r].by \in Kinds, <<Do("retry")>>))
        /\ Fault /\ UNCHANGED lost
  /\ UNCHANGED <<now, store, card, graceVars, endVars, lifeVars>>

\* Mutant of SkipIfTombstone: the tombstone is not looked up.
SkipNever(r) ==
  /\ Doing(r, "skipIfTombstone") /\ Continue(r)
  /\ UNCHANGED <<now, store, card, graceVars, endVars, lifeVars, lost, used>>

(* An error of hasTombstone reads as no tombstone. *)
SkipIfTombstone(r) ==
  /\ Doing(r, "skipIfTombstone")
  /\ \/ tombstone > now /\ Then(r, <<>>) /\ NoFault
     \/ tombstone <= now /\ Continue(r) /\ NoFault
     \/ Continue(r) /\ Fault
  /\ UNCHANGED <<now, store, card, graceVars, endVars, lifeVars, lost>>

(* saveApp; its error is logged only. *)
SaveApp(r) ==
  /\ \/ Doing(r, "save") /\ NoFault /\ row' = Arg(r).app
     \/ /\ Doing(r, "savePending") /\ NoFault
        /\ row' = [Arg(r).app EXCEPT !.pending = TRUE, !.since = now]
     \/ (Doing(r, "save") \/ Doing(r, "savePending")) /\ Fault /\ UNCHANGED row
  /\ Continue(r)
  /\ UNCHANGED <<now, tombstone, card, graceVars, endVars, lifeVars, lost>>

DeleteApp(r) ==
  /\ Doing(r, "delete")
  /\ \/ row' = NoRow /\ NoFault
     \/ UNCHANGED row /\ Fault
  /\ Continue(r)
  /\ UNCHANGED <<now, tombstone, card, graceVars, endVars, lifeVars, lost>>

SetTombstone(r) ==
  /\ Doing(r, "tombstone")
  /\ \/ tombstone' = now + 2 * Grace /\ NoFault
     \/ UNCHANGED tombstone /\ Fault
  /\ Continue(r)
  /\ UNCHANGED <<now, row, card, graceVars, endVars, lifeVars, lost>>

(* On an error, which may hide that it was created, the row is dropped. *)
CreateActivity(r) ==
  LET created == IF card = NoCard THEN 0 ELSE card
  IN /\ Doing(r, "create")
     /\ \/ card' = created /\ Continue(r) /\ NoFault
        \/ card' \in {card, created} /\ Then(r, <<Do("delete")>>) /\ Fault
     /\ UNCHANGED <<now, store, graceVars, endVars, lifeVars, lost>>

(* The server drops an update of an activity that is not there. *)
UpdateActivity(r) ==
  /\ Doing(r, "update")
  /\ \/ card' = (IF card = NoCard THEN NoCard ELSE Arg(r).step) /\ stale' = FALSE /\ NoFault
     \/ UNCHANGED <<card, stale>> /\ Fault
  /\ Continue(r)
  /\ UNCHANGED <<now, store, graceVars, ender, callbacks, lifeVars, lost>>

(* graceTimers, under h.mu.  Stop() reaches a timer that has not expired. *)
Drop(r) ==
  /\ timers' = [timers EXCEPT ![r] = @ \ {entry[r]}]
  /\ entry' = [entry EXCEPT ![r] = NoTimer]
Put(r, armed, t) ==
  /\ timers' = [timers EXCEPT ![r] = armed \union {t}]
  /\ entry' = [entry EXCEPT ![r] = t]

backstopAt(app) ==
  LET due == app.since + Grace + Slack
  IN CASE app.since = 0 -> now + Grace
       [] app.since # 0 -> IF due < now THEN now ELSE due

(* armBackstop leaves a timer the replica already has alone. *)
ArmTimer(r) ==
  /\ \/ Doing(r, "disarm") /\ Drop(r)
     \/ Doing(r, "arm") /\ Put(r, timers[r] \ {entry[r]}, Timer(now + Grace, "grace"))
     \/ Doing(r, "armAnew") /\ Put(r, timers[r], Timer(now + Grace, "grace"))
     \/ /\ Doing(r, "backstop") /\ entry[r] = NoTimer
        /\ Put(r, timers[r], Timer(backstopAt(Arg(r).app), "backstop"))
     \/ Doing(r, "backstop") /\ entry[r] # NoTimer /\ UNCHANGED <<timers, entry>>
     \/ Doing(r, "retry") /\ entry[r] # NoTimer /\ Put(r, timers[r], Timer(now + 1, "retry"))
     \/ Doing(r, "retry") /\ entry[r] = NoTimer /\ UNCHANGED <<timers, entry>>
     \/ /\ Doing(r, "forget")
        /\ entry' = [entry EXCEPT ![r] = NoTimer] /\ UNCHANGED timers
  /\ Continue(r)
  /\ UNCHANGED <<now, store, card, fired, endVars, lifeVars, lost, used>>

(* StopTimer and ScheduleEnd stop what timer is armed; a callback goes on. *)
SetEnd(r) ==
  /\ \/ Doing(r, "stopEnd") /\ ender' = [ender EXCEPT ![r].at = "none"]
     \/ /\ Doing(r, "scheduleEnd")
        /\ ender' = [ender EXCEPT ![r] = [gen |-> @.gen + 1, at |-> "first", step |-> Arg(r).step]]
  /\ Continue(r)
  /\ UNCHANGED <<now, store, card, graceVars, callbacks, stale, lifeVars, lost, used>>

Step(r) ==
  \/ LoadApp(r) \/ SkipIfTombstone(r) \/ SaveApp(r) \/ DeleteApp(r) \/ SetTombstone(r)
  \/ CreateActivity(r) \/ UpdateActivity(r) \/ ArmTimer(r) \/ SetEnd(r)

---------------------------------------------------------------------------
(* Timers and ends, which run beside the lock; replicas that go.           *)

Fire(r) ==
  /\ \E t \in timers[r] :
       /\ t.at <= now
       /\ timers' = [timers EXCEPT ![r] = @ \ {t}]
       /\ fired' = [fired EXCEPT ![r] = @ \union {t}]
  /\ UNCHANGED <<now, store, card, entry, job, endVars, lifeVars, lost, used>>

Current(r, c) == ender[r].at # "none" /\ ender[r].gen = c.gen

FireEnd(r) ==
  /\ ender[r].at \in {"first", "second"}
  /\ LET does == IF ender[r].at = "first" THEN "ongoing" ELSE "ended"
     IN callbacks' = [callbacks EXCEPT ![r] =
          @ \union {[gen |-> ender[r].gen, does |-> does, step |-> ender[r].step]}]
  /\ ender' = [ender EXCEPT ![r].at = "running"]
  /\ UNCHANGED <<now, store, card, graceVars, job, stale, lifeVars, lost, used>>

(* A call of a callback may fail; the shutdown cancels it. *)
EndFault(r) == Fault \/ (draining[r] /\ NoFault)

(* Phase 1, also of an end that was stopped or superseded meanwhile; that *)
(* goes on to no phase 2. *)
SendOngoing(r, c) ==
  /\ c \in callbacks[r] /\ c.does = "ongoing"
  /\ callbacks' = [callbacks EXCEPT ![r] = @ \ {c}]
  /\ ender' = IF Current(r, c) THEN [ender EXCEPT ![r].at = "second"] ELSE ender
  /\ \/ /\ card' = IF card = NoCard THEN NoCard ELSE c.step
        /\ stale' = (card # NoCard /\ ~Current(r, c))
        /\ NoFault
     \/ UNCHANGED <<card, stale>> /\ EndFault(r)
  /\ UNCHANGED <<now, store, graceVars, job, lifeVars, lost>>

(* Phase 2, or the flush, which waits for the callbacks that run. *)
SendEnded(r, c) ==
  /\ c \in callbacks[r]
  /\ c.does = "ended" \/ (c.does = "flush" /\ callbacks[r] = {c})
  /\ callbacks' = [callbacks EXCEPT ![r] = (@ \ {c}) \union {[c EXCEPT !.does = "delete"]}]
  /\ \/ card' = NoCard /\ stale' = FALSE /\ NoFault
     \/ UNCHANGED <<card, stale>> /\ EndFault(r)
  /\ UNCHANGED <<now, store, graceVars, job, ender, lifeVars, lost>>

DeleteEnded(r, c) ==
  /\ c \in callbacks[r] /\ c.does = "delete"
  /\ callbacks' = [callbacks EXCEPT ![r] = @ \ {c}]
  /\ ender' = IF Current(r, c) THEN [ender EXCEPT ![r].at = "none"] ELSE ender
  /\ \/ row' = NoRow /\ NoFault
     \/ UNCHANGED row /\ Fault
  /\ UNCHANGED <<now, tombstone, card, graceVars, job, stale, lifeVars, lost>>

EndStep(r) ==
  FireEnd(r) \/ \E c \in callbacks[r] : SendOngoing(r, c) \/ SendEnded(r, c) \/ DeleteEnded(r, c)

FlushAll(r) ==
  /\ draining[r] /\ ender[r].at # "none"
  /\ ender' = [ender EXCEPT ![r].at = "none"]
  /\ callbacks' = [callbacks EXCEPT ![r] =
       @ \union {[gen |-> ender[r].gen, does |-> "flush", step |-> ender[r].step]}]
  /\ UNCHANGED <<now, store, card, graceVars, job, stale, lifeVars, lost, used>>

(* The cleanup goroutine looks for a timer, reads the row, and takes the   *)
(* timer of an app that is not pending.  It holds h.mu in the first and    *)
(* the last of these, and the app's lock in none.                          *)
Sweep(r) ==
  \/ /\ sweep[r] = "idle" /\ entry[r] # NoTimer /\ Spend("sweeps")
     /\ sweep' = [sweep EXCEPT ![r] = "seen"]
     /\ UNCHANGED <<now, store, card, graceVars, job, endVars, draining, lost>>
  \/ /\ sweep[r] = "seen"
     /\ sweep' = [sweep EXCEPT ![r] = IF row.pending THEN "idle" ELSE "stale"]
     /\ UNCHANGED <<now, store, card, graceVars, job, endVars, draining, lost, used>>
  \/ /\ sweep[r] = "stale"
     /\ sweep' = [sweep EXCEPT ![r] = "idle"]
     /\ Drop(r)
     /\ lost' = (lost \/ row.pending)
     /\ UNCHANGED <<now, store, card, fired, job, endVars, draining, used>>

(* On shutdown, once the webhooks are served. *)
StopAll(r) ==
  /\ ~draining[r] /\ job[r].by \notin Events /\ Spend("restarts")
  /\ draining' = [draining EXCEPT ![r] = TRUE]
  /\ Drop(r)
  /\ lost' = TRUE
  /\ UNCHANGED <<now, store, card, fired, job, endVars, sweep>>

(* The process exits, its ends flushed, or dies anywhere; a new one starts. *)
Restart(r) ==
  /\ \/ draining[r] /\ ender[r].at = "none" /\ callbacks[r] = {} /\ UNCHANGED used
     \/ ~draining[r] /\ Spend("restarts")
  /\ timers' = [timers EXCEPT ![r] = {}] /\ entry' = [entry EXCEPT ![r] = NoTimer]
  /\ fired' = [fired EXCEPT ![r] = {}] /\ job' = [job EXCEPT ![r] = Free]
  /\ ender' = [ender EXCEPT ![r] = NoEnd] /\ callbacks' = [callbacks EXCEPT ![r] = {}]
  /\ sweep' = [sweep EXCEPT ![r] = "idle"] /\ draining' = [draining EXCEPT ![r] = FALSE]
  /\ lost' = TRUE
  /\ UNCHANGED <<now, store, card, stale>>

(* Timers fire on time.  Past LastEvent the clock waits for the handlers.  *)
Tick ==
  /\ now < Horizon
  /\ \A r \in Replicas : \A t \in timers[r] : t.at > now
  /\ now < LastEvent \/ \A r \in Replicas : job[r] = Free /\ fired[r] = {}
  /\ now' = now + 1
  /\ UNCHANGED <<store, card, graceVars, job, endVars, lifeVars, lost, used>>

(* Nothing is left to do but for a webhook to come. *)
Quiet ==
  /\ now = Horizon
  /\ \A r \in Replicas :
       /\ timers[r] = {} /\ fired[r] = {} /\ job[r] = Free
       /\ ender[r].at = "none" /\ callbacks[r] = {}
  /\ UNCHANGED vars

Next ==
  \/ \E r \in Replicas :
       \/ \E event \in Events, rev \in Revisions \union {NoRevision} : handleWebhook(r, event, rev)
       \/ \E t \in fired[r] : graceExpired(r, t)
       \/ Step(r) \/ Fire(r) \/ EndStep(r) \/ FlushAll(r)
       \/ Sweep(r) \/ StopAll(r) \/ Restart(r)
  \/ Tick \/ Quiet

(* Goroutines run, timers fire, time passes.  Nothing makes a webhook come, *)
(* a sweep start or a replica go.                                          *)
Fairness ==
  /\ WF_vars(Tick)
  /\ \A r \in Replicas :
       /\ WF_vars(Step(r)) /\ WF_vars(Fire(r))
       /\ WF_vars(\E t \in fired[r] : graceExpired(r, t))
       /\ WF_vars(EndStep(r)) /\ WF_vars(FlushAll(r))

Spec == Init /\ [][Next]_vars /\ Fairness

---------------------------------------------------------------------------
Served == \A r \in Replicas : job[r] = Free

\* Type correctness; the plan of a job is made of the steps above.
Apps == [rev : Revisions \union {NoRevision}, step : 0..3, pending : BOOLEAN, since : 0..now]
Steps ==
  [op : {"disarm", "arm", "armAnew", "create", "delete", "tombstone", "retry", "forget",
         "stopEnd", "skipIfTombstone"}]
  \union [op : {"save", "savePending", "backstop"}, app : Apps]
  \union [op : {"update", "scheduleEnd"}, step : 1..3]
  \union [op : {"load"}, rev : Revisions \union {NoRevision}]
Timers == [at : Nat, kind : Kinds]
Enders == [gen : Nat, at : {"none", "first", "second", "running"}, step : 0..3]
Callbacks == [gen : Nat, does : {"ongoing", "ended", "flush", "delete"}, step : 0..3]

TypeOK ==
  /\ now \in 1..Horizon /\ row \in Apps /\ tombstone \in Nat /\ card \in NoCard..3
  /\ timers \in [Replicas -> SUBSET Timers] /\ fired \in [Replicas -> SUBSET Timers]
  /\ entry \in [Replicas -> Timers \union {NoTimer}]
  /\ job \in [Replicas -> [by : Events \union Kinds \union {"none"}, todo : Seq(Steps)]]
  /\ ender \in [Replicas -> Enders] /\ callbacks \in [Replicas -> SUBSET Callbacks]
  /\ stale \in BOOLEAN
  /\ sweep \in [Replicas -> {"idle", "seen", "stale"}] /\ draining \in [Replicas -> BOOLEAN]
  /\ lost \in BOOLEAN /\ used \in [DOMAIN Limit -> Nat]

(* StopAll's comment: a pending app has a timer on some replica.  The one  *)
(* that held it may go; then the first webhook for the app to load the row,*)
(* on whichever replica, resolves it or leaves a timer behind.             *)
PendingIsTimed ==
  row.pending /\ Served /\ ~lost /\ used.faults = 0
    => \E r \in Replicas : timers[r] # {} \/ fired[r] # {}

(* handleSyncRunning, handleSyncSucceeded: while the tombstone of a        *)
(* deployed app lasts, events that arrive out of order open no grace       *)
(* period.  (One replica: the check and the save are not atomic.)          *)
TombstoneKeepsOut ==
  tombstone > now /\ Served /\ used.faults = 0 => ~row.pending

(* An app that is out of its grace period shows the step its row records,  *)
(* unless its activity has ended or an end of it is scheduled.  Nothing    *)
(* else shows another step but the frame of an end that StopTimer came too *)
(* late for, and this only until the next update.  (One replica.)          *)
CardShowsStep ==
  /\ TypeOK
  /\ LET shown == row # NoRow /\ ~row.pending /\ card # NoCard
         ends == \E r \in Replicas : ender[r].at # "none"
     IN shown /\ ~ends /\ ~stale /\ Served /\ used.faults = 0 /\ used.restarts = 0
          => card = row.step

(* A grace period ends, unless its timer goes with a replica.              *)
GraceEnds == row.pending ~> (~row.pending \/ lost)

(* StartCleanup: its sweep must not "delete a still-pending app's grace    *)
(* timer", because then the deferred activity is silently lost.            *)
SweepSparesPending ==
  [][\A r \in Replicas :
       /\ sweep[r] = "stale" /\ sweep'[r] = "idle" /\ UNCHANGED used
       /\ entry[r] # NoTimer
       => ~row.pending]_vars
============================================================================
