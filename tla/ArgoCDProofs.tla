---------------------------- MODULE ArgoCDProofs ----------------------------
EXTENDS ArgoCD, SequenceTheorems, TLAPS

LEMMA Join1And1 == \A a, b :
  <<a>> \o <<b>> = <<a, b>>
<1> SUFFICES ASSUME NEW a, NEW b
             PROVE  <<a>> \o <<b>> = <<a, b>>
  OBVIOUS
<1> DEFINE u == <<a>> \o <<b>>
<1>1. u \in Seq({a, b}) /\ Len(u) = 2
  OBVIOUS
<1>2. u[1] = a /\ u[2] = b
  OBVIOUS
<1> HIDE DEF u
<1>3. u = <<a, b>>
  BY <1>1, <1>2
<1>4. QED
  BY <1>3 DEF u

LEMMA Join1And2 == \A a, b, c :
  <<a>> \o <<b, c>> = <<a, b, c>>
<1> SUFFICES ASSUME NEW a, NEW b, NEW c
             PROVE  <<a>> \o <<b, c>> = <<a, b, c>>
  OBVIOUS
<1> DEFINE u == <<a>> \o <<b, c>>
<1>1. u \in Seq({a, b, c}) /\ Len(u) = 3
  OBVIOUS
<1>2. u[1] = a /\ u[2] = b /\ u[3] = c
  OBVIOUS
<1> HIDE DEF u
<1>3. u = <<a, b, c>>
  BY <1>1, <1>2
<1>4. QED
  BY <1>3 DEF u

LEMMA Join2And1 == \A a, b, c :
  <<a, b>> \o <<c>> = <<a, b, c>>
<1> SUFFICES ASSUME NEW a, NEW b, NEW c
             PROVE  <<a, b>> \o <<c>> = <<a, b, c>>
  OBVIOUS
<1> DEFINE u == <<a, b>> \o <<c>>
<1>1. u \in Seq({a, b, c}) /\ Len(u) = 3
  OBVIOUS
<1>2. u[1] = a /\ u[2] = b /\ u[3] = c
  OBVIOUS
<1> HIDE DEF u
<1>3. u = <<a, b, c>>
  BY <1>1, <1>2
<1>4. QED
  BY <1>3 DEF u

LEMMA Join3And1 == \A a, b, c, d :
  <<a, b, c>> \o <<d>> = <<a, b, c, d>>
<1> SUFFICES ASSUME NEW a, NEW b, NEW c, NEW d
             PROVE  <<a, b, c>> \o <<d>> = <<a, b, c, d>>
  OBVIOUS
<1> DEFINE u == <<a, b, c>> \o <<d>>
<1>1. u \in Seq({a, b, c, d}) /\ Len(u) = 4
  OBVIOUS
<1>2. u[1] = a /\ u[2] = b /\ u[3] = c /\ u[4] = d
  OBVIOUS
<1> HIDE DEF u
<1>3. u = <<a, b, c, d>>
  BY <1>1, <1>2
<1>4. QED
  BY <1>3 DEF u

LEMMA Join3And2 == \A a, b, c, d, e :
  <<a, b, c>> \o <<d, e>> = <<a, b, c, d, e>>
<1> SUFFICES ASSUME NEW a, NEW b, NEW c, NEW d, NEW e
             PROVE  <<a, b, c>> \o <<d, e>> = <<a, b, c, d, e>>
  OBVIOUS
<1> DEFINE u == <<a, b, c>> \o <<d, e>>
<1>1. u \in Seq({a, b, c, d, e}) /\ Len(u) = 5
  OBVIOUS
<1>2. u[1] = a /\ u[2] = b /\ u[3] = c /\ u[4] = d /\ u[5] = e
  OBVIOUS
<1> HIDE DEF u
<1>3. u = <<a, b, c, d, e>>
  BY <1>1, <1>2
<1>4. QED
  BY <1>3 DEF u

LEMMA JoinArm == \A a, b, c, d :
  <<>> \o <<a>> \o <<>> \o <<b>> \o <<c, d>> = <<a, b, c, d>>
<1> SUFFICES ASSUME NEW a, NEW b, NEW c, NEW d
             PROVE  <<>> \o <<a>> \o <<>> \o <<b>> \o <<c, d>> = <<a, b, c, d>>
  OBVIOUS
<1> DEFINE u == <<>> \o <<a>> \o <<>> \o <<b>> \o <<c, d>>
<1>1. u \in Seq({a, b, c, d}) /\ Len(u) = 4
  OBVIOUS
<1>2. u[1] = a /\ u[2] = b /\ u[3] = c /\ u[4] = d
  OBVIOUS
<1> HIDE DEF u
<1>3. u = <<a, b, c, d>>
  BY <1>1, <1>2
<1>4. QED
  BY <1>3 DEF u

LEMMA JoinCreate == \A a, b, c, d :
  <<>> \o <<a>> \o <<>> \o <<b>> \o (<<c>> \o <<d>>) = <<a, b, c, d>>
<1> SUFFICES ASSUME NEW a, NEW b, NEW c, NEW d
             PROVE  <<>> \o <<a>> \o <<>> \o <<b>> \o (<<c>> \o <<d>>) = <<a, b, c, d>>
  OBVIOUS
<1> DEFINE u == <<>> \o <<a>> \o <<>> \o <<b>> \o (<<c>> \o <<d>>)
<1>1. u \in Seq({a, b, c, d}) /\ Len(u) = 4
  OBVIOUS
<1>2. u[1] = a /\ u[2] = b /\ u[3] = c /\ u[4] = d
  OBVIOUS
<1> HIDE DEF u
<1>3. u = <<a, b, c, d>>
  BY <1>1, <1>2
<1>4. QED
  BY <1>3 DEF u

LEMMA JoinDisarmArm == \A a, b, c, d, e :
  <<>> \o <<a>> \o <<b>> \o <<c>> \o <<d, e>> = <<a, b, c, d, e>>
<1> SUFFICES ASSUME NEW a, NEW b, NEW c, NEW d, NEW e
             PROVE  <<>> \o <<a>> \o <<b>> \o <<c>> \o <<d, e>> = <<a, b, c, d, e>>
  OBVIOUS
<1> DEFINE u == <<>> \o <<a>> \o <<b>> \o <<c>> \o <<d, e>>
<1>1. u \in Seq({a, b, c, d, e}) /\ Len(u) = 5
  OBVIOUS
<1>2. u[1] = a /\ u[2] = b /\ u[3] = c /\ u[4] = d /\ u[5] = e
  OBVIOUS
<1> HIDE DEF u
<1>3. u = <<a, b, c, d, e>>
  BY <1>1, <1>2
<1>4. QED
  BY <1>3 DEF u

LEMMA JoinDisarmCreate == \A a, b, c, d, e :
  <<>> \o <<a>> \o <<b>> \o <<c>> \o (<<d>> \o <<e>>) = <<a, b, c, d, e>>
<1> SUFFICES ASSUME NEW a, NEW b, NEW c, NEW d, NEW e
             PROVE  <<>> \o <<a>> \o <<b>> \o <<c>> \o (<<d>> \o <<e>>) = <<a, b, c, d, e>>
  OBVIOUS
<1> DEFINE u == <<>> \o <<a>> \o <<b>> \o <<c>> \o (<<d>> \o <<e>>)
<1>1. u \in Seq({a, b, c, d, e}) /\ Len(u) = 5
  OBVIOUS
<1>2. u[1] = a /\ u[2] = b /\ u[3] = c /\ u[4] = d /\ u[5] = e
  OBVIOUS
<1> HIDE DEF u
<1>3. u = <<a, b, c, d, e>>
  BY <1>1, <1>2
<1>4. QED
  BY <1>3 DEF u

LEMMA JoinPromoted == \A a, b, c, d, e, f :
  <<a, b, c>> \o <<d>> \o <<>> \o <<e>> \o (<<>> \o <<f>>) = <<a, b, c, d, e, f>>
<1> SUFFICES ASSUME NEW a, NEW b, NEW c, NEW d, NEW e, NEW f
             PROVE  <<a, b, c>> \o <<d>> \o <<>> \o <<e>> \o (<<>> \o <<f>>) = <<a, b, c, d, e, f>>
  OBVIOUS
<1> DEFINE u == <<a, b, c>> \o <<d>> \o <<>> \o <<e>> \o (<<>> \o <<f>>)
<1>1. u \in Seq({a, b, c, d, e, f}) /\ Len(u) = 6
  OBVIOUS
<1>2. u[1] = a /\ u[2] = b /\ u[3] = c /\ u[4] = d /\ u[5] = e /\ u[6] = f
  OBVIOUS
<1> HIDE DEF u
<1>3. u = <<a, b, c, d, e, f>>
  BY <1>1, <1>2
<1>4. QED
  BY <1>3 DEF u

LEMMA JoinStep == \A a, b, c :
  <<>> \o <<a>> \o <<>> \o <<b>> \o (<<>> \o <<c>>) = <<a, b, c>>
<1> SUFFICES ASSUME NEW a, NEW b, NEW c
             PROVE  <<>> \o <<a>> \o <<>> \o <<b>> \o (<<>> \o <<c>>) = <<a, b, c>>
  OBVIOUS
<1> DEFINE u == <<>> \o <<a>> \o <<>> \o <<b>> \o (<<>> \o <<c>>)
<1>1. u \in Seq({a, b, c}) /\ Len(u) = 3
  OBVIOUS
<1>2. u[1] = a /\ u[2] = b /\ u[3] = c
  OBVIOUS
<1> HIDE DEF u
<1>3. u = <<a, b, c>>
  BY <1>1, <1>2
<1>4. QED
  BY <1>3 DEF u


LEMMA JoinNone1 == \A a : <<>> \o <<a>> = <<a>>
  OBVIOUS

LEMMA JoinNone2 == \A a, b : <<>> \o <<a, b>> = <<a, b>>
  OBVIOUS

LEMMA JoinNone3 == \A a, b, c : <<>> \o <<a, b, c>> = <<a, b, c>>
  OBVIOUS

LEMMA Join2AndNone == \A a, b : <<a, b>> \o <<>> = <<a, b>>
  OBVIOUS

Revs == Revisions \union {NoRevision}
LiveApps == [rev : Revs, step : 1..3, pending : BOOLEAN, since : 0..now]
LiveRows == {NoRow} \union LiveApps

Simple == {"disarm", "arm", "armAnew", "create", "delete", "tombstone", "retry", "forget",
           "stopEnd", "skipIfTombstone"}
LiveSteps ==
  [op : Simple] \union [op : {"save", "savePending", "backstop"}, app : LiveApps]
  \union [op : {"update", "scheduleEnd"}, step : 1..3] \union [op : {"load"}, rev : Revs]
Todos == Seq(LiveSteps) \ {<<>>}
Jobs == {Free} \union [by : Events \union Kinds, todo : Todos]

ClockTyped == now \in 1..Horizon /\ tombstone \in Nat
RowTyped == row \in LiveRows /\ card \in NoCard..3
TimersTyped ==
  /\ timers \in [Replicas -> SUBSET Timers] /\ fired \in [Replicas -> SUBSET Timers]
  /\ entry \in [Replicas -> Timers \union {NoTimer}]
JobsTyped == job \in [Replicas -> Jobs]
FlagsTyped ==
  /\ ender \in [Replicas -> Enders] /\ callbacks \in [Replicas -> SUBSET Callbacks]
  /\ stale \in BOOLEAN
  /\ sweep \in [Replicas -> {"idle", "seen", "stale"}] /\ draining \in [Replicas -> BOOLEAN]
  /\ lost \in BOOLEAN /\ used \in [DOMAIN Limit -> Nat]
TInv == ClockTyped /\ RowTyped /\ TimersTyped /\ JobsTyped /\ FlagsTyped

PendingWrite(x) == x.op = "savePending" \/ (x.op = "save" /\ x.app.pending)
Arms(x) == x.op \in {"arm", "armAnew", "backstop"}
Shows(x) == x.op = "delete" \/ (x.op = "save" /\ ~x.app.pending)
Harmless(x) ==
  x.op \in {"disarm", "arm", "armAnew", "tombstone", "forget", "skipIfTombstone", "load", "backstop"}

\* Whatever the card shows now, it shows the row's step when todo is done.
Restores(todo) ==
  LET n == Len(todo) IN
  \E i \in 1..n :
    \/ todo[i].op = "scheduleEnd" /\ i = n
    \/ /\ PendingWrite(todo[i]) \/ todo[i].op = "delete"
       /\ \A j \in (i + 1)..n : Harmless(todo[j])
    \/ /\ todo[i].op = "save" /\ i < n
       /\ todo[n].op = "update" /\ todo[n].step = todo[i].app.step
       /\ \A j \in (i + 1)..(n - 1) : todo[j].op = "create"

\* What the invariants need of the plan of a handler that has loaded a row.
Sound(by, loaded, todo) ==
  /\ todo \in Todos
  /\ \A i \in 1..Len(todo) : todo[i].op \notin {"load", "retry"}
  /\ \A i \in 1..Len(todo) : todo[i].op = "skipIfTombstone" => i = 1
  /\ Grace > 0 =>
       \A i \in 1..Len(todo) :
         PendingWrite(todo[i]) => \E j \in (i + 1)..Len(todo) : Arms(todo[j])
  /\ \A i \in 1..Len(todo) :
       todo[i].op = "disarm" => \E j \in (i + 1)..Len(todo) : Shows(todo[j])
  /\ by \in Kinds => todo[1].op \in {"disarm", "forget"}
  /\ \A i \in 1..Len(todo) : todo[i].op = "tombstone" =>
       /\ \A j \in 1..Len(todo) : ~PendingWrite(todo[j])
       /\ ~loaded.pending \/ \E j \in 1..(i - 1) : todo[j].op = "delete"
  /\ \A i \in 1..Len(todo) : PendingWrite(todo[i]) =>
       loaded.pending \/ by = "sync-running" \/ todo[1].op = "skipIfTombstone"
  /\ loaded.pending /\ Grace > 0 =>
       /\ \A i \in 1..Len(todo) : todo[i].op # "skipIfTombstone"
       /\ \E i \in 1..Len(todo) : Arms(todo[i]) \/ Shows(todo[i])
  /\ \/ Restores(todo)
     \/ \A i \in 1..Len(todo) : Harmless(todo[i])
     \/ Len(todo) = 1 /\ todo[1].op = "update" /\ todo[1].step = loaded.step

Renews(loaded, rev) == loaded = NoRow \/ (rev # NoRevision /\ loaded.rev # rev)

\* When the app is shown first, and what it is then.
LEMMA Overdue ==
  /\ ~overdue(NoRow)
  /\ \A app : overdue(app) =>
       /\ app.pending /\ Promoted(app) = Shown(app)
       /\ Promote(app) = <<Do("disarm"), Save(Shown(app)), Do("create")>>
  /\ \A app : ~overdue(app) => Promoted(app) = app /\ Promote(app) = <<>>
<1>1. ~overdue(NoRow)
  BY DEF overdue, NoRow, App
<1>2. ASSUME NEW app, overdue(app)
      PROVE  /\ app.pending /\ Promoted(app) = Shown(app)
             /\ Promote(app) = <<Do("disarm"), Save(Shown(app)), Do("create")>>
  <2>1. app.pending
    BY <1>2 DEF overdue
  <2>2. QED
    BY <1>2, <2>1 DEF Promoted, Promote, When, materialize
<1>3. ASSUME NEW app, ~overdue(app) PROVE Promoted(app) = app /\ Promote(app) = <<>>
  BY <1>3 DEF Promoted, Promote, When
<1>4. QED
  BY <1>1, <1>2, <1>3

LEMMA RowParts ==
  ASSUME NEW app \in LiveRows
  PROVE  /\ app.pending \in BOOLEAN
         /\ app.pending => app # NoRow
         /\ app # NoRow => app \in LiveApps /\ app.step # 0
         /\ app # NoRow => Shown(app) # NoRow /\ ~Shown(app).pending /\ Shown(app).step = app.step
<1>1. CASE app = NoRow
  BY <1>1 DEF NoRow, App
<1>2. CASE app # NoRow
  <2>1. app \in LiveApps
    BY <1>2 DEF LiveRows
  <2>2. app.pending \in BOOLEAN /\ app.step \in 1..3
    BY <2>1 DEF LiveApps
  <2>3. ~Shown(app).pending /\ Shown(app).step = app.step
    BY <2>1 DEF LiveApps, Shown
  <2>4. NoRow.step = 0
    BY DEF NoRow, App
  <2>5. QED
    BY <1>2, <2>1, <2>2, <2>3, <2>4
<1>3. QED
  BY <1>1, <1>2

LEMMA StepsTyped ==
  /\ \A op \in Simple : Do(op) \in LiveSteps /\ Do(op).op = op
  /\ \A app \in LiveApps :
       /\ Save(app) \in LiveSteps /\ Save(app).op = "save" /\ Save(app).app = app
       /\ SavePending(app) \in LiveSteps /\ SavePending(app).op = "savePending"
       /\ Backstop(app) \in LiveSteps /\ Backstop(app).op = "backstop"
  /\ \A step \in 1..3 :
       /\ Update(step) \in LiveSteps /\ Update(step).op = "update" /\ Update(step).step = step
       /\ ScheduleEnd(step) \in LiveSteps /\ ScheduleEnd(step).op = "scheduleEnd"
  /\ \A rev \in Revs : Load(rev) \in LiveSteps /\ Load(rev).op = "load" /\ Load(rev).rev = rev
BY DEF LiveSteps, Do, Save, SavePending, Backstop, Update, ScheduleEnd, Load

LEMMA AppsTyped ==
  ASSUME now \in Nat
  PROVE  /\ \A rev \in Revs, step \in 1..3 :
              /\ Fresh(rev, step) \in LiveApps /\ Fresh(rev, step).step = step
              /\ ~Fresh(rev, step).pending
         /\ \A app \in LiveApps, step \in 1..3 :
              /\ AtStep(app, step) \in LiveApps /\ AtStep(app, step).step = step
              /\ AtStep(app, step).pending = app.pending
         /\ \A app \in LiveApps :
              /\ Shown(app) \in LiveApps /\ ~Shown(app).pending
              /\ Shown(app).step = app.step
<1>1. ASSUME NEW rev \in Revs, NEW step \in 1..3
      PROVE  /\ Fresh(rev, step) \in LiveApps /\ Fresh(rev, step).step = step
             /\ ~Fresh(rev, step).pending
  BY <1>1 DEF LiveApps, Fresh, App
<1>2. ASSUME NEW app \in LiveApps, NEW step \in 1..3
      PROVE  /\ AtStep(app, step) \in LiveApps /\ AtStep(app, step).step = step
             /\ AtStep(app, step).pending = app.pending
  BY DEF LiveApps, AtStep
<1>3. ASSUME NEW app \in LiveApps
      PROVE  /\ Shown(app) \in LiveApps /\ ~Shown(app).pending
             /\ Shown(app).step = app.step
  <2>1. PICK s : s = [app EXCEPT !.pending = FALSE, !.since = 0]
    OBVIOUS
  <2>2. s = [rev |-> app.rev, step |-> app.step, pending |-> FALSE, since |-> 0]
    BY <2>1 DEF LiveApps
  <2>3. s \in LiveApps /\ ~s.pending /\ s.step = app.step
    BY <2>2 DEF LiveApps
  <2>4. QED
    BY <2>1, <2>3 DEF Shown
<1>4. QED
  BY <1>1, <1>2, <1>3, Zenon

LEMMA Tuple1Typed == \A a \in LiveSteps : <<a>> \in Todos
BY DEF Todos

LEMMA Tuple2Typed == \A a, b \in LiveSteps : <<a, b>> \in Todos
BY DEF Todos

LEMMA Tuple3Typed == \A a, b, c \in LiveSteps : <<a, b, c>> \in Todos
BY DEF Todos

LEMMA Tuple4Typed == \A a, b, c, d \in LiveSteps : <<a, b, c, d>> \in Todos
BY DEF Todos

LEMMA PlanIs ==
  ASSUME NEW app, NEW rev
  PROVE  /\ Plan("sync-running", app, rev) = SyncRunningPlan(app, rev)
         /\ Plan("sync-succeeded", app, rev) = SyncSucceededPlan(app, rev)
         /\ Plan("deployed", app, rev) = DeployedPlan(app, rev)
         /\ Plan("sync-failed", app, rev) = SyncFailedPlan(app, rev)
         /\ Plan("health-degraded", app, rev) = HealthDegradedPlan(app, rev)
         /\ \A kind \in Kinds : Plan(kind, app, rev) = GraceExpiredPlan(app)
<1>1. /\ "sync-running" \notin Kinds /\ "sync-succeeded" \notin Kinds /\ "deployed" \notin Kinds
      /\ "sync-failed" \notin Kinds /\ "health-degraded" \notin Kinds
  BY DEF Kinds
<1>2. Plan("sync-running", app, rev) = SyncRunningPlan(app, rev)
  BY <1>1, Zenon DEF Plan
<1>3. Plan("sync-succeeded", app, rev) = SyncSucceededPlan(app, rev)
  BY <1>1, Zenon DEF Plan
<1>4. Plan("deployed", app, rev) = DeployedPlan(app, rev)
  BY <1>1, Zenon DEF Plan
<1>5. Plan("sync-failed", app, rev) = SyncFailedPlan(app, rev)
  BY <1>1, Zenon DEF Plan
<1>6. Plan("health-degraded", app, rev) = HealthDegradedPlan(app, rev)
  BY <1>1, Zenon DEF Plan
<1>7. ASSUME NEW kind \in Kinds PROVE Plan(kind, app, rev) = GraceExpiredPlan(app)
  <2>1. /\ kind # "sync-running" /\ kind # "sync-succeeded" /\ kind # "deployed"
        /\ kind # "sync-failed" /\ kind # "health-degraded"
    BY <1>1
  <2>2. QED
    BY <1>7, <2>1, Zenon DEF Plan
<1>8. QED
  BY <1>2, <1>3, <1>4, <1>5, <1>6, <1>7

\* handleSyncRunning.
LEMMA SyncRunningSound ==
  ASSUME NEW loaded \in LiveRows, NEW rev \in Revs, now \in Nat, Grace \in Nat
  PROVE  Sound("sync-running", loaded, SyncRunningPlan(loaded, rev))
<1> DEFINE plan == SyncRunningPlan(loaded, rev)
           fresh == Fresh(rev, 1)
           kept == AtStep(loaded, 1)
           shown == AtStep(Shown(loaded), 1)
<1>1. fresh \in LiveApps /\ ~fresh.pending /\ fresh.step = 1
  BY AppsTyped
<1>2. loaded # NoRow =>
        /\ loaded \in LiveApps /\ Shown(loaded) \in LiveApps
        /\ ~Shown(loaded).pending /\ Shown(loaded).step = loaded.step
        /\ kept \in LiveApps /\ (kept.pending <=> loaded.pending) /\ kept.step = 1
        /\ shown \in LiveApps /\ ~shown.pending /\ shown.step = 1
  BY RowParts, AppsTyped
<1>3. /\ Do("stopEnd") \in LiveSteps /\ Do("disarm") \in LiveSteps /\ Do("create") \in LiveSteps
      /\ Do("arm") \in LiveSteps /\ Do("armAnew") \in LiveSteps /\ Do("delete") \in LiveSteps
      /\ Do("tombstone") \in LiveSteps /\ ScheduleEnd(3) \in LiveSteps
      /\ Do("forget") \in LiveSteps /\ Do("skipIfTombstone") \in LiveSteps
      /\ Update(1) \in LiveSteps /\ Update(2) \in LiveSteps
  BY StepsTyped DEF Simple
<1>4. /\ fresh \in LiveApps => Save(fresh) \in LiveSteps /\ SavePending(fresh) \in LiveSteps
      /\ loaded # NoRow => Save(Shown(loaded)) \in LiveSteps /\ Backstop(loaded) \in LiveSteps
      /\ loaded # NoRow => Save(kept) \in LiveSteps /\ SavePending(kept) \in LiveSteps
      /\ loaded # NoRow => Save(shown) \in LiveSteps
  BY <1>1, <1>2, StepsTyped, RowParts
<1>5. CASE Renews(loaded, rev) /\ loaded = NoRow /\ Grace > 0
  <2>1. plan = <<>> \o <<Do("stopEnd")>> \o <<>> \o <<Save(fresh)>> \o <<SavePending(fresh), Do("arm")>>
    BY <1>5 DEF SyncRunningPlan, When, Renews
  <2>2. @ = <<Do("stopEnd"), Save(fresh), SavePending(fresh), Do("arm")>>
    BY JoinArm, Zenon
  <2>3. /\ Len(plan) = 4 /\ plan[1].op = "stopEnd" /\ plan[2].op = "save"
        /\ plan[2].app = fresh /\ plan[3].op = "savePending" /\ plan[4].op = "arm"
    BY <2>1, <2>2 DEF Do, Save, SavePending, Backstop, Update, ScheduleEnd
  <2>4. plan \in Todos
    <3>1. /\ Do("stopEnd") \in LiveSteps /\ Save(fresh) \in LiveSteps
          /\ SavePending(fresh) \in LiveSteps /\ Do("arm") \in LiveSteps
      BY <1>5, <1>1, <1>2, <1>3, <1>4
    <3>2. QED
      BY <2>1, <2>2, <3>1, Tuple4Typed, Zenon
  <2>5. Restores(plan)
    <3>1. \A j \in (3 + 1)..4 : Harmless(plan[j])
      BY <2>3 DEF Harmless
    <3>2. QED
      BY <3>1, <2>3, <1>5, <1>1, <1>2 DEF Restores, PendingWrite
  <2>6. QED
    BY <2>3, <2>4, <2>5, <1>5, <1>1, <1>2 DEF Sound, PendingWrite, Arms, Shows, Harmless, Events, Kinds
<1>6. CASE Renews(loaded, rev) /\ loaded = NoRow /\ Grace = 0
  <2>1. plan = <<>> \o <<Do("stopEnd")>> \o <<>> \o <<Save(fresh)>> \o (<<Do("create")>> \o <<Update(1)>>)
    BY <1>6 DEF SyncRunningPlan, When, Renews
  <2>2. @ = <<Do("stopEnd"), Save(fresh), Do("create"), Update(1)>>
    BY JoinCreate, Zenon
  <2>3. /\ Len(plan) = 4 /\ plan[1].op = "stopEnd" /\ plan[2].op = "save"
        /\ plan[2].app = fresh /\ plan[3].op = "create" /\ plan[4].op = "update"
        /\ plan[4].step = 1
    BY <2>1, <2>2 DEF Do, Save, SavePending, Backstop, Update, ScheduleEnd
  <2>4. plan \in Todos
    <3>1. /\ Do("stopEnd") \in LiveSteps /\ Save(fresh) \in LiveSteps
          /\ Do("create") \in LiveSteps /\ Update(1) \in LiveSteps
      BY <1>6, <1>1, <1>2, <1>3, <1>4
    <3>2. QED
      BY <2>1, <2>2, <3>1, Tuple4Typed, Zenon
  <2>5. Restores(plan)
    <3>1. \A j \in (2 + 1)..(4 - 1) : plan[j].op = "create"
      BY <2>3
    <3>2. QED
      BY <3>1, <2>3, <1>6, <1>1, <1>2 DEF Restores, PendingWrite
  <2>6. QED
    BY <2>3, <2>4, <2>5, <1>6, <1>1, <1>2 DEF Sound, PendingWrite, Arms, Shows, Harmless, Events, Kinds
<1>7. CASE Renews(loaded, rev) /\ loaded # NoRow /\ Grace > 0
  <2>1. plan = <<>> \o <<Do("stopEnd")>> \o <<Do("disarm")>> \o <<Save(fresh)>>
               \o <<SavePending(fresh), Do("arm")>>
    BY <1>7 DEF SyncRunningPlan, When, Renews
  <2>2. @ = <<Do("stopEnd"), Do("disarm"), Save(fresh), SavePending(fresh), Do("arm")>>
    BY JoinDisarmArm, Zenon
  <2>3. /\ Len(plan) = 5 /\ plan[1].op = "stopEnd" /\ plan[2].op = "disarm"
        /\ plan[3].op = "save" /\ plan[3].app = fresh /\ plan[4].op = "savePending"
        /\ plan[5].op = "arm"
    BY <2>1, <2>2 DEF Do, Save, SavePending, Backstop, Update, ScheduleEnd
  <2>4. plan \in Todos
    <3>1. /\ Do("stopEnd") \in LiveSteps /\ Do("disarm") \in LiveSteps
          /\ Save(fresh) \in LiveSteps /\ SavePending(fresh) \in LiveSteps
          /\ Do("arm") \in LiveSteps
      BY <1>7, <1>1, <1>2, <1>3, <1>4
    <3>2. QED
      BY <2>1, <2>2, <3>1 DEF Todos
  <2>5. Restores(plan)
    <3>1. \A j \in (4 + 1)..5 : Harmless(plan[j])
      BY <2>3 DEF Harmless
    <3>2. QED
      BY <3>1, <2>3, <1>7, <1>1, <1>2 DEF Restores, PendingWrite
  <2>6. QED
    BY <2>3, <2>4, <2>5, <1>7, <1>1, <1>2 DEF Sound, PendingWrite, Arms, Shows, Harmless, Events, Kinds
<1>8. CASE Renews(loaded, rev) /\ loaded # NoRow /\ Grace = 0
  <2>1. plan = <<>> \o <<Do("stopEnd")>> \o <<Do("disarm")>> \o <<Save(fresh)>>
               \o (<<Do("create")>> \o <<Update(1)>>)
    BY <1>8 DEF SyncRunningPlan, When, Renews
  <2>2. @ = <<Do("stopEnd"), Do("disarm"), Save(fresh), Do("create"), Update(1)>>
    BY JoinDisarmCreate, Zenon
  <2>3. /\ Len(plan) = 5 /\ plan[1].op = "stopEnd" /\ plan[2].op = "disarm"
        /\ plan[3].op = "save" /\ plan[3].app = fresh /\ plan[4].op = "create"
        /\ plan[5].op = "update" /\ plan[5].step = 1
    BY <2>1, <2>2 DEF Do, Save, SavePending, Backstop, Update, ScheduleEnd
  <2>4. plan \in Todos
    <3>1. /\ Do("stopEnd") \in LiveSteps /\ Do("disarm") \in LiveSteps
          /\ Save(fresh) \in LiveSteps /\ Do("create") \in LiveSteps
          /\ Update(1) \in LiveSteps
      BY <1>8, <1>1, <1>2, <1>3, <1>4
    <3>2. QED
      BY <2>1, <2>2, <3>1 DEF Todos
  <2>5. Restores(plan)
    <3>1. \A j \in (3 + 1)..(5 - 1) : plan[j].op = "create"
      BY <2>3
    <3>2. QED
      BY <3>1, <2>3, <1>8, <1>1, <1>2 DEF Restores, PendingWrite
  <2>6. QED
    BY <2>3, <2>4, <2>5, <1>8, <1>1, <1>2 DEF Sound, PendingWrite, Arms, Shows, Harmless, Events, Kinds
<1>9. CASE ~Renews(loaded, rev) /\ overdue(loaded)
  <2>1. loaded # NoRow /\ loaded.pending
    BY <1>9, Overdue DEF Renews
  <2>2. ~AtStep(Shown(loaded), 1).pending
    BY <2>1, <1>2
  <2>3. plan = <<Do("disarm"), Save(Shown(loaded)), Do("create")>>
               \o <<Do("stopEnd")>> \o <<>> \o <<Save(shown)>> \o (<<>> \o <<Update(1)>>)
    BY <1>9, <2>1, <2>2, Overdue DEF SyncRunningPlan, When, Renews
  <2>4. @ = <<Do("disarm"), Save(Shown(loaded)), Do("create"), Do("stopEnd"), Save(shown), Update(1)>>
    BY JoinPromoted
  <2>5. /\ Len(plan) = 6 /\ plan[1].op = "disarm" /\ plan[2].op = "save"
        /\ plan[2].app = Shown(loaded) /\ plan[3].op = "create" /\ plan[4].op = "stopEnd"
        /\ plan[5].op = "save" /\ plan[5].app = shown /\ plan[6].op = "update"
        /\ plan[6].step = 1
    BY <2>3, <2>4 DEF Do, Save, SavePending, Backstop, Update, ScheduleEnd
  <2>6. plan \in Todos
    <3>1. /\ Do("disarm") \in LiveSteps /\ Save(Shown(loaded)) \in LiveSteps
          /\ Do("create") \in LiveSteps /\ Do("stopEnd") \in LiveSteps
          /\ Save(shown) \in LiveSteps /\ Update(1) \in LiveSteps
      BY <1>9, <2>1, <2>2, <1>1, <1>2, <1>3, <1>4
    <3>2. QED
      BY <2>3, <2>4, <3>1 DEF Todos
  <2>7. Restores(plan)
    <3>1. \A j \in (5 + 1)..(6 - 1) : plan[j].op = "create"
      BY <2>5
    <3>2. QED
      BY <3>1, <2>5, <1>9, <2>1, <2>2, <1>1, <1>2 DEF Restores, PendingWrite
  <2>8. QED
    BY <2>5, <2>6, <2>7, <1>9, <2>1, <2>2, <1>1, <1>2 DEF Sound, PendingWrite, Arms, Shows, Harmless, Events, Kinds
<1>10. CASE ~Renews(loaded, rev) /\ ~overdue(loaded) /\ Grace > 0 /\ loaded.pending
  <2>1. loaded # NoRow
    BY <1>10 DEF Renews
  <2>2. AtStep(loaded, 1).pending <=> loaded.pending
    BY <2>1, <1>2
  <2>3. plan = <<>> \o <<Do("stopEnd")>> \o <<>> \o <<Save(kept)>> \o <<SavePending(kept), Do("arm")>>
    BY <1>10, <2>1, <2>2, Overdue DEF SyncRunningPlan, When, Renews
  <2>4. @ = <<Do("stopEnd"), Save(kept), SavePending(kept), Do("arm")>>
    BY JoinArm, Zenon
  <2>5. /\ Len(plan) = 4 /\ plan[1].op = "stopEnd" /\ plan[2].op = "save"
        /\ plan[2].app = kept /\ plan[3].op = "savePending" /\ plan[4].op = "arm"
    BY <2>3, <2>4 DEF Do, Save, SavePending, Backstop, Update, ScheduleEnd
  <2>6. plan \in Todos
    <3>1. /\ Do("stopEnd") \in LiveSteps /\ Save(kept) \in LiveSteps
          /\ SavePending(kept) \in LiveSteps /\ Do("arm") \in LiveSteps
      BY <1>10, <2>1, <2>2, <1>1, <1>2, <1>3, <1>4
    <3>2. QED
      BY <2>3, <2>4, <3>1, Tuple4Typed, Zenon
  <2>7. Restores(plan)
    <3>1. \A j \in (3 + 1)..4 : Harmless(plan[j])
      BY <2>5 DEF Harmless
    <3>2. QED
      BY <3>1, <2>5, <1>10, <2>1, <2>2, <1>1, <1>2 DEF Restores, PendingWrite
  <2>8. QED
    BY <2>5, <2>6, <2>7, <1>10, <2>1, <2>2, <1>1, <1>2 DEF Sound, PendingWrite, Arms, Shows, Harmless, Events, Kinds
<1>11. CASE ~Renews(loaded, rev) /\ ~overdue(loaded) /\ (Grace = 0 \/ ~loaded.pending)
  <2>1. loaded # NoRow
    BY <1>11 DEF Renews
  <2>2. AtStep(loaded, 1).pending <=> loaded.pending
    BY <2>1, <1>2
  <2>3. plan = <<>> \o <<Do("stopEnd")>> \o <<>> \o <<Save(kept)>> \o (<<>> \o <<Update(1)>>)
    BY <1>11, <2>1, <2>2, Overdue DEF SyncRunningPlan, When, Renews
  <2>4. @ = <<Do("stopEnd"), Save(kept), Update(1)>>
    BY JoinStep, Zenon
  <2>5. /\ Len(plan) = 3 /\ plan[1].op = "stopEnd" /\ plan[2].op = "save"
        /\ plan[2].app = kept /\ plan[3].op = "update" /\ plan[3].step = 1
    BY <2>3, <2>4 DEF Do, Save, SavePending, Backstop, Update, ScheduleEnd
  <2>6. plan \in Todos
    <3>1. /\ Do("stopEnd") \in LiveSteps /\ Save(kept) \in LiveSteps
          /\ Update(1) \in LiveSteps
      BY <1>11, <2>1, <2>2, <1>1, <1>2, <1>3, <1>4
    <3>2. QED
      BY <2>3, <2>4, <3>1, Tuple3Typed, Zenon
  <2>7. Restores(plan)
    <3>1. \A j \in (2 + 1)..(3 - 1) : plan[j].op = "create"
      BY <2>5
    <3>2. QED
      BY <3>1, <2>5, <1>11, <2>1, <2>2, <1>1, <1>2 DEF Restores, PendingWrite
  <2>8. QED
    BY <2>5, <2>6, <2>7, <1>11, <2>1, <2>2, <1>1, <1>2 DEF Sound, PendingWrite, Arms, Shows, Harmless, Events, Kinds
<1>12. QED
  BY <1>5, <1>6, <1>7, <1>8, <1>9, <1>10, <1>11, RowParts

\* handleSyncSucceeded.
LEMMA SyncSucceededSound ==
  ASSUME NEW loaded \in LiveRows, NEW rev \in Revs, now \in Nat, Grace \in Nat
  PROVE  Sound("sync-succeeded", loaded, SyncSucceededPlan(loaded, rev))
<1> DEFINE plan == SyncSucceededPlan(loaded, rev)
           fresh == Fresh(rev, 2)
           kept == AtStep(loaded, 2)
           shown == AtStep(Shown(loaded), 2)
<1>1. fresh \in LiveApps /\ ~fresh.pending /\ fresh.step = 2
  BY AppsTyped
<1>2. loaded # NoRow =>
        /\ loaded \in LiveApps /\ Shown(loaded) \in LiveApps
        /\ ~Shown(loaded).pending /\ Shown(loaded).step = loaded.step
        /\ kept \in LiveApps /\ (kept.pending <=> loaded.pending) /\ kept.step = 2
        /\ shown \in LiveApps /\ ~shown.pending /\ shown.step = 2
  BY RowParts, AppsTyped
<1>3. /\ Do("stopEnd") \in LiveSteps /\ Do("disarm") \in LiveSteps /\ Do("create") \in LiveSteps
      /\ Do("arm") \in LiveSteps /\ Do("armAnew") \in LiveSteps /\ Do("delete") \in LiveSteps
      /\ Do("tombstone") \in LiveSteps /\ ScheduleEnd(3) \in LiveSteps
      /\ Do("forget") \in LiveSteps /\ Do("skipIfTombstone") \in LiveSteps
      /\ Update(1) \in LiveSteps /\ Update(2) \in LiveSteps
  BY StepsTyped DEF Simple
<1>4. /\ fresh \in LiveApps => Save(fresh) \in LiveSteps /\ SavePending(fresh) \in LiveSteps
      /\ loaded # NoRow => Save(Shown(loaded)) \in LiveSteps /\ Backstop(loaded) \in LiveSteps
      /\ loaded # NoRow => Save(kept) \in LiveSteps /\ SavePending(kept) \in LiveSteps
      /\ loaded # NoRow => Save(shown) \in LiveSteps
  BY <1>1, <1>2, StepsTyped, RowParts
<1>5. CASE overdue(loaded)
  <2>1. loaded # NoRow /\ loaded.pending /\ Shown(loaded) # NoRow /\ ~Shown(loaded).pending
    BY <1>5, Overdue, RowParts
  <2>2. plan = <<Do("disarm"), Save(Shown(loaded)), Do("create")>> \o <<Save(shown), Update(2)>>
    BY <1>5, <2>1, Overdue DEF SyncSucceededPlan
  <2>3. @ = <<Do("disarm"), Save(Shown(loaded)), Do("create"), Save(shown), Update(2)>>
    BY Join3And2
  <2>4. /\ Len(plan) = 5 /\ plan[1].op = "disarm" /\ plan[2].op = "save"
        /\ plan[2].app = Shown(loaded) /\ plan[3].op = "create" /\ plan[4].op = "save"
        /\ plan[4].app = shown /\ plan[5].op = "update" /\ plan[5].step = 2
    BY <2>2, <2>3 DEF Do, Save, SavePending, Backstop, Update, ScheduleEnd
  <2>5. plan \in Todos
    <3>1. /\ Do("disarm") \in LiveSteps /\ Save(Shown(loaded)) \in LiveSteps
          /\ Do("create") \in LiveSteps /\ Save(shown) \in LiveSteps
          /\ Update(2) \in LiveSteps
      BY <1>5, <2>1, <1>1, <1>2, <1>3, <1>4
    <3>2. QED
      BY <2>2, <2>3, <3>1 DEF Todos
  <2>6. Restores(plan)
    <3>1. \A j \in (4 + 1)..(5 - 1) : plan[j].op = "create"
      BY <2>4
    <3>2. QED
      BY <3>1, <2>4, <1>5, <2>1, <1>1, <1>2 DEF Restores, PendingWrite
  <2>7. QED
    BY <2>4, <2>5, <2>6, <1>5, <2>1, <1>1, <1>2 DEF Sound, PendingWrite, Arms, Shows, Harmless, Events, Kinds
<1>6. CASE ~overdue(loaded) /\ loaded.pending
  <2>1. loaded # NoRow
    BY <1>6, RowParts
  <2>2. Promoted(loaded) = loaded /\ Promote(loaded) = <<>>
    BY <1>6, Overdue, Zenon
  <2>3. plan = <<>> \o SucceededInGrace(loaded)
    BY <1>6, <2>1, <2>2, Zenon DEF SyncSucceededPlan
  <2>4. plan = <<>> \o <<Save(kept), Backstop(loaded)>>
    BY <1>6, <2>1, <2>2, <2>3 DEF SucceededInGrace
  <2>5. @ = <<Save(kept), Backstop(loaded)>>
    BY JoinNone2
  <2>6. /\ Len(plan) = 2 /\ plan[1].op = "save" /\ plan[1].app = kept
        /\ plan[2].op = "backstop"
    BY <2>4, <2>5 DEF Do, Save, SavePending, Backstop, Update, ScheduleEnd
  <2>7. plan \in Todos
    <3>1. /\ Save(kept) \in LiveSteps /\ Backstop(loaded) \in LiveSteps
      BY <1>6, <2>1, <2>2, <2>3, <1>1, <1>2, <1>3, <1>4
    <3>2. QED
      BY <2>4, <2>5, <3>1, Tuple2Typed, Zenon
  <2>8. Restores(plan)
    <3>1. \A j \in (1 + 1)..2 : Harmless(plan[j])
      BY <2>6 DEF Harmless
    <3>2. QED
      BY <3>1, <2>6, <1>6, <2>1, <2>2, <2>3, <1>1, <1>2 DEF Restores, PendingWrite
  <2>9. QED
    BY <2>6, <2>7, <2>8, <1>6, <2>1, <2>2, <2>3, <1>1, <1>2 DEF Sound, PendingWrite, Arms, Shows, Harmless, Events, Kinds
<1>7. CASE ~overdue(loaded) /\ loaded = NoRow /\ Grace > 0
  <2>1. ~loaded.pending
    BY <1>7, RowParts
  <2>2. Promoted(loaded) = loaded /\ Promote(loaded) = <<>>
    BY <1>7, Overdue, Zenon
  <2>3. Grace # 0
    BY <1>7
  <2>4. plan = <<>> \o <<Do("skipIfTombstone"), SavePending(fresh), Do("armAnew")>>
    BY <1>7, <2>1, <2>2, <2>3, Zenon DEF SyncSucceededPlan
  <2>5. @ = <<Do("skipIfTombstone"), SavePending(fresh), Do("armAnew")>>
    BY JoinNone3
  <2>6. /\ Len(plan) = 3 /\ plan[1].op = "skipIfTombstone" /\ plan[2].op = "savePending"
        /\ plan[3].op = "armAnew"
    BY <2>4, <2>5 DEF Do, Save, SavePending, Backstop, Update, ScheduleEnd
  <2>7. plan \in Todos
    <3>1. /\ Do("skipIfTombstone") \in LiveSteps /\ SavePending(fresh) \in LiveSteps
          /\ Do("armAnew") \in LiveSteps
      BY <1>7, <2>1, <2>2, <2>3, <1>1, <1>2, <1>3, <1>4
    <3>2. QED
      BY <2>4, <2>5, <3>1, Tuple3Typed, Zenon
  <2>8. Restores(plan)
    <3>1. \A j \in (2 + 1)..3 : Harmless(plan[j])
      BY <2>6 DEF Harmless
    <3>2. QED
      BY <3>1, <2>6, <1>7, <2>1, <2>2, <2>3, <1>1, <1>2 DEF Restores, PendingWrite
  <2>9. QED
    BY <2>6, <2>7, <2>8, <1>7, <2>1, <2>2, <2>3, <1>1, <1>2 DEF Sound, PendingWrite, Arms, Shows, Harmless, Events, Kinds
<1>8. CASE ~overdue(loaded) /\ loaded = NoRow /\ Grace = 0
  <2>1. ~loaded.pending
    BY <1>8, RowParts
  <2>2. Promoted(loaded) = loaded /\ Promote(loaded) = <<>>
    BY <1>8, Overdue, Zenon
  <2>3. ~(Grace > 0)
    BY <1>8
  <2>4. plan = <<>> \o <<Save(fresh), Do("create"), Update(2)>>
    BY <1>8, <2>1, <2>2, <2>3, Zenon DEF SyncSucceededPlan
  <2>5. @ = <<Save(fresh), Do("create"), Update(2)>>
    BY JoinNone3
  <2>6. /\ Len(plan) = 3 /\ plan[1].op = "save" /\ plan[1].app = fresh
        /\ plan[2].op = "create" /\ plan[3].op = "update" /\ plan[3].step = 2
    BY <2>4, <2>5 DEF Do, Save, SavePending, Backstop, Update, ScheduleEnd
  <2>7. plan \in Todos
    <3>1. /\ Save(fresh) \in LiveSteps /\ Do("create") \in LiveSteps
          /\ Update(2) \in LiveSteps
      BY <1>8, <2>1, <2>2, <2>3, <1>1, <1>2, <1>3, <1>4
    <3>2. QED
      BY <2>4, <2>5, <3>1, Tuple3Typed, Zenon
  <2>8. Restores(plan)
    <3>1. \A j \in (1 + 1)..(3 - 1) : plan[j].op = "create"
      BY <2>6
    <3>2. QED
      BY <3>1, <2>6, <1>8, <2>1, <2>2, <2>3, <1>1, <1>2 DEF Restores, PendingWrite
  <2>9. QED
    BY <2>6, <2>7, <2>8, <1>8, <2>1, <2>2, <2>3, <1>1, <1>2 DEF Sound, PendingWrite, Arms, Shows, Harmless, Events, Kinds
<1>9. CASE ~overdue(loaded) /\ loaded # NoRow /\ ~loaded.pending
  <2>1. ~loaded.pending
    BY <1>9, RowParts
  <2>2. Promoted(loaded) = loaded /\ Promote(loaded) = <<>>
    BY <1>9, Overdue, Zenon
  <2>3. plan = <<>> \o <<Save(kept), Update(2)>>
    BY <1>9, <2>1, <2>2, Zenon DEF SyncSucceededPlan
  <2>4. @ = <<Save(kept), Update(2)>>
    BY JoinNone2
  <2>5. /\ Len(plan) = 2 /\ plan[1].op = "save" /\ plan[1].app = kept
        /\ plan[2].op = "update" /\ plan[2].step = 2
    BY <2>3, <2>4 DEF Do, Save, SavePending, Backstop, Update, ScheduleEnd
  <2>6. plan \in Todos
    <3>1. /\ Save(kept) \in LiveSteps /\ Update(2) \in LiveSteps
      BY <1>9, <2>1, <2>2, <1>1, <1>2, <1>3, <1>4
    <3>2. QED
      BY <2>3, <2>4, <3>1, Tuple2Typed, Zenon
  <2>7. Restores(plan)
    <3>1. \A j \in (1 + 1)..(2 - 1) : plan[j].op = "create"
      BY <2>5
    <3>2. QED
      BY <3>1, <2>5, <1>9, <2>1, <2>2, <1>1, <1>2 DEF Restores, PendingWrite
  <2>8. QED
    BY <2>5, <2>6, <2>7, <1>9, <2>1, <2>2, <1>1, <1>2 DEF Sound, PendingWrite, Arms, Shows, Harmless, Events, Kinds
<1>10. QED
  BY <1>5, <1>6, <1>7, <1>8, <1>9, RowParts

\* handleDeployed.
LEMMA DeployedSound ==
  ASSUME NEW loaded \in LiveRows, NEW rev \in Revs, now \in Nat, Grace \in Nat
  PROVE  Sound("deployed", loaded, DeployedPlan(loaded, rev))
<1> DEFINE plan == DeployedPlan(loaded, rev)
           fresh == Fresh(rev, 3)
           kept == AtStep(loaded, 3)
           shown == AtStep(Shown(loaded), 3)
<1>1. fresh \in LiveApps /\ ~fresh.pending /\ fresh.step = 3
  BY AppsTyped
<1>2. loaded # NoRow =>
        /\ loaded \in LiveApps /\ Shown(loaded) \in LiveApps
        /\ ~Shown(loaded).pending /\ Shown(loaded).step = loaded.step
        /\ kept \in LiveApps /\ (kept.pending <=> loaded.pending) /\ kept.step = 3
        /\ shown \in LiveApps /\ ~shown.pending /\ shown.step = 3
  BY RowParts, AppsTyped
<1>3. /\ Do("stopEnd") \in LiveSteps /\ Do("disarm") \in LiveSteps /\ Do("create") \in LiveSteps
      /\ Do("arm") \in LiveSteps /\ Do("armAnew") \in LiveSteps /\ Do("delete") \in LiveSteps
      /\ Do("tombstone") \in LiveSteps /\ ScheduleEnd(3) \in LiveSteps
      /\ Do("forget") \in LiveSteps /\ Do("skipIfTombstone") \in LiveSteps
      /\ Update(1) \in LiveSteps /\ Update(2) \in LiveSteps
  BY StepsTyped DEF Simple
<1>4. /\ fresh \in LiveApps => Save(fresh) \in LiveSteps /\ SavePending(fresh) \in LiveSteps
      /\ loaded # NoRow => Save(Shown(loaded)) \in LiveSteps /\ Backstop(loaded) \in LiveSteps
      /\ loaded # NoRow => Save(kept) \in LiveSteps /\ SavePending(kept) \in LiveSteps
      /\ loaded # NoRow => Save(shown) \in LiveSteps
  BY <1>1, <1>2, StepsTyped, RowParts
<1>5. CASE overdue(loaded)
  <2>1. loaded # NoRow /\ loaded.pending /\ Shown(loaded) # NoRow /\ ~Shown(loaded).pending
    BY <1>5, Overdue, RowParts
  <2>2. plan = <<Do("disarm"), Save(Shown(loaded)), Do("create")>> \o <<Save(shown), ScheduleEnd(3)>>
    BY <1>5, <2>1, Overdue DEF DeployedPlan
  <2>3. @ = <<Do("disarm"), Save(Shown(loaded)), Do("create"), Save(shown), ScheduleEnd(3)>>
    BY Join3And2
  <2>4. /\ Len(plan) = 5 /\ plan[1].op = "disarm" /\ plan[2].op = "save"
        /\ plan[2].app = Shown(loaded) /\ plan[3].op = "create" /\ plan[4].op = "save"
        /\ plan[4].app = shown /\ plan[5].op = "scheduleEnd"
    BY <2>2, <2>3 DEF Do, Save, SavePending, Backstop, Update, ScheduleEnd
  <2>5. plan \in Todos
    <3>1. /\ Do("disarm") \in LiveSteps /\ Save(Shown(loaded)) \in LiveSteps
          /\ Do("create") \in LiveSteps /\ Save(shown) \in LiveSteps
          /\ ScheduleEnd(3) \in LiveSteps
      BY <1>5, <2>1, <1>1, <1>2, <1>3, <1>4
    <3>2. QED
      BY <2>2, <2>3, <3>1 DEF Todos
  <2>6. Restores(plan)
    BY <2>4, <1>5, <2>1, <1>1, <1>2 DEF Restores, PendingWrite
  <2>7. QED
    BY <2>4, <2>5, <2>6, <1>5, <2>1, <1>1, <1>2 DEF Sound, PendingWrite, Arms, Shows, Harmless, Events, Kinds
<1>6. CASE ~overdue(loaded) /\ loaded.pending /\ Grace > 0
  <2>1. loaded # NoRow
    BY <1>6, RowParts
  <2>2. Promoted(loaded) = loaded /\ Promote(loaded) = <<>>
    BY <1>6, Overdue, Zenon
  <2>3. Grace # 0
    BY <1>6
  <2>4. plan = <<>> \o (<<Do("disarm"), Do("delete")>> \o <<Do("tombstone")>>)
    BY <1>6, <2>1, <2>2, <2>3, Zenon DEF DeployedPlan, When
  <2>5. @ = <<Do("disarm"), Do("delete"), Do("tombstone")>>
    BY JoinNone3, Join2And1
  <2>6. /\ Len(plan) = 3 /\ plan[1].op = "disarm" /\ plan[2].op = "delete"
        /\ plan[3].op = "tombstone"
    BY <2>4, <2>5 DEF Do, Save, SavePending, Backstop, Update, ScheduleEnd
  <2>7. plan \in Todos
    <3>1. /\ Do("disarm") \in LiveSteps /\ Do("delete") \in LiveSteps
          /\ Do("tombstone") \in LiveSteps
      BY <1>6, <2>1, <2>2, <2>3, <1>1, <1>2, <1>3, <1>4
    <3>2. QED
      BY <2>4, <2>5, <3>1, Tuple3Typed, Zenon
  <2>8. Restores(plan)
    <3>1. \A j \in (2 + 1)..3 : Harmless(plan[j])
      BY <2>6 DEF Harmless
    <3>2. QED
      BY <3>1, <2>6, <1>6, <2>1, <2>2, <2>3, <1>1, <1>2 DEF Restores, PendingWrite
  <2>9. QED
    BY <2>6, <2>7, <2>8, <1>6, <2>1, <2>2, <2>3, <1>1, <1>2 DEF Sound, PendingWrite, Arms, Shows, Harmless, Events, Kinds
<1>7. CASE ~overdue(loaded) /\ loaded.pending /\ Grace = 0
  <2>1. loaded # NoRow
    BY <1>7, RowParts
  <2>2. Promoted(loaded) = loaded /\ Promote(loaded) = <<>>
    BY <1>7, Overdue, Zenon
  <2>3. ~(Grace > 0)
    BY <1>7
  <2>4. plan = <<>> \o (<<Do("disarm"), Do("delete")>> \o <<>>)
    BY <1>7, <2>1, <2>2, <2>3, Zenon DEF DeployedPlan, When
  <2>5. @ = <<Do("disarm"), Do("delete")>>
    BY JoinNone2, Join2AndNone
  <2>6. /\ Len(plan) = 2 /\ plan[1].op = "disarm" /\ plan[2].op = "delete"
    BY <2>4, <2>5 DEF Do, Save, SavePending, Backstop, Update, ScheduleEnd
  <2>7. plan \in Todos
    <3>1. /\ Do("disarm") \in LiveSteps /\ Do("delete") \in LiveSteps
      BY <1>7, <2>1, <2>2, <2>3, <1>1, <1>2, <1>3, <1>4
    <3>2. QED
      BY <2>4, <2>5, <3>1, Tuple2Typed, Zenon
  <2>8. Restores(plan)
    <3>1. \A j \in (2 + 1)..2 : Harmless(plan[j])
      BY <2>6 DEF Harmless
    <3>2. QED
      BY <3>1, <2>6, <1>7, <2>1, <2>2, <2>3, <1>1, <1>2 DEF Restores, PendingWrite
  <2>9. QED
    BY <2>6, <2>7, <2>8, <1>7, <2>1, <2>2, <2>3, <1>1, <1>2 DEF Sound, PendingWrite, Arms, Shows, Harmless, Events, Kinds
<1>8. CASE ~overdue(loaded) /\ loaded = NoRow /\ Grace > 0
  <2>1. ~loaded.pending
    BY <1>8, RowParts
  <2>2. Promoted(loaded) = loaded /\ Promote(loaded) = <<>>
    BY <1>8, Overdue, Zenon
  <2>3. Grace # 0
    BY <1>8
  <2>4. plan = <<>> \o <<Do("tombstone")>>
    BY <1>8, <2>1, <2>2, <2>3, Zenon DEF DeployedPlan
  <2>5. @ = <<Do("tombstone")>>
    BY JoinNone1
  <2>6. /\ Len(plan) = 1 /\ plan[1].op = "tombstone"
    BY <2>4, <2>5 DEF Do, Save, SavePending, Backstop, Update, ScheduleEnd
  <2>7. plan \in Todos
    <3>1. /\ Do("tombstone") \in LiveSteps
      BY <1>8, <2>1, <2>2, <2>3, <1>1, <1>2, <1>3, <1>4
    <3>2. QED
      BY <2>4, <2>5, <3>1, Tuple1Typed, Zenon
  <2>8. QED
    BY <2>6, <2>7, <1>8, <2>1, <2>2, <2>3, <1>1, <1>2 DEF Sound, PendingWrite, Arms, Shows, Harmless, Events, Kinds
<1>9. CASE ~overdue(loaded) /\ loaded = NoRow /\ Grace = 0
  <2>1. ~loaded.pending
    BY <1>9, RowParts
  <2>2. Promoted(loaded) = loaded /\ Promote(loaded) = <<>>
    BY <1>9, Overdue, Zenon
  <2>3. ~(Grace > 0)
    BY <1>9
  <2>4. plan = <<>> \o <<Save(fresh), Do("create"), ScheduleEnd(3)>>
    BY <1>9, <2>1, <2>2, <2>3, Zenon DEF DeployedPlan
  <2>5. @ = <<Save(fresh), Do("create"), ScheduleEnd(3)>>
    BY JoinNone3
  <2>6. /\ Len(plan) = 3 /\ plan[1].op = "save" /\ plan[1].app = fresh
        /\ plan[2].op = "create" /\ plan[3].op = "scheduleEnd"
    BY <2>4, <2>5 DEF Do, Save, SavePending, Backstop, Update, ScheduleEnd
  <2>7. plan \in Todos
    <3>1. /\ Save(fresh) \in LiveSteps /\ Do("create") \in LiveSteps
          /\ ScheduleEnd(3) \in LiveSteps
      BY <1>9, <2>1, <2>2, <2>3, <1>1, <1>2, <1>3, <1>4
    <3>2. QED
      BY <2>4, <2>5, <3>1, Tuple3Typed, Zenon
  <2>8. Restores(plan)
    BY <2>6, <1>9, <2>1, <2>2, <2>3, <1>1, <1>2 DEF Restores, PendingWrite
  <2>9. QED
    BY <2>6, <2>7, <2>8, <1>9, <2>1, <2>2, <2>3, <1>1, <1>2 DEF Sound, PendingWrite, Arms, Shows, Harmless, Events, Kinds
<1>10. CASE ~overdue(loaded) /\ loaded # NoRow /\ ~loaded.pending
  <2>1. ~loaded.pending
    BY <1>10, RowParts
  <2>2. Promoted(loaded) = loaded /\ Promote(loaded) = <<>>
    BY <1>10, Overdue, Zenon
  <2>3. plan = <<>> \o <<Save(kept), ScheduleEnd(3)>>
    BY <1>10, <2>1, <2>2, Zenon DEF DeployedPlan
  <2>4. @ = <<Save(kept), ScheduleEnd(3)>>
    BY JoinNone2
  <2>5. /\ Len(plan) = 2 /\ plan[1].op = "save" /\ plan[1].app = kept
        /\ plan[2].op = "scheduleEnd"
    BY <2>3, <2>4 DEF Do, Save, SavePending, Backstop, Update, ScheduleEnd
  <2>6. plan \in Todos
    <3>1. /\ Save(kept) \in LiveSteps /\ ScheduleEnd(3) \in LiveSteps
      BY <1>10, <2>1, <2>2, <1>1, <1>2, <1>3, <1>4
    <3>2. QED
      BY <2>3, <2>4, <3>1, Tuple2Typed, Zenon
  <2>7. Restores(plan)
    BY <2>5, <1>10, <2>1, <2>2, <1>1, <1>2 DEF Restores, PendingWrite
  <2>8. QED
    BY <2>5, <2>6, <2>7, <1>10, <2>1, <2>2, <1>1, <1>2 DEF Sound, PendingWrite, Arms, Shows, Harmless, Events, Kinds
<1>11. QED
  BY <1>5, <1>6, <1>7, <1>8, <1>9, <1>10, RowParts

\* handleSyncFailed.
LEMMA SyncFailedSound ==
  ASSUME NEW loaded \in LiveRows, NEW rev \in Revs, now \in Nat, Grace \in Nat
  PROVE  Sound("sync-failed", loaded, SyncFailedPlan(loaded, rev))
<1> DEFINE plan == SyncFailedPlan(loaded, rev)
           fresh == Fresh(rev, 1)
<1>1. fresh \in LiveApps /\ ~fresh.pending /\ fresh.step = 1
  BY AppsTyped
<1>2. loaded # NoRow =>
        /\ loaded \in LiveApps /\ Shown(loaded) \in LiveApps
        /\ ~Shown(loaded).pending /\ Shown(loaded).step = loaded.step
  BY RowParts, AppsTyped
<1>3. /\ Do("stopEnd") \in LiveSteps /\ Do("disarm") \in LiveSteps /\ Do("create") \in LiveSteps
      /\ Do("arm") \in LiveSteps /\ Do("armAnew") \in LiveSteps /\ Do("delete") \in LiveSteps
      /\ Do("tombstone") \in LiveSteps /\ ScheduleEnd(1) \in LiveSteps
      /\ Do("forget") \in LiveSteps /\ Do("skipIfTombstone") \in LiveSteps
      /\ Update(1) \in LiveSteps /\ Update(2) \in LiveSteps
  BY StepsTyped DEF Simple
<1>4. /\ fresh \in LiveApps => Save(fresh) \in LiveSteps /\ SavePending(fresh) \in LiveSteps
      /\ loaded # NoRow => Save(Shown(loaded)) \in LiveSteps /\ Backstop(loaded) \in LiveSteps
      /\ loaded # NoRow => ScheduleEnd(loaded.step) \in LiveSteps
  BY <1>1, <1>2, StepsTyped, RowParts DEF LiveApps
<1>5. CASE loaded.pending
  <2>1. loaded # NoRow
    BY <1>5, RowParts
  <2>2. plan = <<Do("disarm"), Save(Shown(loaded)), Do("create")>> \o <<ScheduleEnd(loaded.step)>>
    BY <1>5, <2>1 DEF SyncFailedPlan, materialize
  <2>3. @ = <<Do("disarm"), Save(Shown(loaded)), Do("create"), ScheduleEnd(loaded.step)>>
    BY Join3And1
  <2>4. /\ Len(plan) = 4 /\ plan[1].op = "disarm" /\ plan[2].op = "save"
        /\ plan[2].app = Shown(loaded) /\ plan[3].op = "create"
        /\ plan[4].op = "scheduleEnd"
    BY <2>2, <2>3 DEF Do, Save, SavePending, Backstop, Update, ScheduleEnd
  <2>5. plan \in Todos
    <3>1. /\ Do("disarm") \in LiveSteps /\ Save(Shown(loaded)) \in LiveSteps
          /\ Do("create") \in LiveSteps /\ ScheduleEnd(loaded.step) \in LiveSteps
      BY <1>5, <2>1, <1>1, <1>2, <1>3, <1>4
    <3>2. QED
      BY <2>2, <2>3, <3>1, Tuple4Typed, Zenon
  <2>6. Restores(plan)
    BY <2>4, <1>5, <2>1, <1>1, <1>2 DEF Restores, PendingWrite
  <2>7. QED
    BY <2>4, <2>5, <2>6, <1>5, <2>1, <1>1, <1>2 DEF Sound, PendingWrite, Arms, Shows, Harmless, Events, Kinds
<1>6. CASE loaded = NoRow
  <2>1. ~loaded.pending
    BY <1>6, RowParts
  <2>2. plan = <<Save(fresh), Do("create")>> \o <<ScheduleEnd(1)>>
    BY <1>6, <2>1 DEF SyncFailedPlan
  <2>3. @ = <<Save(fresh), Do("create"), ScheduleEnd(1)>>
    BY Join2And1
  <2>4. /\ Len(plan) = 3 /\ plan[1].op = "save" /\ plan[1].app = fresh
        /\ plan[2].op = "create" /\ plan[3].op = "scheduleEnd"
    BY <2>2, <2>3 DEF Do, Save, SavePending, Backstop, Update, ScheduleEnd
  <2>5. plan \in Todos
    <3>1. /\ Save(fresh) \in LiveSteps /\ Do("create") \in LiveSteps
          /\ ScheduleEnd(1) \in LiveSteps
      BY <1>6, <2>1, <1>1, <1>2, <1>3, <1>4
    <3>2. QED
      BY <2>2, <2>3, <3>1, Tuple3Typed, Zenon
  <2>6. Restores(plan)
    BY <2>4, <1>6, <2>1, <1>1, <1>2 DEF Restores, PendingWrite
  <2>7. QED
    BY <2>4, <2>5, <2>6, <1>6, <2>1, <1>1, <1>2 DEF Sound, PendingWrite, Arms, Shows, Harmless, Events, Kinds
<1>7. CASE loaded # NoRow /\ ~loaded.pending
  <2>1. plan = <<>> \o <<ScheduleEnd(loaded.step)>>
    BY <1>7 DEF SyncFailedPlan
  <2>2. @ = <<ScheduleEnd(loaded.step)>>
    BY JoinNone1
  <2>3. /\ Len(plan) = 1 /\ plan[1].op = "scheduleEnd"
    BY <2>1, <2>2 DEF Do, Save, SavePending, Backstop, Update, ScheduleEnd
  <2>4. plan \in Todos
    <3>1. /\ ScheduleEnd(loaded.step) \in LiveSteps
      BY <1>7, <1>1, <1>2, <1>3, <1>4
    <3>2. QED
      BY <2>1, <2>2, <3>1, Tuple1Typed, Zenon
  <2>5. Restores(plan)
    BY <2>3, <1>7, <1>1, <1>2 DEF Restores, PendingWrite
  <2>6. QED
    BY <2>3, <2>4, <2>5, <1>7, <1>1, <1>2 DEF Sound, PendingWrite, Arms, Shows, Harmless, Events, Kinds
<1>8. QED
  BY <1>5, <1>6, <1>7, RowParts

\* graceExpired.
LEMMA GraceExpiredSound ==
  ASSUME NEW loaded \in LiveRows, NEW kind \in Kinds, now \in Nat, Grace \in Nat
  PROVE  Sound(kind, loaded, GraceExpiredPlan(loaded))
<1> DEFINE plan == GraceExpiredPlan(loaded)
<1>1. loaded # NoRow => loaded \in LiveApps /\ loaded.step \in 1..3
  BY RowParts DEF LiveApps
<1>2. loaded # NoRow =>
        /\ loaded \in LiveApps /\ Shown(loaded) \in LiveApps
        /\ ~Shown(loaded).pending /\ Shown(loaded).step = loaded.step
  BY RowParts, AppsTyped
<1>3. /\ Do("stopEnd") \in LiveSteps /\ Do("disarm") \in LiveSteps /\ Do("create") \in LiveSteps
      /\ Do("arm") \in LiveSteps /\ Do("armAnew") \in LiveSteps /\ Do("delete") \in LiveSteps
      /\ Do("tombstone") \in LiveSteps /\ ScheduleEnd(3) \in LiveSteps
      /\ Do("forget") \in LiveSteps /\ Do("skipIfTombstone") \in LiveSteps
      /\ Update(1) \in LiveSteps /\ Update(2) \in LiveSteps
  BY StepsTyped DEF Simple
<1>4. /\ loaded # NoRow => Save(Shown(loaded)) \in LiveSteps /\ Update(loaded.step) \in LiveSteps
  BY <1>1, <1>2, StepsTyped, RowParts
<1>5. CASE loaded.pending
  <2>1. loaded # NoRow
    BY <1>5, RowParts
  <2>2. plan = <<Do("disarm"), Save(Shown(loaded)), Do("create")>> \o <<Update(loaded.step)>>
    BY <1>5, <2>1 DEF GraceExpiredPlan, materialize
  <2>3. @ = <<Do("disarm"), Save(Shown(loaded)), Do("create"), Update(loaded.step)>>
    BY Join3And1
  <2>4. /\ Len(plan) = 4 /\ plan[1].op = "disarm" /\ plan[2].op = "save"
        /\ plan[2].app = Shown(loaded) /\ plan[3].op = "create" /\ plan[4].op = "update"
        /\ plan[4].step = loaded.step
    BY <2>2, <2>3 DEF Do, Save, SavePending, Backstop, Update, ScheduleEnd
  <2>5. plan \in Todos
    <3>1. /\ Do("disarm") \in LiveSteps /\ Save(Shown(loaded)) \in LiveSteps
          /\ Do("create") \in LiveSteps /\ Update(loaded.step) \in LiveSteps
      BY <1>5, <2>1, <1>1, <1>2, <1>3, <1>4
    <3>2. QED
      BY <2>2, <2>3, <3>1, Tuple4Typed, Zenon
  <2>6. Restores(plan)
    <3>1. \A j \in (2 + 1)..(4 - 1) : plan[j].op = "create"
      BY <2>4
    <3>2. QED
      BY <3>1, <2>4, <1>5, <2>1, <1>1, <1>2 DEF Restores, PendingWrite
  <2>7. QED
    BY <2>4, <2>5, <2>6, <1>5, <2>1, <1>1, <1>2 DEF Sound, PendingWrite, Arms, Shows, Harmless, Events, Kinds
<1>6. CASE ~loaded.pending
  <2>1. plan = <<Do("forget")>>
    BY <1>6 DEF GraceExpiredPlan
  <2>2. /\ Len(plan) = 1 /\ plan[1].op = "forget"
    BY <2>1 DEF Do, Save, SavePending, Backstop, Update, ScheduleEnd
  <2>3. plan \in Todos
    <3>1. /\ Do("forget") \in LiveSteps
      BY <1>6, <1>1, <1>2, <1>3, <1>4
    <3>2. QED
      BY <2>1, <3>1, Tuple1Typed, Zenon
  <2>4. QED
    BY <2>2, <2>3, <1>6, <1>1, <1>2 DEF Sound, PendingWrite, Arms, Shows, Harmless, Events, Kinds
<1>7. QED
  BY <1>5, <1>6, RowParts

\* handleHealthDegraded, which ends like handleSyncFailed where it ends.
LEMMA HealthDegradedSound ==
  ASSUME NEW loaded \in LiveRows, NEW rev \in Revs, now \in Nat, Grace \in Nat
  PROVE  Sound("health-degraded", loaded, HealthDegradedPlan(loaded, rev))
<1> DEFINE plan == HealthDegradedPlan(loaded, rev)
<1>1. CASE loaded.step = 2 /\ ~loaded.pending
  <2>1. plan = <<Update(2)>>
    BY <1>1 DEF HealthDegradedPlan
  <2>2. Len(plan) = 1 /\ plan[1].op = "update" /\ plan[1].step = 2
    BY <2>1 DEF Update
  <2>3. plan \in Todos
    BY <2>1, StepsTyped, Tuple1Typed
  <2>4. QED
    BY <1>1, <2>2, <2>3 DEF Sound, PendingWrite, Arms, Events, Kinds
<1>2. CASE ~(loaded.step = 2 /\ ~loaded.pending)
  <2>1. plan = SyncFailedPlan(loaded, rev)
    BY <1>2 DEF HealthDegradedPlan
  <2>2. QED
    BY <2>1, SyncFailedSound DEF Sound, Events, Kinds
<1>3. QED
  BY <1>1, <1>2

\* The plan of any handler and of any timer, for every row that can be loaded.
LEMMA PlanSound ==
  ASSUME NEW loaded \in LiveRows, NEW rev \in Revs, NEW by \in Events \union Kinds, now \in Nat
  PROVE  Sound(by, loaded, Plan(by, loaded, rev))
<1>1. Grace \in Nat
  BY TimesAssumption
<1>2. CASE by \in Kinds
  BY <1>1, <1>2, PlanIs, GraceExpiredSound
<1>3. CASE by \in Events
  BY <1>1, <1>3, PlanIs, SyncRunningSound, SyncSucceededSound, DeployedSound, SyncFailedSound,
     HealthDegradedSound DEF Events
<1>4. QED
  BY <1>2, <1>3

LEMMA OpParts ==
  \A x \in LiveSteps :
    /\ x.op \in {"save", "savePending", "backstop"} => x.app \in LiveApps
    /\ x.op \in {"update", "scheduleEnd"} => x.step \in 1..3
    /\ x.op = "load" => x.rev \in Revs
BY DEF LiveSteps, Simple

\* The step a handler is at, and what is left after it.
LEMMA JobParts ==
  ASSUME JobsTyped, NEW r \in Replicas, job[r] # Free
  PROVE  /\ job[r].by \in Events \union Kinds /\ job[r].todo \in Todos
         /\ Head(job[r].todo) \in LiveSteps /\ Head(job[r].todo) = job[r].todo[1]
         /\ Tail(job[r].todo) \in Seq(LiveSteps)
         /\ Len(job[r].todo) \in Nat \ {0} /\ Len(Tail(job[r].todo)) = Len(job[r].todo) - 1
         /\ \A i \in 1..Len(Tail(job[r].todo)) : Tail(job[r].todo)[i] = job[r].todo[i + 1]
<1>1. job[r].by \in Events \union Kinds /\ job[r].todo \in Todos
  BY DEF JobsTyped, Jobs
<1> DEFINE todo == job[r].todo
<1>2. todo \in Seq(LiveSteps) /\ todo # <<>>
  BY <1>1 DEF Todos
<1> HIDE DEF todo
<1>3. Head(todo) \in LiveSteps /\ Tail(todo) \in Seq(LiveSteps) /\ Len(Tail(todo)) = Len(todo) - 1
  BY <1>2, HeadTailProperties
<1>4. \A i \in 1..Len(Tail(todo)) : Tail(todo)[i] = todo[i + 1]
  BY <1>2, HeadTailProperties
<1>5. Len(todo) \in Nat \ {0} /\ Head(todo) = todo[1]
  BY <1>2
<1>6. QED
  BY <1>1, <1>3, <1>4, <1>5 DEF todo

\* The job of a replica after a step of its plan.
LEMMA ThenIs ==
  ASSUME JobsTyped, NEW r \in Replicas, job[r] # Free, NEW todo \in Seq(LiveSteps), Then(r, todo),
         now' = now
  PROVE  /\ JobsTyped' /\ job'[r].todo = todo
         /\ (todo = <<>> => job'[r] = Free) /\ (todo # <<>> => job'[r].by = job[r].by)
         /\ \A s \in Replicas : s # r => job'[s] = job[s]
<1>1. job[r] \in [by : Events \union Kinds, todo : Todos] /\ job \in [Replicas -> Jobs]
  BY DEF JobsTyped, Jobs
<1>2. PICK j : j = IF todo = <<>> THEN Free ELSE [job[r] EXCEPT !.todo = todo]
  OBVIOUS
<1>3. job' = [job EXCEPT ![r] = j]
  BY <1>2 DEF Then
<1>4. todo # <<>> => j = [by |-> job[r].by, todo |-> todo]
  BY <1>1, <1>2
<1>5. j \in Jobs /\ j.todo = todo
  BY <1>1, <1>2, <1>4 DEF Jobs, Todos, Free
<1>6. job' \in [Replicas -> Jobs] /\ job'[r] = j /\ \A s \in Replicas : s # r => job'[s] = job[s]
  BY <1>1, <1>3, <1>5
<1>7. Jobs' = Jobs
  BY DEF Jobs, Todos, LiveSteps, LiveApps
<1>8. QED
  BY <1>2, <1>4, <1>5, <1>6, <1>7 DEF JobsTyped

LEMMA ContinueIs ==
  ASSUME JobsTyped, NEW r \in Replicas, job[r] # Free, Continue(r), now' = now
  PROVE  /\ JobsTyped' /\ job'[r].todo = Tail(job[r].todo)
         /\ (job'[r].todo = <<>> => job'[r] = Free) /\ (job'[r].todo # <<>> => job'[r].by = job[r].by)
         /\ \A s \in Replicas : s # r => job'[s] = job[s]
<1>1. Tail(job[r].todo) \in Seq(LiveSteps)
  BY JobParts
<1>2. QED
  BY <1>1, ThenIs DEF Continue

LEMMA BeginIs ==
  ASSUME JobsTyped, NEW r \in Replicas, NEW by \in Events \union Kinds, NEW todo \in Todos,
         Begin(r, by, todo)
  PROVE  /\ JobsTyped' /\ job'[r] = [by |-> by, todo |-> todo]
         /\ \A s \in Replicas : s # r => job'[s] = job[s]
<1>1. now' = now /\ job' = [job EXCEPT ![r] = [by |-> by, todo |-> todo]]
  BY DEF Begin
<1>2. Jobs' = Jobs /\ [by |-> by, todo |-> todo] \in Jobs
  BY <1>1 DEF Jobs, Todos, LiveSteps, LiveApps
<1>3. QED
  BY <1>1, <1>2 DEF JobsTyped

LEMMA SpendTyped ==
  ASSUME used \in [DOMAIN Limit -> Nat], NEW what \in DOMAIN Limit, Spend(what)
  PROVE  /\ used' \in [DOMAIN Limit -> Nat] /\ used'[what] = used[what] + 1
         /\ \A other \in DOMAIN Limit : other # what => used'[other] = used[other]
BY DEF Spend

LEMMA Limits ==
  DOMAIN Limit = {"webhooks", "faults", "restarts", "sweeps"} /\ Limit.faults \in Nat
BY LimitAssumption

LEMMA TypedInit == Init => TInv
<1> SUFFICES ASSUME Init PROVE TInv
  OBVIOUS
<1>1. Horizon \in Nat /\ Horizon >= 1
  BY TimesAssumption, Limits DEF Horizon
<1>2. ClockTyped
  BY <1>1 DEF Init, ClockTyped
<1>3. [rev : Revisions, step : {1, 2}, pending : {TRUE}, since : {0}] \subseteq LiveApps
  <2>1. now = 1
    BY DEF Init
  <2>2. 0 \in 0..now
    BY <2>1
  <2>3. SUFFICES ASSUME NEW a \in [rev : Revisions, step : {1, 2}, pending : {TRUE}, since : {0}]
                 PROVE  a \in LiveApps
    OBVIOUS
  <2>4. a = [rev |-> a.rev, step |-> a.step, pending |-> TRUE, since |-> 0]
    OBVIOUS
  <2>5. a.rev \in Revs /\ a.step \in 1..3
    BY DEF Revs
  <2>6. QED
    BY <2>2, <2>4, <2>5 DEF LiveApps
<1>4. row \in LiveRows
  BY <1>3 DEF Init, LiveRows
<1>5. RowTyped
  BY <1>4 DEF Init, RowTyped, NoCard
<1>6. TimersTyped /\ JobsTyped
  <2>1. /\ timers = [r \in Replicas |-> {}] /\ fired = [r \in Replicas |-> {}]
        /\ entry = [r \in Replicas |-> NoTimer] /\ job = [r \in Replicas |-> Free]
    BY DEF Init
  <2>2. QED
    BY <2>1 DEF TimersTyped, JobsTyped, Jobs
<1>7. lost \in BOOLEAN
  <2>1. row.pending \in BOOLEAN
    BY <1>4, RowParts
  <2>2. lost = row.pending
    BY Zenon DEF Init
  <2>3. QED
    BY <2>1, <2>2
<1>8. FlagsTyped
  <2>1. NoEnd \in Enders
    BY DEF NoEnd, Enders
  <2>2. QED
    BY <1>7, <2>1 DEF Init, FlagsTyped
<1>9. QED
  BY <1>2, <1>5, <1>6, <1>8 DEF TInv

\* Steps of a handler's plan.
LEMMA TypedStep ==
  ASSUME TInv, NEW r \in Replicas, Step(r)
  PROVE  TInv' /\ now' = now
<1> USE DEF TInv
<1>1. CASE LoadApp(r)
  <2>1. job[r] # Free /\ Head(job[r].todo).op = "load" /\ now' = now
    BY <1>1 DEF LoadApp, Doing
  <2>2. Arg(r).rev \in Revs /\ job[r].by \in Events \union Kinds
    BY <2>1, JobParts, OpParts DEF Arg
  <2>3. Plan(job[r].by, row, Arg(r).rev) \in Seq(LiveSteps)
    BY <2>2, PlanSound DEF ClockTyped, RowTyped, Sound, Todos
  <2>4. When(job[r].by \in Kinds, <<Do("retry")>>) \in Seq(LiveSteps)
    BY StepsTyped, Tuple1Typed DEF When, Simple, Todos
  <2>5. JobsTyped'
    BY <1>1, <2>1, <2>3, <2>4, ThenIs DEF LoadApp
  <2>6. used' \in [DOMAIN Limit -> Nat]
    BY <1>1, Limits, SpendTyped DEF LoadApp, Fault, NoFault, FlagsTyped
  <2>7. lost' \in BOOLEAN
    BY <1>1 DEF LoadApp, FlagsTyped
  <2>8. QED
    BY <1>1, <2>5, <2>6, <2>7
       DEF LoadApp, store, graceVars, endVars, lifeVars, ClockTyped, RowTyped, LiveRows, LiveApps,
           TimersTyped, FlagsTyped
<1>2. CASE SkipIfTombstone(r)
  <2>1. job[r] # Free /\ now' = now
    BY <1>2 DEF SkipIfTombstone, Doing
  <2>2. JobsTyped'
    <3>1. <<>> \in Seq(LiveSteps)
      OBVIOUS
    <3>2. QED
      BY <1>2, <2>1, <3>1, ThenIs, ContinueIs DEF SkipIfTombstone
  <2>3. used' \in [DOMAIN Limit -> Nat]
    BY <1>2, Limits, SpendTyped DEF SkipIfTombstone, Fault, NoFault, FlagsTyped
  <2>4. QED
    BY <1>2, <2>2, <2>3
       DEF SkipIfTombstone, store, graceVars, endVars, lifeVars, ClockTyped, RowTyped, LiveRows, LiveApps,
           TimersTyped, FlagsTyped
<1>3. CASE SaveApp(r)
  <2>1. job[r] # Free /\ now' = now /\ Continue(r)
    BY <1>3 DEF SaveApp, Doing
  <2>2. row' \in LiveRows
    <3>1. CASE Doing(r, "save") /\ row' = Arg(r).app
      BY <2>1, <3>1, JobParts, OpParts DEF Doing, Arg, LiveRows
    <3>2. CASE Doing(r, "savePending") /\ row' = [Arg(r).app EXCEPT !.pending = TRUE, !.since = now]
      <4>1. Arg(r).app \in LiveApps
        BY <2>1, <3>2, JobParts, OpParts DEF Doing, Arg
      <4>2. PICK a \in LiveApps : a = Arg(r).app
        BY <4>1
      <4>3. row' = [rev |-> a.rev, step |-> a.step, pending |-> TRUE, since |-> now]
        BY <3>2, <4>2 DEF LiveApps
      <4>4. now \in 0..now
        BY DEF ClockTyped
      <4>5. QED
        BY <4>2, <4>3, <4>4 DEF LiveApps, LiveRows
    <3>3. CASE UNCHANGED row
      BY <3>3 DEF RowTyped
    <3>4. QED
      BY <1>3, <3>1, <3>2, <3>3 DEF SaveApp
  <2>3. used' \in [DOMAIN Limit -> Nat]
    BY <1>3, Limits, SpendTyped DEF SaveApp, Fault, NoFault, FlagsTyped
  <2>4. JobsTyped'
    BY <2>1, ContinueIs
  <2>5. QED
    BY <1>3, <2>1, <2>2, <2>3, <2>4
       DEF SaveApp, graceVars, endVars, lifeVars, ClockTyped, RowTyped, LiveRows, LiveApps,
           TimersTyped, FlagsTyped
<1>4. CASE DeleteApp(r)
  <2>1. job[r] # Free /\ now' = now /\ Continue(r) /\ (row' = NoRow \/ row' = row)
    BY <1>4 DEF DeleteApp, Doing
  <2>2. used' \in [DOMAIN Limit -> Nat]
    BY <1>4, Limits, SpendTyped DEF DeleteApp, Fault, NoFault, FlagsTyped
  <2>3. JobsTyped'
    BY <2>1, ContinueIs
  <2>4. QED
    BY <1>4, <2>1, <2>2, <2>3
       DEF DeleteApp, graceVars, endVars, lifeVars, ClockTyped, RowTyped, LiveRows, LiveApps,
           TimersTyped, FlagsTyped
<1>5. CASE SetTombstone(r)
  <2>1. job[r] # Free /\ now' = now /\ Continue(r)
    BY <1>5 DEF SetTombstone, Doing
  <2>2. tombstone' \in Nat
    BY <1>5, TimesAssumption DEF SetTombstone, ClockTyped
  <2>3. used' \in [DOMAIN Limit -> Nat]
    BY <1>5, Limits, SpendTyped DEF SetTombstone, Fault, NoFault, FlagsTyped
  <2>4. JobsTyped'
    BY <2>1, ContinueIs
  <2>5. QED
    BY <1>5, <2>1, <2>2, <2>3, <2>4
       DEF SetTombstone, graceVars, endVars, lifeVars, ClockTyped, RowTyped, LiveRows, LiveApps,
           TimersTyped, FlagsTyped
<1>6. CASE CreateActivity(r)
  <2>1. job[r] # Free /\ now' = now
    BY <1>6 DEF CreateActivity, Doing
  <2>2. card' \in NoCard..3
    BY <1>6 DEF CreateActivity, RowTyped, NoCard
  <2>3. <<Do("delete")>> \in Seq(LiveSteps)
    BY StepsTyped, Tuple1Typed DEF Simple, Todos
  <2>4. used' \in [DOMAIN Limit -> Nat]
    BY <1>6, Limits, SpendTyped DEF CreateActivity, Fault, NoFault, FlagsTyped
  <2>5. JobsTyped'
    BY <1>6, <2>1, <2>3, ThenIs, ContinueIs DEF CreateActivity
  <2>6. QED
    BY <1>6, <2>1, <2>2, <2>4, <2>5
       DEF CreateActivity, store, graceVars, endVars, lifeVars, ClockTyped, RowTyped, LiveRows, LiveApps,
           TimersTyped, FlagsTyped
<1>7. CASE UpdateActivity(r)
  <2>1. job[r] # Free /\ now' = now /\ Continue(r) /\ Head(job[r].todo).op = "update"
    BY <1>7 DEF UpdateActivity, Doing
  <2>2. Arg(r).step \in 1..3
    BY <2>1, JobParts, OpParts DEF Arg
  <2>3. card' \in NoCard..3
    BY <1>7, <2>2 DEF UpdateActivity, RowTyped, NoCard
  <2>4. used' \in [DOMAIN Limit -> Nat]
    BY <1>7, Limits, SpendTyped DEF UpdateActivity, Fault, NoFault, FlagsTyped
  <2>5. JobsTyped'
    BY <2>1, ContinueIs
  <2>6. stale' \in BOOLEAN
    BY <1>7 DEF UpdateActivity, FlagsTyped
  <2>7. QED
    BY <1>7, <2>1, <2>3, <2>4, <2>5, <2>6
       DEF UpdateActivity, store, graceVars, endVars, lifeVars, ClockTyped, RowTyped, LiveRows, LiveApps,
           TimersTyped, FlagsTyped
<1>8. CASE ArmTimer(r)
  <2>1. job[r] # Free /\ now' = now /\ Continue(r)
    BY <1>8 DEF ArmTimer, Doing
  <2>2. Timer(now + Grace, "grace") \in Timers /\ Timer(now + 1, "retry") \in Timers
    BY TimesAssumption DEF ClockTyped, Timer, Timers, Kinds
  <2>3. Doing(r, "backstop") => Timer(backstopAt(Arg(r).app), "backstop") \in Timers
    <3>1. SUFFICES ASSUME Doing(r, "backstop") PROVE Timer(backstopAt(Arg(r).app), "backstop") \in Timers
      OBVIOUS
    <3>2. Arg(r).app \in LiveApps
      BY <2>1, <3>1, JobParts, OpParts DEF Doing, Arg
    <3>3. Arg(r).app.since \in Nat /\ now \in Nat /\ Grace \in Nat /\ Slack \in Nat
      BY <3>2, TimesAssumption DEF LiveApps, ClockTyped
    <3>4. PICK due : due = Arg(r).app.since + Grace + Slack
      OBVIOUS
    <3>5. due \in Nat
      BY <3>3, <3>4
    <3>6. CASE Arg(r).app.since = 0
      <4>1. backstopAt(Arg(r).app) = now + Grace
        BY <3>6, Zenon DEF backstopAt
      <4>2. QED
        BY <3>3, <4>1 DEF Timer, Timers, Kinds
    <3>7. CASE Arg(r).app.since # 0
      <4>1. backstopAt(Arg(r).app) = IF due < now THEN now ELSE due
        BY <3>4, <3>7, Zenon DEF backstopAt
      <4>2. QED
        BY <3>3, <3>5, <4>1 DEF Timer, Timers, Kinds
    <3>8. QED
      BY <3>6, <3>7
  <2>4. TimersTyped'
    BY <1>8, <2>2, <2>3 DEF ArmTimer, Drop, Put, TimersTyped
  <2>5. JobsTyped'
    BY <2>1, ContinueIs
  <2>6. QED
    BY <1>8, <2>1, <2>4, <2>5
       DEF ArmTimer, store, endVars, lifeVars, ClockTyped, RowTyped, LiveRows, LiveApps, FlagsTyped
<1>9. CASE SetEnd(r)
  <2>1. job[r] # Free /\ now' = now /\ Continue(r)
    BY <1>9 DEF SetEnd, Doing
  <2>2. ender' \in [Replicas -> Enders]
    <3>1. CASE Doing(r, "stopEnd") /\ ender' = [ender EXCEPT ![r].at = "none"]
      BY <3>1 DEF FlagsTyped, Enders
    <3>2. CASE /\ Doing(r, "scheduleEnd")
               /\ ender' = [ender EXCEPT ![r] = [gen |-> @.gen + 1, at |-> "first", step |-> Arg(r).step]]
      <4>1. Arg(r).step \in 1..3
        BY <2>1, <3>2, JobParts, OpParts DEF Doing, Arg
      <4>2. QED
        BY <3>2, <4>1 DEF FlagsTyped, Enders
    <3>3. QED
      BY <1>9, <3>1, <3>2 DEF SetEnd
  <2>3. JobsTyped'
    BY <2>1, ContinueIs
  <2>4. QED
    BY <1>9, <2>1, <2>2, <2>3
       DEF SetEnd, store, graceVars, lifeVars, ClockTyped, RowTyped, LiveRows, LiveApps,
           TimersTyped, FlagsTyped
<1>10. QED
  BY <1>1, <1>2, <1>3, <1>4, <1>5, <1>6, <1>7, <1>8, <1>9 DEF Step

\* What a webhook's handler does before it has loaded the row.
LEMMA WebhookTodo ==
  ASSUME NEW event \in Events, NEW rev \in Revs
  PROVE  LET todo == When(event = "sync-running", <<Do("skipIfTombstone")>>) \o <<Load(rev)>>
         IN /\ todo \in Todos
            /\ event = "sync-running" =>
                 Len(todo) = 2 /\ todo[1].op = "skipIfTombstone" /\ todo[2].op = "load"
            /\ event # "sync-running" => Len(todo) = 1 /\ todo[1].op = "load"
<1> DEFINE todo == When(event = "sync-running", <<Do("skipIfTombstone")>>) \o <<Load(rev)>>
<1>1. CASE event = "sync-running"
  <2>1. todo = <<Do("skipIfTombstone")>> \o <<Load(rev)>>
    BY <1>1 DEF When
  <2>2. @ = <<Do("skipIfTombstone"), Load(rev)>>
    BY Join1And1
  <2>3. Do("skipIfTombstone") \in LiveSteps /\ Load(rev) \in LiveSteps
    BY StepsTyped DEF Simple
  <2>4. todo \in Todos
    BY <2>1, <2>2, <2>3, Tuple2Typed, Zenon
  <2>5. Len(todo) = 2 /\ todo[1].op = "skipIfTombstone" /\ todo[2].op = "load"
    BY <2>1, <2>2 DEF Do, Load
  <2>6. QED
    BY <1>1, <2>4, <2>5
<1>2. CASE event # "sync-running"
  <2>1. todo = <<>> \o <<Load(rev)>>
    BY <1>2 DEF When
  <2>2. @ = <<Load(rev)>>
    BY JoinNone1
  <2>3. Load(rev) \in LiveSteps
    BY StepsTyped
  <2>4. todo \in Todos
    BY <2>1, <2>2, <2>3, Tuple1Typed, Zenon
  <2>5. Len(todo) = 1 /\ todo[1].op = "load"
    BY <2>1, <2>2 DEF Load
  <2>6. QED
    BY <1>2, <2>4, <2>5
<1>3. QED
  BY <1>1, <1>2

\* What goes on beside the plans, and the type invariant.
\* The timers and callbacks of an end run beside the lock: they may send a frame
\* or drop the row, and touch nothing of the grace period.
LEMMA EndIs ==
  ASSUME NEW r \in Replicas, EndStep(r) \/ FlushAll(r)
  PROVE  /\ now' = now /\ tombstone' = tombstone /\ (row' = row \/ row' = NoRow)
         /\ timers' = timers /\ entry' = entry /\ fired' = fired /\ job' = job
         /\ sweep' = sweep /\ draining' = draining /\ lost' = lost
         /\ used' = used \/ Fault
<1>1. CASE FireEnd(r) \/ FlushAll(r)
  BY <1>1 DEF FireEnd, FlushAll, store, graceVars, lifeVars
<1>2. ASSUME NEW c \in callbacks[r], SendOngoing(r, c) \/ SendEnded(r, c) \/ DeleteEnded(r, c)
      PROVE  /\ now' = now /\ tombstone' = tombstone /\ (row' = row \/ row' = NoRow)
             /\ timers' = timers /\ entry' = entry /\ fired' = fired /\ job' = job
             /\ sweep' = sweep /\ draining' = draining /\ lost' = lost
             /\ used' = used \/ Fault
  BY <1>2 DEF SendOngoing, SendEnded, DeleteEnded, EndFault, NoFault, store, graceVars, lifeVars
<1>3. QED
  BY <1>1, <1>2 DEF EndStep

LEMMA EndTyped ==
  ASSUME TInv, NEW r \in Replicas, EndStep(r) \/ FlushAll(r)
  PROVE  /\ ender' \in [Replicas -> Enders] /\ callbacks' \in [Replicas -> SUBSET Callbacks]
         /\ stale' \in BOOLEAN /\ card' \in NoCard..3
<1>1. /\ ender \in [Replicas -> Enders] /\ callbacks \in [Replicas -> SUBSET Callbacks]
      /\ stale \in BOOLEAN /\ card \in NoCard..3
  BY DEF TInv, FlagsTyped, RowTyped
<1>2. ender[r] \in Enders
  BY <1>1
<1>3. CASE FireEnd(r)
  <2>1. PICK does \in {"ongoing", "ended"} :
          callbacks' = [callbacks EXCEPT ![r] =
            @ \union {[gen |-> ender[r].gen, does |-> does, step |-> ender[r].step]}]
    BY <1>3 DEF FireEnd
  <2>2. [gen |-> ender[r].gen, does |-> does, step |-> ender[r].step] \in Callbacks
    BY <1>2 DEF Enders, Callbacks
  <2>3. callbacks' \in [Replicas -> SUBSET Callbacks]
    BY <1>1, <2>1, <2>2
  <2>4. ender' \in [Replicas -> Enders]
    BY <1>1, <1>2, <1>3 DEF FireEnd, Enders
  <2>5. QED
    BY <1>1, <1>3, <2>3, <2>4 DEF FireEnd
<1>4. ASSUME NEW c \in callbacks[r], SendOngoing(r, c)
      PROVE  /\ ender' \in [Replicas -> Enders] /\ callbacks' \in [Replicas -> SUBSET Callbacks]
             /\ stale' \in BOOLEAN /\ card' \in NoCard..3
  <2>1. c.step \in 0..3
    BY <1>1 DEF Callbacks
  <2>2. card' \in NoCard..3
    BY <1>1, <1>4, <2>1 DEF SendOngoing, NoCard
  <2> DEFINE late == card # NoCard /\ ~Current(r, c)
  <2>3. late \in BOOLEAN
    OBVIOUS
  <2>4. stale' = late \/ stale' = stale
    BY <1>4, Zenon DEF SendOngoing
  <2> HIDE DEF late
  <2>5. callbacks' \in [Replicas -> SUBSET Callbacks]
    BY <1>1, <1>4 DEF SendOngoing
  <2>6. ender' \in [Replicas -> Enders]
    BY <1>1, <1>4 DEF SendOngoing, Enders
  <2>7. QED
    BY <1>1, <2>2, <2>3, <2>4, <2>5, <2>6
<1>5. ASSUME NEW c \in callbacks[r], SendEnded(r, c)
      PROVE  /\ ender' \in [Replicas -> Enders] /\ callbacks' \in [Replicas -> SUBSET Callbacks]
             /\ stale' \in BOOLEAN /\ card' \in NoCard..3
  <2>1. [c EXCEPT !.does = "delete"] \in Callbacks
    BY <1>1 DEF Callbacks
  <2>2. callbacks' \in [Replicas -> SUBSET Callbacks]
    BY <1>1, <1>5, <2>1 DEF SendEnded
  <2>3. card' \in NoCard..3
    BY <1>1, <1>5 DEF SendEnded, NoCard
  <2>4. stale' \in BOOLEAN
    BY <1>1, <1>5, Zenon DEF SendEnded
  <2>5. ender' = ender
    BY <1>5 DEF SendEnded
  <2>6. QED
    BY <1>1, <2>2, <2>3, <2>4, <2>5
<1>6. ASSUME NEW c \in callbacks[r], DeleteEnded(r, c)
      PROVE  /\ ender' \in [Replicas -> Enders] /\ callbacks' \in [Replicas -> SUBSET Callbacks]
             /\ stale' \in BOOLEAN /\ card' \in NoCard..3
  <2>1. callbacks' \in [Replicas -> SUBSET Callbacks]
    BY <1>1, <1>6 DEF DeleteEnded
  <2>2. ender' \in [Replicas -> Enders]
    BY <1>1, <1>6 DEF DeleteEnded, Enders
  <2>3. QED
    BY <1>1, <1>6, <2>1, <2>2 DEF DeleteEnded
<1>7. CASE FlushAll(r)
  <2>1. [gen |-> ender[r].gen, does |-> "flush", step |-> ender[r].step] \in Callbacks
    BY <1>2 DEF Enders, Callbacks
  <2>2. callbacks' \in [Replicas -> SUBSET Callbacks]
    BY <1>1, <1>7, <2>1 DEF FlushAll
  <2>3. ender' \in [Replicas -> Enders]
    BY <1>1, <1>7 DEF FlushAll, Enders
  <2>4. QED
    BY <1>1, <1>7, <2>2, <2>3 DEF FlushAll
<1>8. QED
  BY <1>3, <1>4, <1>5, <1>6, <1>7 DEF EndStep

LEMMA TypedNext == TInv /\ [Next]_vars => TInv'
<1> SUFFICES ASSUME TInv, [Next]_vars PROVE TInv'
  OBVIOUS
<1> USE DEF TInv
<1>1. ASSUME NEW r \in Replicas, NEW event \in Events, NEW rev \in Revs, handleWebhook(r, event, rev)
      PROVE  TInv'
  <2>1. Begin(r, event, When(event = "sync-running", <<Do("skipIfTombstone")>>) \o <<Load(rev)>>)
    BY <1>1 DEF handleWebhook
  <2>2. When(event = "sync-running", <<Do("skipIfTombstone")>>) \o <<Load(rev)>> \in Todos
    BY WebhookTodo
  <2>3. JobsTyped'
    BY <2>1, <2>2, BeginIs
  <2>4. used' \in [DOMAIN Limit -> Nat]
    BY <1>1, Limits, SpendTyped DEF handleWebhook, FlagsTyped
  <2>5. QED
    BY <1>1, <2>1, <2>3, <2>4
       DEF Begin, handleWebhook, store, endVars, lifeVars, ClockTyped, RowTyped, LiveRows, LiveApps,
           TimersTyped, FlagsTyped
<1>2. ASSUME NEW r \in Replicas, NEW t \in fired[r], graceExpired(r, t) PROVE TInv'
  <2>1. Begin(r, t.kind, <<Load(NoRevision)>>)
    BY <1>2 DEF graceExpired
  <2>2. t.kind \in Kinds
    BY <1>2 DEF TimersTyped, Timers
  <2>3. <<Load(NoRevision)>> \in Todos
    BY StepsTyped, Tuple1Typed DEF Revs
  <2>4. JobsTyped'
    BY <2>1, <2>2, <2>3, BeginIs
  <2>5. QED
    BY <1>2, <2>1, <2>4
       DEF Begin, graceExpired, store, endVars, lifeVars, ClockTyped, RowTyped, LiveRows, LiveApps,
           TimersTyped, FlagsTyped
<1>3. ASSUME NEW r \in Replicas, Step(r) PROVE TInv'
  BY <1>3, TypedStep
<1>4. ASSUME NEW r \in Replicas, Fire(r) PROVE TInv'
  BY <1>4 DEF Fire, store, endVars, lifeVars, ClockTyped, RowTyped, LiveRows, LiveApps,
              TimersTyped, JobsTyped, Jobs, Todos, LiveSteps, FlagsTyped
<1>5. ASSUME NEW r \in Replicas, EndStep(r) \/ FlushAll(r) PROVE TInv'
  <2>1. used' \in [DOMAIN Limit -> Nat]
    BY <1>5, EndIs, Limits, SpendTyped DEF Fault, FlagsTyped
  <2>2. RowTyped' /\ JobsTyped'
    BY <1>5, EndIs, EndTyped
       DEF RowTyped, LiveRows, LiveApps, JobsTyped, Jobs, Todos, LiveSteps
  <2>3. QED
    BY <1>5, <2>1, <2>2, EndIs, EndTyped DEF ClockTyped, TimersTyped, FlagsTyped
<1>7. ASSUME NEW r \in Replicas, Sweep(r) PROVE TInv'
  <2>1. used' \in [DOMAIN Limit -> Nat]
    BY <1>7, Limits, SpendTyped DEF Sweep, FlagsTyped
  <2>2. TimersTyped'
    BY <1>7 DEF Sweep, Drop, graceVars, TimersTyped
  <2>3. lost' \in BOOLEAN
    BY <1>7, RowParts DEF Sweep, FlagsTyped, RowTyped
  <2>4. sweep' \in [Replicas -> {"idle", "seen", "stale"}]
    BY <1>7 DEF Sweep, FlagsTyped
  <2>5. QED
    BY <1>7, <2>1, <2>2, <2>3, <2>4
       DEF Sweep, store, endVars, ClockTyped, RowTyped, LiveRows, LiveApps,
           JobsTyped, Jobs, Todos, LiveSteps, FlagsTyped
<1>8. ASSUME NEW r \in Replicas, StopAll(r) PROVE TInv'
  <2>1. used' \in [DOMAIN Limit -> Nat]
    BY <1>8, Limits, SpendTyped DEF StopAll, FlagsTyped
  <2>2. TimersTyped'
    BY <1>8 DEF StopAll, Drop, TimersTyped
  <2>3. QED
    BY <1>8, <2>1, <2>2
       DEF StopAll, store, endVars, ClockTyped, RowTyped, LiveRows, LiveApps,
           JobsTyped, Jobs, Todos, LiveSteps, FlagsTyped
<1>9. ASSUME NEW r \in Replicas, Restart(r) PROVE TInv'
  <2>1. used' \in [DOMAIN Limit -> Nat]
    BY <1>9, Limits, SpendTyped DEF Restart, FlagsTyped
  <2>2. TimersTyped'
    BY <1>9 DEF Restart, TimersTyped
  <2>3. JobsTyped'
    BY <1>9 DEF Restart, JobsTyped, Jobs, Todos, LiveSteps, LiveApps
  <2>4. ender' \in [Replicas -> Enders] /\ callbacks' \in [Replicas -> SUBSET Callbacks]
    BY <1>9 DEF Restart, FlagsTyped, Enders, NoEnd
  <2>5. QED
    BY <1>9, <2>1, <2>2, <2>3, <2>4
       DEF Restart, store, ClockTyped, RowTyped, LiveRows, LiveApps, FlagsTyped
<1>10. CASE Tick
  <2>1. now' \in 1..Horizon /\ now' \in Nat /\ now' > now
    BY <1>10, TimesAssumption, Limits DEF Tick, ClockTyped, Horizon
  <2>2. Horizon' = Horizon
    BY DEF Horizon
  <2>3. 0..now \subseteq 0..now'
    BY <2>1 DEF ClockTyped
  <2>4. LiveApps \subseteq LiveApps'
    BY <2>3 DEF LiveApps
  <2>5. LiveSteps \subseteq LiveSteps'
    BY <2>4 DEF LiveSteps
  <2>6. Todos \subseteq Todos'
    BY <2>5, SeqMonotonic DEF Todos
  <2>7. Jobs \subseteq Jobs'
    BY <2>6 DEF Jobs
  <2>8. JobsTyped'
    BY <1>10, <2>7 DEF Tick, JobsTyped
  <2>9. RowTyped'
    BY <1>10, <2>4 DEF Tick, store, RowTyped, LiveRows
  <2>10. QED
    BY <1>10, <2>1, <2>2, <2>8, <2>9
       DEF Tick, store, graceVars, endVars, lifeVars, ClockTyped, TimersTyped, FlagsTyped
<1>11. CASE UNCHANGED vars
  BY <1>11 DEF vars, store, graceVars, endVars, lifeVars, ClockTyped, RowTyped, LiveRows, LiveApps,
               TimersTyped, JobsTyped, Jobs, Todos, LiveSteps, FlagsTyped
<1>12. QED
  BY <1>1, <1>2, <1>3, <1>4, <1>5, <1>7, <1>8, <1>9, <1>10, <1>11 DEF Next, Quiet, Revs

\* Type correctness of the provider, for every number of replicas and revisions
\* and every grace period: the plan of a handler is always made of its steps.
THEOREM TypeCorrect == Spec => []TypeOK
<1>1. TInv => TypeOK
  <2> SUFFICES ASSUME TInv PROVE TypeOK
    OBVIOUS
  <2>1. LiveApps \subseteq Apps /\ NoRow \in Apps
    BY DEF LiveApps, Apps, Revs, NoRow, App, TInv, ClockTyped
  <2>2. LiveSteps \subseteq Steps
    BY <2>1 DEF LiveSteps, Steps, Simple, Revs
  <2>3. Seq(LiveSteps) \subseteq Seq(Steps) /\ <<>> \in Seq(Steps)
    BY <2>2, SeqMonotonic, EmptySeq
  <2>4. Jobs \subseteq [by : Events \union Kinds \union {"none"}, todo : Seq(Steps)]
    <3>1. Free \in [by : Events \union Kinds \union {"none"}, todo : Seq(Steps)]
      BY <2>3 DEF Free
    <3>2. Todos \subseteq Seq(Steps)
      BY <2>3 DEF Todos
    <3>3. QED
      BY <3>1, <3>2 DEF Jobs
  <2>5. job \in [Replicas -> [by : Events \union Kinds \union {"none"}, todo : Seq(Steps)]]
    BY <2>4 DEF TInv, JobsTyped
  <2>6. QED
    BY <2>1, <2>5 DEF TypeOK, TInv, ClockTyped, RowTyped, LiveRows, TimersTyped, FlagsTyped
<1>2. QED
  BY <1>1, TypedInit, TypedNext, PTL DEF Spec

---------------------------------------------------------------------------
(* The tombstone of a deployed app (one replica, no faults).               *)

SkipFirst(todo) == \A i \in 1..Len(todo) : todo[i].op = "skipIfTombstone" => i = 1
AtSkip(todo) == Len(todo) > 0 /\ todo[1].op = "skipIfTombstone"

\* What is left of a plan, while the tombstone stands or not.
KeptBy(by, todo, stands, pending) ==
  /\ SkipFirst(todo)
  /\ stands => \/ AtSkip(todo)
               \/ \A i \in 1..Len(todo) :
                    ~PendingWrite(todo[i]) /\ (todo[i].op = "load" => by # "sync-running")
  /\ \A i \in 1..Len(todo) : todo[i].op = "tombstone" =>
       /\ \A j \in 1..Len(todo) : ~PendingWrite(todo[j]) /\ todo[j].op # "load"
       /\ ~pending \/ \E j \in 1..(i - 1) : todo[j].op = "delete"

KeptOut ==
  /\ tombstone > now => ~row.pending
  /\ \A r \in Replicas : KeptBy(job[r].by, job[r].todo, tombstone > now, row.pending)
KInv == used.faults = 0 => KeptOut

AtMostOne == \A r, s \in Replicas : r = s

\* No step takes a fault back; one that a fault goes with counts it.
LEMMA FaultsStay ==
  ASSUME TInv, [Next]_vars, used'.faults = 0
  PROVE  used.faults = 0 /\ ~Fault
<1>1. used.faults \in Nat /\ "faults" \in DOMAIN Limit
  BY Limits DEF TInv, FlagsTyped
<1>2. ~Fault
  BY <1>1 DEF Fault, Spend, TInv, FlagsTyped
<1>3. \A what \in DOMAIN Limit : Spend(what) => used.faults = 0
  BY <1>1 DEF Spend, TInv, FlagsTyped
<1>4. UNCHANGED used => used.faults = 0
  OBVIOUS
<1>5. ASSUME NEW r \in Replicas, Step(r) PROVE used.faults = 0
  BY <1>2, <1>4, <1>5 DEF Step, LoadApp, SkipIfTombstone, SaveApp, DeleteApp, SetTombstone, CreateActivity,
     UpdateActivity, ArmTimer, SetEnd, NoFault
<1>6. ASSUME NEW r \in Replicas, EndStep(r) \/ FlushAll(r) PROVE used.faults = 0
  BY <1>2, <1>4, <1>6, EndIs
<1>7. QED
  BY <1>2, <1>3, <1>4, <1>5, <1>6, Limits DEF Next, vars, handleWebhook, graceExpired, Fire,
     Sweep, StopAll, Restart, Tick, Quiet, NoFault

LEMMA KeptEmpty ==
  ASSUME NEW by, NEW stands, NEW pending
  PROVE  KeptBy(by, <<>>, stands, pending)
BY DEF KeptBy, SkipFirst

\* A step of the plan: a grace period is opened by a write of the plan only, and
\* a tombstone is set by it only.
LEMMA KeptContinue ==
  ASSUME TInv, KeptOut, NEW r \in Replicas, job[r] # Free, Continue(r), now' = now,
         row'.pending \in BOOLEAN,
         tombstone' > now => tombstone > now \/ job[r].todo[1].op = "tombstone",
         row'.pending => \/ PendingWrite(job[r].todo[1])
                         \/ row.pending /\ job[r].todo[1].op # "delete",
         job[r].todo[1].op = "skipIfTombstone" => ~(tombstone > now)
  PROVE  KeptBy(job'[r].by, job'[r].todo, tombstone' > now', row'.pending)
<1> DEFINE todo == job[r].todo
           rest == job'[r].todo
           by == job[r].by
           stands == tombstone > now
           standing == tombstone' > now
           pending == row.pending
           after == row'.pending
<1>1. /\ Len(todo) \in Nat \ {0} /\ Len(rest) = Len(todo) - 1
      /\ \A i \in 1..Len(rest) : rest[i] = todo[i + 1]
      /\ rest # <<>> => job'[r].by = job[r].by
  BY JobParts, ContinueIs DEF TInv
<1>2. KeptBy(by, todo, stands, pending)
  BY DEF KeptOut
<1>3. /\ todo[1].op = "skipIfTombstone" => ~stands
      /\ standing => stands \/ todo[1].op = "tombstone"
      /\ after => PendingWrite(todo[1]) \/ (pending /\ todo[1].op # "delete")
  OBVIOUS
<1>4. KeptBy(by, rest, standing, after)
  <2> HIDE DEF todo, rest, by, stands, standing, pending, after
  <2>0. \A j \in 1..Len(rest) : j + 1 \in 1..Len(todo) /\ rest[j] = todo[j + 1]
    BY <1>1
  <2>1. SkipFirst(rest)
    BY <1>1, <1>2 DEF KeptBy, SkipFirst
  <2>2. standing => \A i \in 1..Len(rest) :
                    ~PendingWrite(rest[i]) /\ (rest[i].op = "load" => by # "sync-running")
    <3>1. CASE stands
      BY <2>0, <3>1, <1>2, <1>3 DEF KeptBy, AtSkip
    <3>2. CASE todo[1].op = "tombstone"
      <4>1. 1 \in 1..Len(todo)
        BY <1>1
      <4>2. \A j \in 1..Len(todo) : ~PendingWrite(todo[j]) /\ todo[j].op # "load"
        BY <3>2, <4>1, <1>2 DEF KeptBy
      <4>3. QED
        BY <2>0, <4>2
    <3>3. QED
      BY <3>1, <3>2, <1>3
  <2>3. ASSUME NEW i \in 1..Len(rest), rest[i].op = "tombstone"
        PROVE  /\ \A j \in 1..Len(rest) : ~PendingWrite(rest[j]) /\ rest[j].op # "load"
               /\ ~after \/ \E j \in 1..(i - 1) : rest[j].op = "delete"
    <3>1. i + 1 \in 1..Len(todo) /\ todo[i + 1].op = "tombstone"
      BY <2>3, <1>1
    <3>2. /\ \A j \in 1..Len(todo) : ~PendingWrite(todo[j]) /\ todo[j].op # "load"
          /\ ~pending \/ \E j \in 1..i : todo[j].op = "delete"
      BY <3>1, <1>2 DEF KeptBy
    <3>3. \A j \in 1..Len(rest) : ~PendingWrite(rest[j]) /\ rest[j].op # "load"
      BY <3>2, <2>0
    <3>4. ASSUME after PROVE \E j \in 1..(i - 1) : rest[j].op = "delete"
      <4>1. PICK j \in 1..i : todo[j].op = "delete"
        BY <3>2, <3>4, <1>1, <1>3
      <4>2. j # 1
        BY <3>2, <3>4, <4>1, <1>1, <1>3
      <4>3. j - 1 \in 1..(i - 1) /\ rest[j - 1] = todo[j]
        BY <4>1, <4>2, <1>1
      <4>4. QED
        BY <4>1, <4>3
    <3>5. QED
      BY <3>3, <3>4
  <2>4. QED
    BY <2>1, <2>2, <2>3 DEF KeptBy
<1>5. CASE rest = <<>>
  BY <1>5, KeptEmpty
<1>6. CASE rest # <<>>
  BY <1>1, <1>4, <1>6
<1>7. QED
  BY <1>5, <1>6

\* The tombstone and the row are as before, and the job is or is over.
LEMMA KeptAside ==
  ASSUME KeptOut, now' \in Nat, now \in Nat, tombstone \in Nat, now' >= now, tombstone' = tombstone,
         row'.pending => row.pending,
         \A r \in Replicas : job'[r] = job[r] \/ job'[r] = Free
  PROVE  KeptOut'
<1>1. tombstone' > now' => tombstone > now
  OBVIOUS
<1>2. ASSUME NEW r \in Replicas
      PROVE  KeptBy(job'[r].by, job'[r].todo, tombstone' > now', row'.pending)
  <2>1. CASE job'[r] = Free
    BY <2>1, KeptEmpty DEF Free
  <2>2. CASE job'[r] = job[r]
    <3>1. KeptBy(job[r].by, job[r].todo, tombstone > now, row.pending)
      BY DEF KeptOut
    <3>2. QED
      BY <1>1, <2>2, <3>1 DEF KeptBy
  <2>3. QED
    BY <2>1, <2>2
<1>3. QED
  BY <1>1, <1>2 DEF KeptOut

\* A step of the plan of the only replica.
LEMMA KeptStep ==
  ASSUME AtMostOne, TInv, TInv', KeptOut, NEW r \in Replicas, Step(r), ~Fault
  PROVE  KeptOut'
<1>1. /\ now \in Nat /\ tombstone \in Nat /\ now' = now
      /\ row.pending \in BOOLEAN /\ row'.pending \in BOOLEAN
  <2>1. now' = now
    BY TypedStep
  <2>2. row'.pending \in BOOLEAN
    <3>1. row' = NoRow \/ row' \in LiveApps'
      BY DEF TInv, RowTyped, LiveRows
    <3>2. \A app \in LiveApps' : app.pending \in BOOLEAN
      BY DEF LiveApps
    <3>3. NoRow.pending \in BOOLEAN
      BY DEF NoRow, App
    <3>4. QED
      BY <3>1, <3>2, <3>3
  <2>3. row.pending \in BOOLEAN
    BY RowParts DEF TInv, RowTyped
  <2>4. QED
    BY <2>1, <2>2, <2>3 DEF TInv, ClockTyped
<1>2. /\ job[r] # Free => /\ 1 \in 1..Len(job[r].todo) /\ job[r].by \in Events \union Kinds
                          /\ Arg(r) \in LiveSteps /\ Arg(r) = job[r].todo[1]
      /\ KeptBy(job[r].by, job[r].todo, tombstone > now, row.pending)
  BY JobParts DEF TInv, KeptOut, Arg
<1>3. SUFFICES ASSUME TRUE
      PROVE  /\ tombstone' > now' => ~row'.pending
             /\ KeptBy(job'[r].by, job'[r].todo, tombstone' > now', row'.pending)
  BY DEF KeptOut, AtMostOne
<1>4. CASE LoadApp(r)
  <2> DEFINE plan == Plan(job[r].by, row, Arg(r).rev)
  <2>1. /\ job[r] # Free /\ job[r].todo[1].op = "load" /\ Then(r, plan)
        /\ row' = row /\ tombstone' = tombstone
    BY <1>2, <1>4 DEF LoadApp, Doing, store, Arg
  <2>2. Arg(r).rev \in Revs
    BY <1>2, <2>1, OpParts
  <2>3. Sound(job[r].by, row, plan)
    BY <1>1, <1>2, <2>1, <2>2, PlanSound DEF TInv, RowTyped
  <2>4. plan \in Seq(LiveSteps) /\ plan # <<>>
    BY <2>3 DEF Sound, Todos
  <2>5. job'[r].todo = plan /\ job'[r].by = job[r].by
    BY <1>1, <2>1, <2>4, ThenIs DEF TInv
  <2>6. tombstone > now => ~row.pending /\ job[r].by # "sync-running"
    BY <1>2, <2>1 DEF KeptBy, AtSkip, KeptOut
  <2>7. KeptBy(job[r].by, plan, tombstone > now, row.pending)
    <3>1. \A i \in 1..Len(plan) : plan[i].op \notin {"load", "retry"}
      BY <2>3 DEF Sound
    <3>2. SkipFirst(plan)
      BY <2>3 DEF Sound, SkipFirst
    <3>3. Len(plan) > 0
      BY <2>4
    <3>4. tombstone > now => AtSkip(plan) \/ \A i \in 1..Len(plan) : ~PendingWrite(plan[i])
      BY <2>3, <2>6, <3>3 DEF Sound, AtSkip
    <3>5. \A i \in 1..Len(plan) : plan[i].op = "tombstone" =>
            /\ \A j \in 1..Len(plan) : ~PendingWrite(plan[j])
            /\ ~row.pending \/ \E j \in 1..(i - 1) : plan[j].op = "delete"
      BY <2>3 DEF Sound
    <3> HIDE DEF plan
    <3>6. QED
      BY <3>1, <3>2, <3>4, <3>5 DEF KeptBy
  <2>8. QED
    BY <1>1, <2>1, <2>5, <2>6, <2>7
<1>5. CASE SkipIfTombstone(r)
  <2>1. /\ job[r] # Free /\ row' = row /\ tombstone' = tombstone
        /\ job[r].todo[1].op = "skipIfTombstone"
    BY <1>2, <1>5 DEF SkipIfTombstone, Doing, store, Arg
  <2>2. CASE tombstone > now /\ Then(r, <<>>)
    <3>1. job'[r] = Free
      BY <1>1, <2>1, <2>2, ThenIs, EmptySeq DEF TInv
    <3>2. QED
      BY <1>1, <2>1, <3>1, KeptEmpty DEF Free, KeptOut
  <2>3. CASE tombstone <= now /\ Continue(r)
    <3>1. ~(tombstone > now)
      BY <1>1, <2>3
    <3>2. KeptBy(job'[r].by, job'[r].todo, tombstone' > now', row'.pending)
      BY <1>1, <2>1, <2>3, <3>1, KeptContinue
    <3>3. QED
      BY <1>1, <2>1, <3>1, <3>2
  <2>4. QED
    BY <1>5, <2>2, <2>3 DEF SkipIfTombstone
<1>6. CASE SaveApp(r)
  <2>1. /\ job[r] # Free /\ tombstone' = tombstone /\ Continue(r)
        /\ job[r].todo[1].op \in {"save", "savePending"}
    BY <1>2, <1>6 DEF SaveApp, Doing, Arg
  <2>2. row'.pending => PendingWrite(job[r].todo[1])
    BY <1>2, <1>6, <2>1 DEF SaveApp, Doing, Arg, PendingWrite
  <2>3. tombstone > now => ~PendingWrite(job[r].todo[1])
    BY <1>2, <2>1 DEF KeptBy, AtSkip
  <2>4. QED
    BY <1>1, <2>1, <2>2, <2>3, KeptContinue DEF KeptOut
<1>7. CASE DeleteApp(r)
  <2>1. /\ job[r] # Free /\ tombstone' = tombstone /\ Continue(r) /\ ~row'.pending
        /\ job[r].todo[1].op = "delete"
    BY <1>2, <1>7 DEF DeleteApp, Doing, Arg, NoRow, App
  <2>2. QED
    BY <1>1, <2>1, KeptContinue DEF KeptOut
<1>8. CASE SetTombstone(r)
  <2>1. /\ job[r] # Free /\ row' = row /\ Continue(r) /\ job[r].todo[1].op = "tombstone"
    BY <1>2, <1>8 DEF SetTombstone, Doing, Arg
  <2>2. ~row.pending
    BY <1>2, <2>1 DEF KeptBy
  <2>3. QED
    BY <1>1, <2>1, <2>2, KeptContinue
<1>9. CASE CreateActivity(r) \/ UpdateActivity(r) \/ ArmTimer(r) \/ SetEnd(r)
  <2>1. /\ job[r] # Free /\ row' = row /\ tombstone' = tombstone /\ Continue(r)
        /\ job[r].todo[1].op \notin {"delete", "skipIfTombstone"}
    BY <1>2, <1>9 DEF CreateActivity, UpdateActivity, ArmTimer, SetEnd, Doing, Arg, store
  <2>2. QED
    BY <1>1, <2>1, KeptContinue DEF KeptOut
<1>10. QED
  BY <1>4, <1>5, <1>6, <1>7, <1>8, <1>9 DEF Step

LEMMA KeptNext ==
  ASSUME AtMostOne, TInv, KInv, [Next]_vars
  PROVE  KInv'
<1> SUFFICES ASSUME used'.faults = 0 PROVE KeptOut'
  BY DEF KInv
<1>1. KeptOut /\ ~Fault /\ TInv'
  BY FaultsStay, TypedNext DEF KInv
<1>2. now \in Nat /\ tombstone \in Nat
  BY DEF TInv, ClockTyped
<1>3. ASSUME NEW r \in Replicas, NEW event \in Events, NEW rev \in Revs, handleWebhook(r, event, rev)
      PROVE  KeptOut'
  <2> DEFINE todo == When(event = "sync-running", <<Do("skipIfTombstone")>>) \o <<Load(rev)>>
  <2>1. /\ todo \in Todos
        /\ event = "sync-running" => Len(todo) = 2 /\ todo[1].op = "skipIfTombstone" /\ todo[2].op = "load"
        /\ event # "sync-running" => Len(todo) = 1 /\ todo[1].op = "load"
    BY WebhookTodo
  <2>2. Begin(r, event, todo)
    BY <1>3 DEF handleWebhook
  <2> HIDE DEF todo
  <2>3. job'[r] = [by |-> event, todo |-> todo]
    BY <2>1, <2>2, BeginIs DEF TInv
  <2>4. row' = row /\ tombstone' = tombstone /\ now' = now
    BY <2>2 DEF Begin, store
  <2>5. KeptBy(event, todo, tombstone > now, row.pending)
    BY <2>1 DEF KeptBy, SkipFirst, AtSkip, PendingWrite
  <2>6. QED
    BY <1>1, <2>3, <2>4, <2>5 DEF KeptOut, AtMostOne
<1>4. ASSUME NEW r \in Replicas, NEW t \in fired[r], graceExpired(r, t) PROVE KeptOut'
  <2> DEFINE todo == <<Load(NoRevision)>>
  <2>1. todo \in Todos /\ Len(todo) = 1 /\ todo[1].op = "load"
    BY StepsTyped, Tuple1Typed DEF Revs, Load
  <2>2. Begin(r, t.kind, todo) /\ t.kind \in Kinds
    BY <1>4 DEF graceExpired, TInv, TimersTyped, Timers
  <2> HIDE DEF todo
  <2>3. job'[r] = [by |-> t.kind, todo |-> todo]
    BY <2>1, <2>2, BeginIs DEF TInv
  <2>4. row' = row /\ tombstone' = tombstone /\ now' = now
    BY <2>2 DEF Begin, store
  <2>5. KeptBy(t.kind, todo, tombstone > now, row.pending)
    BY <2>1, <2>2 DEF KeptBy, SkipFirst, AtSkip, PendingWrite, Kinds
  <2>6. QED
    BY <1>1, <2>3, <2>4, <2>5 DEF KeptOut, AtMostOne
<1>5. ASSUME NEW r \in Replicas, Step(r) PROVE KeptOut'
  BY <1>1, <1>5, KeptStep
<1>6. ASSUME NEW r \in Replicas, Fire(r) \/ Sweep(r) \/ StopAll(r) PROVE KeptOut'
  <2>1. now' = now /\ row' = row /\ tombstone' = tombstone /\ job' = job
    BY <1>6 DEF Fire, Sweep, StopAll, store
  <2>2. QED
    BY <1>1, <1>2, <2>1, KeptAside
<1>7. ASSUME NEW r \in Replicas, EndStep(r) \/ FlushAll(r) PROVE KeptOut'
  <2>1. /\ now' = now /\ tombstone' = tombstone /\ job' = job
        /\ row'.pending => row.pending
    BY <1>7, EndIs DEF NoRow, App
  <2>2. QED
    BY <1>1, <1>2, <2>1, KeptAside
<1>8. ASSUME NEW r \in Replicas, Restart(r) PROVE KeptOut'
  <2>1. now' = now /\ row' = row /\ tombstone' = tombstone
    BY <1>8 DEF Restart, store
  <2>2. \A s \in Replicas : job'[s] = job[s] \/ job'[s] = Free
    BY <1>8 DEF Restart, TInv, JobsTyped
  <2>3. QED
    BY <1>1, <1>2, <2>1, <2>2, KeptAside
<1>9. CASE Tick
  <2>1. now' = now + 1 /\ row' = row /\ tombstone' = tombstone /\ job' = job
    BY <1>9 DEF Tick, store
  <2>2. QED
    BY <1>1, <1>2, <2>1, KeptAside
<1>10. CASE UNCHANGED vars
  <2>1. now' = now /\ row' = row /\ tombstone' = tombstone /\ job' = job
    BY <1>10 DEF vars, store
  <2>2. QED
    BY <1>1, <1>2, <2>1, KeptAside
<1>11. QED
  BY <1>3, <1>4, <1>5, <1>6, <1>7, <1>8, <1>9, <1>10 DEF Next, Quiet, Revs

\* With one replica and no failed call, events that arrive out of order open no
\* grace period while the tombstone of a deployed app lasts, whatever timers,
\* ends, restarts and sweeps come between the steps of the handlers.
THEOREM TombstoneHolds == ASSUME AtMostOne PROVE Spec => []TombstoneKeepsOut
<1>1. Init => KInv
  <2> SUFFICES ASSUME Init PROVE KeptOut
    BY DEF KInv
  <2>1. ~(tombstone > now)
    BY DEF Init
  <2>2. \A r \in Replicas : job[r] = Free
    BY DEF Init
  <2>3. QED
    BY <2>1, <2>2, KeptEmpty DEF KeptOut, Free
<1>2. TInv /\ KInv => TombstoneKeepsOut
  BY DEF KInv, KeptOut, TombstoneKeepsOut
<1>3. TInv /\ KInv /\ [Next]_vars => TInv' /\ KInv'
  BY TypedNext, KeptNext
<1>4. QED
  BY <1>1, <1>2, <1>3, TypedInit, PTL DEF Spec

---------------------------------------------------------------------------
(* A pending app has a timer (any number of replicas, a grace period).     *)

\* A plan that leaves no pending row without a timer behind it.
PlanArms(todo) ==
  /\ SkipFirst(todo)
  /\ \A i \in 1..Len(todo) :
       PendingWrite(todo[i]) => \E j \in (i + 1)..Len(todo) : Arms(todo[j])
  /\ \A i \in 1..Len(todo) :
       todo[i].op = "disarm" => \E j \in (i + 1)..Len(todo) : Shows(todo[j])

\* A plan that will show or drop the app, or leave a timer behind.
Resolves(by, todo) ==
  /\ \A i \in 1..Len(todo) : todo[i].op # "skipIfTombstone"
  /\ \E i \in 1..Len(todo) :
       Arms(todo[i]) \/ Shows(todo[i]) \/ (todo[i].op = "load" /\ by \in Kinds)

\* What graceTimers holds is armed or has expired, but while its own timer is handled.
Held(r) ==
  \/ entry[r] = NoTimer \/ entry[r] \in timers[r] \union fired[r]
  \/ /\ job[r].by \in Kinds /\ Len(job[r].todo) > 0
     /\ job[r].todo[1].op \in {"load", "disarm", "forget"}

Timed(r) == timers[r] # {} \/ fired[r] # {} \/ Resolves(job[r].by, job[r].todo)

TimerOwed ==
  /\ \A r \in Replicas : PlanArms(job[r].todo) /\ Held(r)
  /\ row.pending /\ ~lost => \E r \in Replicas : Timed(r)
OInv == used.faults = 0 => TimerOwed

LEMMA FreeArms == PlanArms(Free.todo) /\ ~Resolves(Free.by, Free.todo)
BY DEF Free, PlanArms, SkipFirst, Resolves

\* What is left of a plan when its first step is done.
LEMMA ArmsContinue ==
  ASSUME TInv, NEW r \in Replicas, job[r] # Free, Continue(r), now' = now, PlanArms(job[r].todo)
  PROVE  /\ PlanArms(job'[r].todo)
         /\ \/ PendingWrite(job[r].todo[1]) \/ job[r].todo[1].op = "disarm"
            \/ /\ Resolves(job[r].by, job[r].todo)
               /\ ~Arms(job[r].todo[1]) /\ ~Shows(job[r].todo[1]) /\ job[r].todo[1].op # "load"
            => job[r].todo[1].op # "skipIfTombstone" /\ Resolves(job'[r].by, job'[r].todo)
<1> DEFINE todo == job[r].todo
           rest == job'[r].todo
           by == job[r].by
           after == job'[r].by
<1>1. /\ Len(todo) \in Nat \ {0} /\ Len(rest) = Len(todo) - 1
      /\ \A i \in 1..Len(rest) : rest[i] = todo[i + 1]
      /\ rest # <<>> => after = by
  <2>1. JobsTyped
    BY DEF TInv
  <2>2. rest = Tail(todo) /\ (rest # <<>> => after = by)
    BY <2>1, ContinueIs
  <2>3. /\ Len(todo) \in Nat \ {0} /\ Len(Tail(todo)) = Len(todo) - 1
        /\ \A i \in 1..Len(Tail(todo)) : Tail(todo)[i] = todo[i + 1]
    BY <2>1, JobParts
  <2> HIDE DEF todo, rest, after, by
  <2>4. QED
    BY <2>2, <2>3
<1>2. Len(rest) > 0 => rest # <<>>
  OBVIOUS
<1>3. PlanArms(todo)
  OBVIOUS
<1> SUFFICES /\ PlanArms(rest)
             /\ \/ PendingWrite(todo[1]) \/ todo[1].op = "disarm"
                \/ /\ Resolves(by, todo)
                   /\ ~Arms(todo[1]) /\ ~Shows(todo[1]) /\ todo[1].op # "load"
                => todo[1].op # "skipIfTombstone" /\ Resolves(after, rest)
  OBVIOUS
<1> HIDE DEF todo, rest, by, after
<1>4. /\ \A i \in 1..Len(rest) : i + 1 \in 1..Len(todo) /\ rest[i] = todo[i + 1]
      /\ \A i \in 2..Len(todo) : i - 1 \in 1..Len(rest) /\ rest[i - 1] = todo[i]
      /\ \A i \in 1..Len(rest) : \A j \in (i + 2)..Len(todo) : j \in 2..Len(todo) /\ j - 1 \in (i + 1)..Len(rest)
  BY <1>1
<1>5. \A i \in 1..Len(rest) : rest[i].op # "skipIfTombstone"
  BY <1>3, <1>4 DEF PlanArms, SkipFirst
<1>6. SkipFirst(rest)
  BY <1>5 DEF SkipFirst
<1>7. ASSUME NEW i \in 1..Len(rest), PendingWrite(rest[i])
      PROVE  \E j \in (i + 1)..Len(rest) : Arms(rest[j])
  <2>1. i + 1 \in 1..Len(todo) /\ PendingWrite(todo[i + 1])
    BY <1>4, <1>7
  <2>2. PICK j \in (i + 2)..Len(todo) : Arms(todo[j])
    BY <1>3, <2>1 DEF PlanArms
  <2>3. j - 1 \in (i + 1)..Len(rest) /\ rest[j - 1] = todo[j]
    BY <1>4, <2>2
  <2>4. QED
    BY <2>2, <2>3
<1>8. ASSUME NEW i \in 1..Len(rest), rest[i].op = "disarm"
      PROVE  \E j \in (i + 1)..Len(rest) : Shows(rest[j])
  <2>1. i + 1 \in 1..Len(todo) /\ todo[i + 1].op = "disarm"
    BY <1>4, <1>8
  <2>2. PICK j \in (i + 2)..Len(todo) : Shows(todo[j])
    BY <1>3, <2>1 DEF PlanArms
  <2>3. j - 1 \in (i + 1)..Len(rest) /\ rest[j - 1] = todo[j]
    BY <1>4, <2>2
  <2>4. QED
    BY <2>2, <2>3
<1>9. ASSUME NEW i \in 2..Len(todo),
             Arms(todo[i]) \/ Shows(todo[i]) \/ (todo[i].op = "load" /\ by \in Kinds)
      PROVE  Resolves(after, rest)
  <2>1. i - 1 \in 1..Len(rest) /\ rest[i - 1] = todo[i]
    BY <1>4
  <2>2. after = by
    BY <1>1, <1>2, <2>1
  <2>3. QED
    BY <1>5, <1>9, <2>1, <2>2 DEF Resolves
<1>10. 1 \in 1..Len(todo)
  BY <1>1
<1>11. CASE PendingWrite(todo[1])
  <2>1. todo[1].op # "skipIfTombstone"
    BY <1>11 DEF PendingWrite
  <2>2. PICK j \in 2..Len(todo) : Arms(todo[j])
    BY <1>3, <1>10, <1>11 DEF PlanArms
  <2>3. QED
    BY <1>6, <1>7, <1>8, <1>9, <2>1, <2>2 DEF PlanArms
<1>12. CASE todo[1].op = "disarm"
  <2>1. PICK j \in 2..Len(todo) : Shows(todo[j])
    BY <1>3, <1>10, <1>12 DEF PlanArms
  <2>2. QED
    BY <1>6, <1>7, <1>8, <1>9, <1>12, <2>1 DEF PlanArms
<1>13. CASE /\ Resolves(by, todo)
            /\ ~Arms(todo[1]) /\ ~Shows(todo[1]) /\ todo[1].op # "load"
  <2>1. todo[1].op # "skipIfTombstone"
    BY <1>10, <1>13 DEF Resolves
  <2>2. PICK i \in 1..Len(todo) :
          Arms(todo[i]) \/ Shows(todo[i]) \/ (todo[i].op = "load" /\ by \in Kinds)
    BY <1>13 DEF Resolves
  <2>3. i \in 2..Len(todo)
    BY <1>1, <1>13, <2>2
  <2>4. Resolves(after, rest)
    BY <1>9, <2>2, <2>3
  <2>5. QED
    BY <1>6, <1>7, <1>8, <2>1, <2>4 DEF PlanArms
<1>14. QED
  BY <1>6, <1>7, <1>8, <1>11, <1>12, <1>13 DEF PlanArms

\* What is to show of a step of one replica.
LEMMA OwedMove ==
  ASSUME TimerOwed, NEW r \in Replicas, PlanArms(job'[r].todo), Held(r)',
         \A s \in Replicas : s # r =>
           /\ job'[s] = job[s] /\ timers'[s] = timers[s] /\ fired'[s] = fired[s]
           /\ entry'[s] = entry[s],
         row'.pending /\ ~lost' =>
           Timed(r)' \/ (row.pending /\ ~lost /\ (Timed(r) => Timed(r)'))
  PROVE  TimerOwed'
<1>1. ASSUME NEW s \in Replicas PROVE PlanArms(job'[s].todo) /\ Held(s)'
  <2>1. CASE s # r
    BY <2>1 DEF TimerOwed, Held
  <2>2. QED
    BY <2>1
<1>2. ASSUME row'.pending, ~lost', ~Timed(r)' PROVE \E s \in Replicas : Timed(s)'
  <2>1. row.pending /\ ~lost /\ ~Timed(r)
    BY <1>2
  <2>2. PICK s \in Replicas : Timed(s)
    BY <2>1 DEF TimerOwed
  <2>3. s # r
    BY <2>1, <2>2
  <2>4. Timed(s)'
    BY <2>2, <2>3 DEF Timed
  <2>5. QED
    BY <2>4
<1>3. row'.pending /\ ~lost' => \E s \in Replicas : Timed(s)'
  BY <1>2
<1>4. QED
  BY <1>1, <1>3 DEF TimerOwed

LEMMA OwedStep ==
  ASSUME Grace > 0, TInv, TimerOwed, NEW r \in Replicas, Step(r), ~Fault
  PROVE  TimerOwed'
<1> DEFINE head == job[r].todo[1]
<1>1. /\ now \in Nat /\ now' = now
      /\ job[r] # Free => /\ Len(job[r].todo) > 0 /\ 1 \in 1..Len(job[r].todo)
                          /\ job[r].by \in Events \union Kinds
                          /\ Arg(r) \in LiveSteps /\ Arg(r) = head
      /\ PlanArms(job[r].todo) /\ Held(r)
  BY JobParts, TypedStep DEF TInv, ClockTyped, TimerOwed, Arg
<1>2. CASE LoadApp(r)
  <2> DEFINE plan == Plan(job[r].by, row, Arg(r).rev)
  <2>1. /\ job[r] # Free /\ head.op = "load" /\ Then(r, plan)
        /\ row' = row /\ timers' = timers /\ fired' = fired /\ entry' = entry
    BY <1>1, <1>2 DEF LoadApp, Doing, store, graceVars, Arg
  <2>2. Arg(r).rev \in Revs
    BY <1>1, <2>1, OpParts
  <2>3. Sound(job[r].by, row, plan)
    BY <1>1, <2>1, <2>2, PlanSound DEF TInv, RowTyped
  <2>4. plan \in Seq(LiveSteps) /\ plan # <<>>
    BY <2>3 DEF Sound, Todos
  <2>5. /\ job'[r].todo = plan /\ job'[r].by = job[r].by
        /\ \A s \in Replicas : s # r => job'[s] = job[s]
    BY <1>1, <2>1, <2>4, ThenIs DEF TInv
  <2>6. Len(plan) > 0
    BY <2>4
  <2>7. PlanArms(plan)
    BY <2>3 DEF Sound, PlanArms, SkipFirst
  <2>8. row.pending => Resolves(job[r].by, plan)
    BY <2>3 DEF Sound, Resolves
  <2>9. job[r].by \in Kinds => plan[1].op \in {"load", "disarm", "forget"}
    BY <2>3 DEF Sound
  <2> HIDE DEF plan
  <2>10. Held(r)'
    BY <1>1, <2>1, <2>5, <2>6, <2>9 DEF Held
  <2>11. row'.pending => Timed(r)'
    BY <2>1, <2>5, <2>8 DEF Timed
  <2>12. QED
    BY <2>1, <2>5, <2>7, <2>10, <2>11, OwedMove
<1>3. ASSUME job[r] # Free, head.op \notin {"load", "disarm", "forget"}
      PROVE  entry[r] = NoTimer \/ entry[r] \in timers[r] \union fired[r]
  BY <1>1, <1>3 DEF Held
<1>4. CASE SkipIfTombstone(r)
  <2>1. /\ job[r] # Free /\ head.op = "skipIfTombstone"
        /\ row' = row /\ timers' = timers /\ fired' = fired /\ entry' = entry /\ lost' = lost
    BY <1>1, <1>4 DEF SkipIfTombstone, Doing, store, graceVars, Arg
  <2>2. ~Resolves(job[r].by, job[r].todo)
    BY <1>1, <2>1 DEF Resolves
  <2>3. /\ PlanArms(job'[r].todo)
        /\ \A s \in Replicas : s # r => job'[s] = job[s]
    <3>1. CASE Then(r, <<>>)
      <4>1. job'[r] = Free /\ \A s \in Replicas : s # r => job'[s] = job[s]
        BY <1>1, <2>1, <3>1, ThenIs, EmptySeq DEF TInv
      <4>2. QED
        BY <4>1, FreeArms
    <3>2. CASE Continue(r)
      BY <1>1, <2>1, <3>2, ArmsContinue, ContinueIs DEF TInv
    <3>3. QED
      BY <1>4, <3>1, <3>2 DEF SkipIfTombstone
  <2>4. Held(r)'
    BY <1>3, <2>1 DEF Held
  <2>5. Timed(r) => Timed(r)'
    BY <2>1, <2>2 DEF Timed
  <2>6. QED
    BY <2>1, <2>3, <2>4, <2>5, OwedMove
<1>5. ASSUME job[r] # Free, Continue(r)
      PROVE  /\ PlanArms(job'[r].todo)
             /\ \A s \in Replicas : s # r => job'[s] = job[s]
             /\ PendingWrite(head) \/ head.op = "disarm" => Resolves(job'[r].by, job'[r].todo)
             /\ /\ Resolves(job[r].by, job[r].todo)
                /\ ~Arms(head) /\ ~Shows(head) /\ head.op # "load"
                => Resolves(job'[r].by, job'[r].todo)
  BY <1>1, <1>5, ArmsContinue, ContinueIs DEF TInv
<1>6. CASE SaveApp(r)
  <2>1. /\ job[r] # Free /\ Continue(r) /\ head.op \in {"save", "savePending"}
        /\ timers' = timers /\ fired' = fired /\ entry' = entry /\ lost' = lost
    BY <1>1, <1>6 DEF SaveApp, Doing, graceVars, Arg
  <2>2. row'.pending => PendingWrite(head)
    BY <1>1, <1>6, <2>1 DEF SaveApp, Doing, Arg, PendingWrite
  <2>3. row'.pending => Timed(r)'
    BY <1>5, <2>1, <2>2 DEF Timed
  <2>4. Held(r)'
    BY <1>3, <2>1 DEF Held
  <2>5. QED
    BY <1>5, <2>1, <2>3, <2>4, OwedMove
<1>7. CASE DeleteApp(r)
  <2>1. /\ job[r] # Free /\ Continue(r) /\ head.op = "delete" /\ ~row'.pending
        /\ timers' = timers /\ fired' = fired /\ entry' = entry
    BY <1>1, <1>7 DEF DeleteApp, Doing, graceVars, Arg, NoRow, App
  <2>2. Held(r)'
    BY <1>3, <2>1 DEF Held
  <2>3. QED
    BY <1>5, <2>1, <2>2, OwedMove
<1>8. CASE SetTombstone(r) \/ CreateActivity(r) \/ UpdateActivity(r) \/ SetEnd(r)
  <2>1. /\ job[r] # Free /\ Continue(r) /\ row' = row /\ lost' = lost
        /\ head.op \in {"tombstone", "create", "update", "stopEnd", "scheduleEnd"}
        /\ timers' = timers /\ fired' = fired /\ entry' = entry
    BY <1>1, <1>8 DEF SetTombstone, CreateActivity, UpdateActivity, SetEnd, Doing, graceVars, store, Arg
  <2>2. ~Arms(head) /\ ~Shows(head) /\ head.op # "load"
    BY <2>1 DEF Arms, Shows
  <2>3. Timed(r) => Timed(r)'
    BY <1>5, <2>1, <2>2 DEF Timed
  <2>4. Held(r)'
    BY <1>3, <2>1 DEF Held
  <2>5. QED
    BY <1>5, <2>1, <2>3, <2>4, OwedMove
<1>9. CASE ArmTimer(r)
  <2>1. /\ job[r] # Free /\ Continue(r) /\ row' = row /\ lost' = lost /\ fired' = fired
    BY <1>9 DEF ArmTimer, Doing, store
  <2>2. /\ timers \in [Replicas -> SUBSET Timers] /\ entry \in [Replicas -> Timers \union {NoTimer}]
    BY DEF TInv, TimersTyped
  <2>3. CASE Doing(r, "disarm") /\ Drop(r)
    <3>1. /\ head.op = "disarm" /\ entry'[r] = NoTimer
          /\ \A s \in Replicas : s # r => timers'[s] = timers[s] /\ entry'[s] = entry[s]
      BY <1>1, <2>1, <2>2, <2>3 DEF Doing, Drop, Arg
    <3>2. Held(r)' /\ Timed(r)'
      BY <1>5, <2>1, <3>1 DEF Held, Timed
    <3>3. QED
      BY <1>5, <2>1, <3>1, <3>2, OwedMove
  <2>4. ASSUME NEW armed, NEW t, Put(r, armed, t) PROVE TimerOwed'
    <3>1. /\ entry'[r] = t /\ t \in timers'[r]
          /\ \A s \in Replicas : s # r => timers'[s] = timers[s] /\ entry'[s] = entry[s]
      BY <2>2, <2>4 DEF Put
    <3>2. Held(r)' /\ Timed(r)'
      BY <3>1 DEF Held, Timed
    <3>3. QED
      BY <1>5, <2>1, <3>1, <3>2, OwedMove
  <2>5. CASE Doing(r, "backstop") /\ entry[r] # NoTimer /\ UNCHANGED <<timers, entry>>
    <3>1. head.op = "backstop" /\ timers' = timers /\ entry' = entry
      BY <1>1, <2>1, <2>5 DEF Doing, Arg
    <3>2. entry[r] \in timers[r] \union fired[r]
      BY <1>3, <2>1, <2>5, <3>1
    <3>3. Held(r)' /\ Timed(r)'
      BY <2>1, <3>1, <3>2 DEF Held, Timed
    <3>4. QED
      BY <1>5, <2>1, <3>1, <3>3, OwedMove
  <2>6. CASE Doing(r, "retry") /\ entry[r] = NoTimer /\ UNCHANGED <<timers, entry>>
    <3>1. head.op = "retry" /\ timers' = timers /\ entry' = entry
      BY <1>1, <2>1, <2>6 DEF Doing, Arg
    <3>2. Held(r)'
      BY <2>6, <3>1 DEF Held
    <3>3. Timed(r) => Timed(r)'
      BY <1>5, <2>1, <3>1 DEF Timed, Arms, Shows
    <3>4. QED
      BY <1>5, <2>1, <3>1, <3>2, <3>3, OwedMove
  <2>7. CASE Doing(r, "forget") /\ entry' = [entry EXCEPT ![r] = NoTimer] /\ UNCHANGED timers
    <3>1. /\ head.op = "forget" /\ timers' = timers /\ entry'[r] = NoTimer
          /\ \A s \in Replicas : s # r => entry'[s] = entry[s]
      BY <1>1, <2>1, <2>2, <2>7 DEF Doing, Arg
    <3>2. Held(r)'
      BY <3>1 DEF Held
    <3>3. Timed(r) => Timed(r)'
      BY <1>5, <2>1, <3>1 DEF Timed, Arms, Shows
    <3>4. QED
      BY <1>5, <2>1, <3>1, <3>2, <3>3, OwedMove
  <2>8. QED
    BY <1>9, <2>3, <2>4, <2>5, <2>6, <2>7 DEF ArmTimer
<1>10. QED
  BY <1>2, <1>4, <1>6, <1>7, <1>8, <1>9 DEF Step

LEMMA OwedNext ==
  ASSUME Grace > 0, TInv, OInv, [Next]_vars
  PROVE  OInv'
<1> SUFFICES ASSUME used'.faults = 0 PROVE TimerOwed'
  BY DEF OInv
<1>1. TimerOwed /\ ~Fault
  BY FaultsStay DEF OInv
<1>2. ASSUME NEW r \in Replicas, NEW event \in Events, NEW rev \in Revs, handleWebhook(r, event, rev)
      PROVE  TimerOwed'
  <2> DEFINE todo == When(event = "sync-running", <<Do("skipIfTombstone")>>) \o <<Load(rev)>>
  <2>1. /\ todo \in Todos
        /\ event = "sync-running" => Len(todo) = 2 /\ todo[1].op = "skipIfTombstone" /\ todo[2].op = "load"
        /\ event # "sync-running" => Len(todo) = 1 /\ todo[1].op = "load"
    BY WebhookTodo
  <2>2. Begin(r, event, todo) /\ fired' = fired
    BY <1>2 DEF handleWebhook
  <2> HIDE DEF todo
  <2>3. job'[r] = [by |-> event, todo |-> todo] /\ \A s \in Replicas : s # r => job'[s] = job[s]
    BY <2>1, <2>2, BeginIs DEF TInv
  <2>4. /\ row' = row /\ timers' = timers /\ entry' = entry /\ lost' = lost /\ job[r] = Free
    BY <2>2 DEF Begin, store
  <2>5. PlanArms(job'[r].todo)
    BY <2>1, <2>3 DEF PlanArms, SkipFirst, PendingWrite
  <2>6. entry[r] = NoTimer \/ entry[r] \in timers[r] \union fired[r]
    BY <1>1, <2>4 DEF TimerOwed, Held, Free, Kinds
  <2>7. Held(r)'
    BY <2>2, <2>4, <2>6 DEF Held
  <2>8. Timed(r) => Timed(r)'
    BY <2>2, <2>4, FreeArms DEF Timed
  <2>9. QED
    BY <1>1, <2>2, <2>3, <2>4, <2>5, <2>7, <2>8, OwedMove
<1>3. ASSUME NEW r \in Replicas, NEW t \in fired[r], graceExpired(r, t) PROVE TimerOwed'
  <2> DEFINE todo == <<Load(NoRevision)>>
  <2>1. todo \in Todos /\ Len(todo) = 1 /\ todo[1].op = "load"
    BY StepsTyped, Tuple1Typed DEF Revs, Load
  <2>2. /\ Begin(r, t.kind, todo) /\ t.kind \in Kinds
        /\ \A s \in Replicas : s # r => fired'[s] = fired[s]
    BY <1>3 DEF graceExpired, TInv, TimersTyped, Timers
  <2> HIDE DEF todo
  <2>3. job'[r] = [by |-> t.kind, todo |-> todo] /\ \A s \in Replicas : s # r => job'[s] = job[s]
    BY <2>1, <2>2, BeginIs DEF TInv
  <2>4. row' = row /\ timers' = timers /\ entry' = entry
    BY <2>2 DEF Begin, store
  <2>5. PlanArms(todo) /\ Resolves(t.kind, todo)
    BY <2>1, <2>2 DEF PlanArms, SkipFirst, PendingWrite, Resolves
  <2>6. PlanArms(job'[r].todo) /\ Held(r)' /\ Timed(r)'
    BY <2>1, <2>2, <2>3, <2>5 DEF Held, Timed
  <2>7. QED
    BY <1>1, <2>2, <2>3, <2>4, <2>5, <2>6, OwedMove
<1>4. ASSUME NEW r \in Replicas, Step(r) PROVE TimerOwed'
  BY <1>1, <1>4, OwedStep
<1>5. ASSUME NEW r \in Replicas, Fire(r) PROVE TimerOwed'
  <2>1. PICK t \in timers[r] :
          timers' = [timers EXCEPT ![r] = @ \ {t}] /\ fired' = [fired EXCEPT ![r] = @ \union {t}]
    BY <1>5 DEF Fire
  <2>2. row' = row /\ job' = job /\ entry' = entry /\ lost' = lost
    BY <1>5 DEF Fire, store
  <2>3. /\ timers'[r] = timers[r] \ {t} /\ fired'[r] = fired[r] \union {t}
        /\ \A s \in Replicas : s # r => timers'[s] = timers[s] /\ fired'[s] = fired[s]
    BY <2>1 DEF TInv, TimersTyped
  <2>4. PlanArms(job'[r].todo) /\ Held(r)
    BY <1>1, <2>2 DEF TimerOwed
  <2>5. Held(r)' /\ Timed(r)'
    BY <2>1, <2>2, <2>3, <2>4 DEF Held, Timed
  <2>6. QED
    BY <1>1, <2>2, <2>3, <2>4, <2>5, OwedMove
<1>6. ASSUME NEW r \in Replicas, EndStep(r) \/ FlushAll(r) PROVE TimerOwed'
  <2>1. /\ job' = job /\ timers' = timers /\ fired' = fired /\ entry' = entry /\ lost' = lost
        /\ row'.pending => row.pending
    BY <1>6, EndIs DEF NoRow, App
  <2>2. QED
    BY <1>1, <2>1 DEF TimerOwed, Held, Timed
<1>8. ASSUME NEW r \in Replicas, row'.pending => lost', job' = job, fired' = fired, Drop(r)
      PROVE  TimerOwed'
  <2>1. /\ entry'[r] = NoTimer
        /\ \A s \in Replicas : s # r => entry'[s] = entry[s] /\ timers'[s] = timers[s]
    BY <1>8 DEF Drop, TInv, TimersTyped
  <2>2. PlanArms(job'[r].todo) /\ Held(r)'
    BY <1>1, <1>8, <2>1 DEF TimerOwed, Held
  <2>3. QED
    BY <1>1, <1>8, <2>1, <2>2, OwedMove
<1>9. ASSUME NEW r \in Replicas, Sweep(r) PROVE TimerOwed'
  <2>1. row' = row /\ job' = job /\ fired' = fired
    BY <1>9 DEF Sweep, store, graceVars
  <2>2. \/ Drop(r) /\ (row.pending => lost')
        \/ timers' = timers /\ entry' = entry /\ lost' = lost
    BY <1>9 DEF Sweep, graceVars
  <2>3. CASE timers' = timers /\ entry' = entry /\ lost' = lost
    BY <1>1, <2>1, <2>3 DEF TimerOwed, Held, Timed
  <2>4. QED
    BY <1>8, <2>1, <2>2, <2>3
<1>10. ASSUME NEW r \in Replicas, StopAll(r) PROVE TimerOwed'
  BY <1>8, <1>10 DEF StopAll, store
<1>11. ASSUME NEW r \in Replicas, Restart(r) PROVE TimerOwed'
  <2>1. /\ job'[r] = Free /\ entry'[r] = NoTimer /\ lost'
        /\ \A s \in Replicas : s # r =>
             /\ job'[s] = job[s] /\ timers'[s] = timers[s] /\ fired'[s] = fired[s]
             /\ entry'[s] = entry[s]
    BY <1>11 DEF Restart, TInv, TimersTyped, JobsTyped
  <2>2. PlanArms(job'[r].todo) /\ Held(r)'
    BY <2>1, FreeArms DEF Held
  <2>3. QED
    BY <1>1, <2>1, <2>2, OwedMove
<1>12. CASE Tick \/ UNCHANGED vars
  <2>1. /\ row' = row /\ job' = job /\ timers' = timers /\ fired' = fired /\ entry' = entry
        /\ lost' = lost
    BY <1>12 DEF Tick, vars, store, graceVars
  <2>2. QED
    BY <1>1, <2>1 DEF TimerOwed, Held, Timed
<1>13. QED
  BY <1>2, <1>3, <1>4, <1>5, <1>6, <1>9, <1>10, <1>11, <1>12 DEF Next, Quiet, Revs

\* With a grace period, a pending app that no handler is at work on has a timer
\* on some replica, armed or expired, unless one has gone with a replica and no
\* webhook has loaded the row since: whatever replicas do between each other's
\* steps, and whatever the sweeps, the ends and the restarts do beside them.
THEOREM PendingTimed == ASSUME Grace > 0 PROVE Spec => []PendingIsTimed
<1>1. Init => OInv
  <2> SUFFICES ASSUME Init PROVE TimerOwed
    BY DEF OInv
  <2>1. \A r \in Replicas : job[r] = Free /\ entry[r] = NoTimer
    BY DEF Init
  <2>2. row.pending => lost
    BY DEF Init
  <2>3. QED
    BY <2>1, <2>2, FreeArms DEF TimerOwed, Held
<1>2. TInv /\ OInv => PendingIsTimed
  <2> SUFFICES ASSUME TInv, TimerOwed, row.pending, Served, ~lost
               PROVE  \E r \in Replicas : timers[r] # {} \/ fired[r] # {}
    BY DEF OInv, PendingIsTimed
  <2>1. PICK r \in Replicas : Timed(r)
    BY DEF TimerOwed
  <2>2. job[r] = Free
    BY DEF Served
  <2>3. QED
    BY <2>1, <2>2, FreeArms DEF Timed
<1>3. TInv /\ OInv /\ [Next]_vars => TInv' /\ OInv'
  BY TypedNext, OwedNext
<1>4. QED
  BY <1>1, <1>2, <1>3, TypedInit, PTL DEF Spec

---------------------------------------------------------------------------
(* The card of an app out of its grace period (one replica, no faults).    *)

Balanced(r) ==
  \/ row = NoRow \/ row.pending \/ card = NoCard \/ card = row.step
  \/ ender[r].at # "none" \/ stale

AllHarmless(todo) == \A i \in 1..Len(todo) : Harmless(todo[i])

\* What is left of a plan is creations and an update with the step of app.
Updates(todo, app) ==
  LET n == Len(todo) IN
  /\ n > 0 /\ todo[n].op = "update" /\ (app = NoRow \/ app.step = todo[n].step)
  /\ \A i \in 1..(n - 1) : todo[i].op = "create"

\* The steps before a plan is settled, which come first.
Enters(x) == x.op \in {"skipIfTombstone", "load"}
EntersFirst(todo) ==
  \A i \in 1..Len(todo) : Enters(todo[i]) => \A j \in 1..i : Enters(todo[j])

CardOwed(r) ==
  /\ EntersFirst(job[r].todo)
  /\ Len(job[r].todo) > 0 /\ Enters(job[r].todo[1]) => Balanced(r)
  /\ \/ Balanced(r) /\ AllHarmless(job[r].todo)
     \/ Updates(job[r].todo, row)
     \/ Restores(job[r].todo)

CInv ==
  used.faults = 0 /\ used.restarts = 0 => \A r \in Replicas : ~draining[r] /\ CardOwed(r)

LEMMA RestartsStay ==
  ASSUME TInv, [Next]_vars, used'.restarts = 0
  PROVE  used.restarts = 0
<1>1. used.restarts \in Nat /\ "restarts" \in DOMAIN Limit
  BY Limits DEF TInv, FlagsTyped
<1>2. \A what \in DOMAIN Limit : Spend(what) => used.restarts = 0
  BY <1>1 DEF Spend, TInv, FlagsTyped
<1>3. UNCHANGED used => used.restarts = 0
  OBVIOUS
<1>4. ASSUME NEW r \in Replicas, Step(r) PROVE used.restarts = 0
  BY <1>2, <1>3, <1>4, Limits DEF Step, LoadApp, SkipIfTombstone, SaveApp, DeleteApp, SetTombstone, CreateActivity,
     UpdateActivity, ArmTimer, SetEnd, NoFault, Fault
<1>5. ASSUME NEW r \in Replicas, EndStep(r) \/ FlushAll(r) PROVE used.restarts = 0
  BY <1>2, <1>3, <1>5, EndIs, Limits DEF Fault
<1>6. QED
  BY <1>2, <1>3, <1>4, <1>5, Limits DEF Next, vars, handleWebhook, graceExpired, Fire,
     Sweep, StopAll, Restart, Tick, Quiet, NoFault, Fault

\* What is left of the job when its first step is done.
LEMMA RestoresContinue ==
  ASSUME TInv, NEW r \in Replicas, job[r] # Free, Continue(r), now' = now,
         EntersFirst(job[r].todo)
  PROVE  LET todo == job[r].todo
             rest == job'[r].todo
             head == todo[1]
         IN /\ EntersFirst(rest)
            /\ Len(rest) > 0 /\ Enters(rest[1]) => Enters(head)
            /\ AllHarmless(todo) => Harmless(head) /\ AllHarmless(rest)
            /\ \A app : Updates(todo, app) =>
                 \/ rest = <<>> /\ head.op = "update" /\ (app = NoRow \/ app.step = head.step)
                 \/ head.op = "create" /\ Updates(rest, app)
            /\ Restores(todo) =>
                 \/ Restores(rest)
                 \/ (head.op \in {"scheduleEnd", "delete"} \/ PendingWrite(head)) /\ AllHarmless(rest)
                 \/ head.op = "save" /\ Updates(rest, head.app)
<1> DEFINE todo == job[r].todo
           rest == job'[r].todo
           head == todo[1]
<1>1. /\ Len(todo) \in Nat \ {0} /\ Len(rest) = Len(todo) - 1
      /\ \A i \in 1..Len(rest) : rest[i] = todo[i + 1]
      /\ rest \in Seq(LiveSteps)
  <2>1. JobsTyped
    BY DEF TInv
  <2>2. rest = Tail(todo)
    BY <2>1, ContinueIs
  <2>3. /\ Len(todo) \in Nat \ {0} /\ Len(Tail(todo)) = Len(todo) - 1
        /\ \A i \in 1..Len(Tail(todo)) : Tail(todo)[i] = todo[i + 1]
        /\ Tail(todo) \in Seq(LiveSteps)
    BY <2>1, JobParts
  <2> HIDE DEF todo, rest
  <2>4. QED
    BY <2>2, <2>3
<1>2. EntersFirst(todo)
  OBVIOUS
<1> HIDE DEF todo, rest
<1>3. /\ 1 \in 1..Len(todo)
      /\ \A i \in 1..Len(rest) : i + 1 \in 1..Len(todo) /\ rest[i] = todo[i + 1]
      /\ \A i \in 2..Len(todo) : i - 1 \in 1..Len(rest) /\ rest[i - 1] = todo[i]
  BY <1>1
<1>4. EntersFirst(rest)
  BY <1>2, <1>3 DEF EntersFirst
<1>5. Len(rest) > 0 /\ Enters(rest[1]) => Enters(head)
  <2> SUFFICES ASSUME Len(rest) > 0, Enters(rest[1]) PROVE Enters(head)
    OBVIOUS
  <2>1. 2 \in 1..Len(todo) /\ Enters(todo[2])
    BY <1>1
  <2>2. QED
    BY <1>2, <2>1 DEF EntersFirst
<1>6. AllHarmless(todo) => Harmless(head) /\ AllHarmless(rest)
  BY <1>3 DEF AllHarmless
<1>7. ASSUME NEW app, Updates(todo, app)
      PROVE  \/ rest = <<>> /\ head.op = "update" /\ (app = NoRow \/ app.step = head.step)
             \/ head.op = "create" /\ Updates(rest, app)
  <2>1. CASE Len(todo) = 1
    <3>1. rest = <<>>
      BY <1>1, <2>1
    <3>2. QED
      BY <1>7, <2>1, <3>1 DEF Updates
  <2>2. CASE Len(todo) # 1
    <3>1. Len(todo) \in 2..Len(todo) /\ Len(todo) - 1 = Len(rest) /\ Len(rest) > 0
      BY <1>1, <2>2
    <3>2. rest[Len(rest)] = todo[Len(todo)]
      BY <1>3, <3>1
    <3>3. \A i \in 1..(Len(rest) - 1) : rest[i].op = "create"
      BY <1>1, <1>7 DEF Updates
    <3>4. head.op = "create"
      BY <1>1, <1>7, <2>2 DEF Updates
    <3>5. QED
      BY <1>7, <3>1, <3>2, <3>3, <3>4 DEF Updates
  <2>3. QED
    BY <2>1, <2>2
<1>8. ASSUME Restores(todo)
      PROVE  \/ Restores(rest)
             \/ (head.op \in {"scheduleEnd", "delete"} \/ PendingWrite(head)) /\ AllHarmless(rest)
             \/ head.op = "save" /\ Updates(rest, head.app)
  <2> DEFINE n == Len(todo)
  <2>1. PICK i \in 1..n :
          \/ todo[i].op = "scheduleEnd" /\ i = n
          \/ /\ PendingWrite(todo[i]) \/ todo[i].op = "delete"
             /\ \A j \in (i + 1)..n : Harmless(todo[j])
          \/ /\ todo[i].op = "save" /\ i < n
             /\ todo[n].op = "update" /\ todo[n].step = todo[i].app.step
             /\ \A j \in (i + 1)..(n - 1) : todo[j].op = "create"
    BY <1>8 DEF Restores
  <2>2. CASE i = 1
    <3>1. CASE todo[i].op = "scheduleEnd" /\ i = n
      <4>1. Len(todo) = 1
        BY <2>2, <3>1
      <4>2. Len(rest) = 0
        BY <1>1, <4>1
      <4>3. QED
        BY <2>2, <3>1, <4>2 DEF AllHarmless
    <3>2. CASE /\ PendingWrite(todo[i]) \/ todo[i].op = "delete"
               /\ \A j \in (i + 1)..n : Harmless(todo[j])
      <4>1. \A j \in 1..Len(rest) : Harmless(rest[j])
        BY <1>1, <2>2, <3>2
      <4>2. QED
        BY <2>2, <3>2, <4>1 DEF AllHarmless
    <3>3. CASE /\ todo[i].op = "save" /\ i < n
               /\ todo[n].op = "update" /\ todo[n].step = todo[i].app.step
               /\ \A j \in (i + 1)..(n - 1) : todo[j].op = "create"
      <4>1. n \in 2..n /\ n - 1 = Len(rest) /\ Len(rest) > 0
        BY <1>1, <2>2, <3>3
      <4>2. rest[Len(rest)] = todo[n]
        BY <1>3, <4>1
      <4>3. \A j \in 1..(Len(rest) - 1) : rest[j].op = "create"
        BY <1>1, <2>2, <3>3
      <4>4. QED
        BY <2>2, <3>3, <4>1, <4>2, <4>3 DEF Updates
    <3>4. QED
      BY <2>1, <3>1, <3>2, <3>3
  <2>3. CASE i # 1
    <3>1. i - 1 \in 1..Len(rest) /\ rest[i - 1] = todo[i]
      BY <1>1, <2>3
    <3>2. n - 1 = Len(rest) /\ Len(rest) > 0 /\ n \in 2..n /\ rest[Len(rest)] = todo[n]
      BY <1>1, <3>1
    <3>3. \A j \in 1..Len(rest) : rest[j] = todo[j + 1]
      BY <1>1
    <3>4. CASE todo[i].op = "scheduleEnd" /\ i = n
      <4>1. rest[i - 1].op = "scheduleEnd" /\ i - 1 = Len(rest)
        BY <3>1, <3>2, <3>4
      <4>2. QED
        BY <3>1, <4>1 DEF Restores
    <3>5. CASE /\ PendingWrite(todo[i]) \/ todo[i].op = "delete"
               /\ \A j \in (i + 1)..n : Harmless(todo[j])
      <4>1. \A j \in ((i - 1) + 1)..Len(rest) : j + 1 \in (i + 1)..n
        BY <1>1, <2>3
      <4>2. \A j \in ((i - 1) + 1)..Len(rest) : j \in 1..Len(rest)
        BY <3>1
      <4>3. \A j \in ((i - 1) + 1)..Len(rest) : Harmless(rest[j])
        BY <3>3, <3>5, <4>1, <4>2
      <4>4. QED
        BY <3>1, <3>5, <4>3 DEF Restores
    <3>6. CASE /\ todo[i].op = "save" /\ i < n
               /\ todo[n].op = "update" /\ todo[n].step = todo[i].app.step
               /\ \A j \in (i + 1)..(n - 1) : todo[j].op = "create"
      <4>1. \A j \in ((i - 1) + 1)..(Len(rest) - 1) : j + 1 \in (i + 1)..(n - 1) /\ j \in 1..Len(rest)
        BY <1>1, <2>3
      <4>2. \A j \in ((i - 1) + 1)..(Len(rest) - 1) : rest[j].op = "create"
        BY <3>3, <3>6, <4>1
      <4>3. i - 1 < Len(rest)
        BY <1>1, <3>6
      <4>4. QED
        BY <3>1, <3>2, <3>6, <4>2, <4>3 DEF Restores
    <3>7. QED
      BY <2>1, <3>4, <3>5, <3>6
  <2>4. QED
    BY <2>2, <2>3
<1>9. QED
  BY <1>4, <1>5, <1>6, <1>7, <1>8 DEF todo, rest

\* A step of the plan of the only replica.
LEMMA OwedCardStep ==
  ASSUME AtMostOne, TInv, NEW r \in Replicas, CardOwed(r), Step(r), ~Fault
  PROVE  CardOwed(r)'
<1> DEFINE head == job[r].todo[1]
<1>1. /\ now \in Nat /\ now' = now
      /\ job[r] # Free => /\ Len(job[r].todo) > 0 /\ 1 \in 1..Len(job[r].todo)
                          /\ job[r].by \in Events \union Kinds
                          /\ Arg(r) \in LiveSteps /\ Arg(r) = head
      /\ EntersFirst(job[r].todo)
  BY JobParts, TypedStep DEF TInv, ClockTyped, CardOwed, Arg
<1>2. Len(<<>>) = 0 /\ AllHarmless(<<>>) /\ EntersFirst(<<>>)
  BY DEF AllHarmless, EntersFirst
<1>3. CASE LoadApp(r)
  <2> DEFINE plan == Plan(job[r].by, row, Arg(r).rev)
  <2>1. /\ job[r] # Free /\ head.op = "load" /\ Then(r, plan)
        /\ row' = row /\ card' = card /\ ender' = ender /\ stale' = stale
    BY <1>1, <1>3 DEF LoadApp, Doing, store, endVars, Arg
  <2>2. Arg(r).rev \in Revs
    BY <1>1, <2>1, OpParts
  <2>3. Sound(job[r].by, row, plan)
    BY <1>1, <2>1, <2>2, PlanSound DEF TInv, RowTyped
  <2>4. plan \in Seq(LiveSteps) /\ plan # <<>>
    BY <2>3 DEF Sound, Todos
  <2>5. job'[r].todo = plan
    BY <1>1, <2>1, <2>4, ThenIs DEF TInv
  <2>6. Balanced(r)'
    BY <1>1, <2>1 DEF CardOwed, Enters, Balanced
  <2>7. EntersFirst(plan)
    BY <2>3 DEF Sound, EntersFirst, Enters
  <2>8. AllHarmless(plan) \/ Updates(plan, row) \/ Restores(plan)
    BY <2>3 DEF Sound, AllHarmless, Updates
  <2> HIDE DEF plan
  <2>9. QED
    BY <2>1, <2>5, <2>6, <2>7, <2>8 DEF CardOwed
<1>4. CASE SkipIfTombstone(r) /\ Then(r, <<>>)
  <2>1. /\ job[r] # Free /\ head.op = "skipIfTombstone"
        /\ row' = row /\ card' = card /\ ender' = ender /\ stale' = stale
    BY <1>1, <1>4 DEF SkipIfTombstone, Doing, store, endVars, Arg
  <2>2. job'[r].todo = <<>>
    BY <1>1, <1>4, <2>1, ThenIs, EmptySeq DEF TInv
  <2>3. Balanced(r)'
    BY <1>1, <2>1 DEF CardOwed, Enters, Balanced
  <2>4. QED
    BY <1>2, <2>2, <2>3 DEF CardOwed
<1>5. ASSUME job[r] # Free, Continue(r),
             Enters(head) => row' = row /\ card' = card /\ ender' = ender /\ stale' = stale,
             Balanced(r) /\ Harmless(head) => Balanced(r)',
             head.op = "create" => row' = row,
             head.op = "update" /\ (row = NoRow \/ row.step = head.step) => Balanced(r)',
             head.op \in {"scheduleEnd", "delete"} \/ PendingWrite(head) => Balanced(r)',
             head.op = "save" => row' = head.app
      PROVE  CardOwed(r)'
  <2> DEFINE todo == job[r].todo
             rest == job'[r].todo
  <2>1. /\ EntersFirst(rest)
        /\ Len(rest) > 0 /\ Enters(rest[1]) => Enters(head)
        /\ AllHarmless(todo) => Harmless(head) /\ AllHarmless(rest)
        /\ \A app : Updates(todo, app) =>
             \/ rest = <<>> /\ head.op = "update" /\ (app = NoRow \/ app.step = head.step)
             \/ head.op = "create" /\ Updates(rest, app)
        /\ Restores(todo) =>
             \/ Restores(rest)
             \/ (head.op \in {"scheduleEnd", "delete"} \/ PendingWrite(head)) /\ AllHarmless(rest)
             \/ head.op = "save" /\ Updates(rest, head.app)
    BY <1>1, <1>5, RestoresContinue
  <2>2. /\ Enters(head) => Balanced(r)
        /\ (Balanced(r) /\ AllHarmless(todo)) \/ Updates(todo, row) \/ Restores(todo)
    BY <1>1, <1>5 DEF CardOwed
  <2>3. Enters(head) => Balanced(r)'
    BY <1>5, <2>2 DEF Balanced
  <2>4. SUFFICES \/ Balanced(r)' /\ AllHarmless(rest)
                 \/ Updates(rest, row')
                 \/ Restores(rest)
    BY <2>1, <2>3 DEF CardOwed
  <2> HIDE DEF todo, rest, head
  <2>5. CASE Balanced(r) /\ AllHarmless(todo)
    BY <1>5, <2>1, <2>5
  <2>6. CASE Updates(todo, row)
    BY <1>2, <1>5, <2>1, <2>6
  <2>7. CASE Restores(todo)
    BY <1>5, <2>1, <2>7
  <2>8. QED
    BY <2>2, <2>5, <2>6, <2>7
<1>6. CASE SkipIfTombstone(r) /\ Continue(r)
  <2>1. /\ job[r] # Free /\ head.op = "skipIfTombstone"
        /\ row' = row /\ card' = card /\ ender' = ender /\ stale' = stale
    BY <1>1, <1>6 DEF SkipIfTombstone, Doing, store, endVars, Arg
  <2>2. QED
    BY <1>5, <1>6, <2>1 DEF Balanced, PendingWrite
<1>7. CASE SaveApp(r)
  <2>1. /\ job[r] # Free /\ Continue(r) /\ head.op \in {"save", "savePending"}
    BY <1>1, <1>7 DEF SaveApp, Doing, Arg
  <2>2. ~Enters(head) /\ ~Harmless(head)
    BY <2>1 DEF Enters, Harmless
  <2>3. head.op = "save" => row' = head.app
    BY <1>1, <1>7, <2>1 DEF SaveApp, Doing, Arg
  <2>4. PendingWrite(head) => Balanced(r)'
    <3>1. CASE head.op = "save" /\ head.app.pending
      BY <2>3, <3>1 DEF Balanced
    <3>2. CASE head.op = "savePending"
      <4>1. head.app \in LiveApps
        BY <1>1, <2>1, <3>2, OpParts
      <4>2. row' = [head.app EXCEPT !.pending = TRUE, !.since = now]
        BY <1>1, <1>7, <2>1, <3>2 DEF SaveApp, Doing, Arg
      <4>3. row'.pending
        BY <4>1, <4>2 DEF LiveApps
      <4>4. QED
        BY <4>3 DEF Balanced
    <3>3. QED
      BY <3>1, <3>2 DEF PendingWrite
  <2>5. QED
    BY <1>5, <2>1, <2>2, <2>3, <2>4
<1>8. CASE DeleteApp(r)
  <2>1. /\ job[r] # Free /\ Continue(r) /\ head.op = "delete" /\ row' = NoRow
    BY <1>1, <1>8 DEF DeleteApp, Doing, Arg
  <2>2. ~Enters(head) /\ ~Harmless(head) /\ ~PendingWrite(head)
    BY <2>1 DEF Enters, Harmless, PendingWrite
  <2>3. Balanced(r)'
    BY <2>1 DEF Balanced
  <2>4. QED
    BY <1>5, <2>1, <2>2, <2>3
<1>9. CASE SetTombstone(r) \/ ArmTimer(r)
  <2>1. /\ job[r] # Free /\ Continue(r)
        /\ row' = row /\ card' = card /\ ender' = ender /\ stale' = stale
        /\ head.op \in {"tombstone", "disarm", "arm", "armAnew", "backstop", "retry", "forget"}
    BY <1>1, <1>9 DEF SetTombstone, ArmTimer, Doing, store, endVars, Arg
  <2>2. ~PendingWrite(head)
    BY <2>1 DEF PendingWrite
  <2>3. Balanced(r) => Balanced(r)'
    BY <2>1 DEF Balanced
  <2>4. QED
    BY <1>5, <2>1, <2>2, <2>3
<1>10. CASE CreateActivity(r)
  <2>1. /\ job[r] # Free /\ Continue(r) /\ row' = row /\ head.op = "create"
    BY <1>1, <1>10 DEF CreateActivity, Doing, store, Arg
  <2>2. ~Enters(head) /\ ~Harmless(head) /\ ~PendingWrite(head)
    BY <2>1 DEF Enters, Harmless, PendingWrite
  <2>3. QED
    BY <1>5, <2>1, <2>2
<1>11. CASE UpdateActivity(r)
  <2>1. /\ job[r] # Free /\ Continue(r) /\ row' = row /\ head.op = "update"
        /\ card' = IF card = NoCard THEN NoCard ELSE head.step
    BY <1>1, <1>11 DEF UpdateActivity, Doing, store, Arg
  <2>2. ~Enters(head) /\ ~Harmless(head) /\ ~PendingWrite(head)
    BY <2>1 DEF Enters, Harmless, PendingWrite
  <2>3. row = NoRow \/ row.step = head.step => Balanced(r)'
    BY <2>1 DEF Balanced
  <2>4. QED
    BY <1>5, <2>1, <2>2, <2>3
<1>12. CASE SetEnd(r)
  <2>1. /\ job[r] # Free /\ Continue(r) /\ row' = row /\ head.op \in {"stopEnd", "scheduleEnd"}
        /\ head.op = "scheduleEnd" => ender'[r].at = "first"
    BY <1>1, <1>12 DEF SetEnd, Doing, store, Arg, TInv, FlagsTyped
  <2>2. ~Enters(head) /\ ~Harmless(head) /\ ~PendingWrite(head)
    BY <2>1 DEF Enters, Harmless, PendingWrite
  <2>3. head.op = "scheduleEnd" => Balanced(r)'
    BY <2>1 DEF Balanced
  <2>4. QED
    BY <1>5, <2>1, <2>2, <2>3
<1>13. QED
  BY <1>3, <1>4, <1>6, <1>7, <1>8, <1>9, <1>10, <1>11, <1>12 DEF Step, SkipIfTombstone

LEMMA OwedCardNext ==
  ASSUME AtMostOne, TInv, CInv, [Next]_vars
  PROVE  CInv'
<1> SUFFICES ASSUME used'.faults = 0, used'.restarts = 0, NEW r \in Replicas
             PROVE  (~draining[r] /\ CardOwed(r))'
  BY DEF CInv
<1>1. /\ used.faults = 0 /\ used.restarts = 0 /\ ~Fault
      /\ ~draining[r] /\ CardOwed(r)
  BY FaultsStay, RestartsStay DEF CInv
<1>2. ~Spend("restarts")
  BY <1>1, Limits, SpendTyped DEF TInv, FlagsTyped
<1>3. \A s \in Replicas : s = r
  BY DEF AtMostOne
<1>4. ASSUME job[r] = Free PROVE Balanced(r)
  BY <1>1, <1>4 DEF CardOwed, Free, Updates, Restores
<1>5. ASSUME NEW todo, job'[r].todo = todo, AllHarmless(todo), EntersFirst(todo), job[r] = Free,
             row' = row, card' = card, ender' = ender, stale' = stale
      PROVE  CardOwed(r)'
  BY <1>4, <1>5 DEF CardOwed, Balanced
<1>6. ASSUME NEW event \in Events, NEW rev \in Revs, handleWebhook(r, event, rev)
      PROVE  (~draining[r] /\ CardOwed(r))'
  <2> DEFINE todo == When(event = "sync-running", <<Do("skipIfTombstone")>>) \o <<Load(rev)>>
  <2>1. /\ todo \in Todos
        /\ event = "sync-running" => Len(todo) = 2 /\ todo[1].op = "skipIfTombstone" /\ todo[2].op = "load"
        /\ event # "sync-running" => Len(todo) = 1 /\ todo[1].op = "load"
    BY WebhookTodo
  <2>2. Begin(r, event, todo)
    BY <1>6 DEF handleWebhook
  <2> HIDE DEF todo
  <2>3. job'[r] = [by |-> event, todo |-> todo]
    BY <2>1, <2>2, BeginIs DEF TInv
  <2>4. AllHarmless(todo) /\ EntersFirst(todo)
    BY <2>1 DEF AllHarmless, Harmless, EntersFirst, Enters
  <2>5. /\ job[r] = Free /\ row' = row /\ card' = card /\ ender' = ender /\ stale' = stale
        /\ draining' = draining
    BY <2>2 DEF Begin, store, endVars, lifeVars
  <2>6. QED
    BY <1>1, <1>5, <2>3, <2>4, <2>5
<1>7. ASSUME NEW t \in fired[r], graceExpired(r, t) PROVE (~draining[r] /\ CardOwed(r))'
  <2> DEFINE todo == <<Load(NoRevision)>>
  <2>1. todo \in Todos /\ Len(todo) = 1 /\ todo[1].op = "load"
    BY StepsTyped, Tuple1Typed DEF Revs, Load
  <2>2. /\ Begin(r, t.kind, todo) /\ t.kind \in Kinds
    BY <1>7 DEF graceExpired, TInv, TimersTyped, Timers
  <2> HIDE DEF todo
  <2>3. job'[r] = [by |-> t.kind, todo |-> todo]
    BY <2>1, <2>2, BeginIs DEF TInv
  <2>4. AllHarmless(todo) /\ EntersFirst(todo)
    BY <2>1 DEF AllHarmless, Harmless, EntersFirst, Enters
  <2>5. /\ job[r] = Free /\ row' = row /\ card' = card /\ ender' = ender /\ stale' = stale
        /\ draining' = draining
    BY <2>2 DEF Begin, store, endVars, lifeVars
  <2>6. QED
    BY <1>1, <1>5, <2>3, <2>4, <2>5
<1>8. ASSUME Step(r) PROVE (~draining[r] /\ CardOwed(r))'
  <2>1. draining' = draining
    BY <1>8 DEF Step, LoadApp, SkipIfTombstone, SaveApp, DeleteApp, SetTombstone, CreateActivity,
       UpdateActivity, ArmTimer, SetEnd, lifeVars
  <2>2. QED
    BY <1>1, <1>8, <2>1, OwedCardStep
<1>9. CASE Fire(r) \/ Sweep(r) \/ Tick \/ UNCHANGED vars
  <2>1. /\ row' = row /\ card' = card /\ ender' = ender /\ stale' = stale
        /\ draining' = draining /\ job' = job
    BY <1>9 DEF Fire, Sweep, Tick, vars, store, endVars, lifeVars
  <2>2. QED
    BY <1>1, <2>1 DEF CardOwed, Balanced
<1>10. CASE EndStep(r) \/ FlushAll(r)
  <2>1. job' = job /\ draining' = draining /\ (row' = row \/ row' = NoRow)
    BY <1>10, EndIs
  <2>2. Balanced(r) => Balanced(r)'
    <3>1. CASE FireEnd(r)
      BY <3>1 DEF FireEnd, store, Balanced, TInv, FlagsTyped
    <3>2. ASSUME NEW c \in callbacks[r], SendOngoing(r, c), Balanced(r) PROVE Balanced(r)'
      <4>1. CASE Current(r, c)
        <5>1. ender'[r].at = "second"
          BY <3>2, <4>1 DEF SendOngoing, TInv, FlagsTyped, Enders
        <5>2. QED
          BY <5>1 DEF Balanced
      <4>2. CASE ~Current(r, c)
        BY <1>1, <3>2, <4>2 DEF SendOngoing, EndFault, Balanced
      <4>3. QED
        BY <4>1, <4>2
    <3>3. ASSUME NEW c \in callbacks[r], SendEnded(r, c) PROVE Balanced(r)'
      BY <1>1, <3>3 DEF SendEnded, EndFault, Balanced
    <3>4. ASSUME NEW c \in callbacks[r], DeleteEnded(r, c) PROVE Balanced(r)'
      BY <1>1, <3>4 DEF DeleteEnded, Balanced
    <3>5. ~FlushAll(r)
      BY <1>1 DEF FlushAll
    <3>6. QED
      BY <1>10, <3>1, <3>2, <3>3, <3>4, <3>5 DEF EndStep
  <2>3. Updates(job[r].todo, row) => Updates(job[r].todo, row')
    BY <2>1 DEF Updates
  <2>4. QED
    BY <1>1, <2>1, <2>2, <2>3 DEF CardOwed
<1>12. CASE StopAll(r) \/ Restart(r)
  BY <1>1, <1>2, <1>12 DEF StopAll, Restart
<1>13. QED
  BY <1>3, <1>6, <1>7, <1>8, <1>9, <1>10, <1>12 DEF Next, Quiet, Revs

\* With one replica, no failed call and no restart, an app that is out of its
\* grace period and that no handler is at work on shows the step its row
\* records, unless its activity has ended, an end of it is scheduled, or the last
\* frame the card got is that of an end that had been stopped too late: of
\* whatever events, timers, ends and sweeps, in whatever order, a handler, its
\* plan broken off nowhere, leaves no row without the update that shows it, and
\* no other frame overtakes that update.
THEOREM CardShown == ASSUME AtMostOne, Replicas # {} PROVE Spec => []CardShowsStep
<1>1. Init => CInv
  <2> SUFFICES ASSUME Init, NEW r \in Replicas PROVE ~draining[r] /\ CardOwed(r)
    BY DEF CInv
  <2>1. job[r] = Free /\ ~draining[r] /\ card = NoCard
    BY DEF Init
  <2>2. QED
    BY <2>1 DEF CardOwed, Balanced, AllHarmless, EntersFirst, Free
<1>2. TypeOK /\ TInv /\ CInv => CardShowsStep
  <2> SUFFICES ASSUME TInv, CInv, row # NoRow, ~row.pending, card # NoCard,
                      \A r \in Replicas : ender[r].at = "none", ~stale,
                      Served, used.faults = 0, used.restarts = 0
               PROVE  card = row.step
    BY DEF CardShowsStep
  <2>1. PICK r \in Replicas : TRUE
    OBVIOUS
  <2>2. job[r] = Free /\ CardOwed(r)
    BY DEF Served, CInv
  <2>3. Balanced(r)
    BY <2>2 DEF CardOwed, Free, Updates, Restores
  <2>4. QED
    BY <2>3 DEF Balanced
<1>3. TInv /\ CInv /\ [Next]_vars => TInv' /\ CInv'
  BY TypedNext, OwedCardNext
<1>4. QED
  BY <1>1, <1>2, <1>3, TypedInit, TypeCorrect, PTL DEF Spec

=============================================================================
