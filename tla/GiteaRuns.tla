------------------------------ MODULE GiteaRuns ------------------------------
(***************************************************************************)
(* The relay's Gitea provider (internal/gitea): one card per repository,   *)
(* shared by its runs.  A run has a "run" record, which its completion     *)
(* turns into a tombstone, and a record per job; both are read as one      *)
(* group before anything is decided.  Webhooks come in any order, late or  *)
(* twice, and two may be handled at once.  Statuses, conclusions and the   *)
(* grouping of jobs into steps are left out.                               *)
(***************************************************************************)
EXTENDS Naturals, Sequences

CONSTANTS
  Handlers,
  Runs,         \* run ids, from 1: a later run has a greater one
  Jobs,         \* the jobs of a run
  MaxWebhooks   \* bound: webhooks delivered

VARIABLES
  handler,  \* what each handler works on, and the calls it has left
  store,    \* the group: the run record, and the job records
  timers,   \* the Ender: the phase armed, its frame, the frames being sent
  server,   \* the card
  past      \* what was delivered and answered, and what went wrong

vars == <<handler, store, timers, server, past>>

NoRun == [id |-> 0, completed |-> FALSE]
NoFrame == [run |-> 0, jobs |-> {}]
Idle == [event |-> [what |-> "none", run |-> 0], jobs |-> {}, plan |-> <<>>]

Events ==
  [what : {"start", "completed"}, run : Runs] \union [what : {"job"}, run : Runs, job : Jobs]

Init ==
  /\ handler = [h \in Handlers |-> Idle]
  /\ store = [run |-> NoRun, jobs |-> {}]
  /\ timers = [phase |-> "none", frame |-> NoFrame, sending |-> {}]
  /\ server = [state |-> "none", frame |-> NoFrame]
  /\ past = [delivered |-> 0, newest |-> 0, done |-> {}, hurt |-> {}, raced |-> FALSE]

Busy == {h \in Handlers : handler[h] # Idle}

(* Two webhooks handled at once read the group before either writes it.    *)
Receive(h) ==
  /\ handler[h] = Idle /\ past.delivered < MaxWebhooks
  /\ \E event \in Events :
       handler' = [handler EXCEPT ![h] = [event |-> event, jobs |-> {}, plan |-> <<"read">>]]
  /\ past' = [past EXCEPT !.delivered = @ + 1, !.raced = @ \/ Busy # {}]
  /\ UNCHANGED <<store, timers, server>>

---------------------------------------------------------------------------
(* What a webhook does, given the run record it read.                      *)

\* Mutant of Late: the tombstone is not looked at.
LateUnlessOlder(event, prev) == event.run < prev.id

(* An older run than the one tracked, or the tracked one after its end.    *)
Late(event, prev) == event.run < prev.id \/ (event.run = prev.id /\ prev.completed)
Newer(event, prev) == event.run > prev.id
Tracked(event, prev) == event.run = prev.id

\* Mutant of Supersede: the end of the run before is left armed.
ClearOnly == <<"clear">>

Supersede == <<"stop", "clear">>
When(condition, calls) == IF condition THEN calls ELSE <<>>

Started(event, prev) ==
  When(Newer(event, prev), Supersede) \o <<"putRun", "create", "update">>

Completed(event, prev) ==
  When(Newer(event, prev) /\ prev # NoRun, Supersede)
  \o When(~Tracked(event, prev), <<"create">>) \o <<"putRun", "schedule">>

JobChanged(event, prev) ==
  When(Newer(event, prev) /\ prev # NoRun, Supersede)
  \o When(~Tracked(event, prev), <<"putRun", "create">>) \o <<"putJob", "update">>

Plan(event, prev) ==
  IF Late(event, prev) THEN <<>>
  ELSE CASE event.what = "start" -> Started(event, prev)
         [] event.what = "completed" -> Completed(event, prev)
         [] event.what = "job" -> JobChanged(event, prev)

(* The jobs the frame shows: those read with the run, and the event's own. *)
Shown(event, prev, jobs) ==
  LET kept == IF (event.what = "completed" /\ prev = NoRun) \/ Tracked(event, prev) THEN jobs ELSE {}
  IN IF event.what = "job" THEN kept \union {<<event.run, event.job>>} ELSE kept

---------------------------------------------------------------------------
(* The calls.                                                              *)

Calls(h, call) == handler[h].plan # <<>> /\ Head(handler[h].plan) = call
Event(h) == handler[h].event
Frame(h) == [run |-> Event(h).run, jobs |-> handler[h].jobs]
Advance(h) == handler' = [handler EXCEPT ![h].plan = Tail(@)]
Refuse(h) == handler' = [handler EXCEPT ![h] = Idle]
Later(h) == IF Event(h).run > past.newest THEN Event(h).run ELSE past.newest
MayFail(kind) == past.hurt \subseteq {kind}      \* faults of one kind in a behaviour
Fault(kind) == MayFail(kind) /\ past' = [past EXCEPT !.hurt = {kind}]

(* getGroup: a failed read counts as an empty group.                       *)
Read(h) ==
  /\ Calls(h, "read")
  /\ \E group \in {store, [run |-> NoRun, jobs |-> {}]} :
       /\ handler' = [handler EXCEPT ![h].plan = Plan(Event(h), group.run),
                                     ![h].jobs = Shown(Event(h), group.run, group.jobs)]
       /\ IF group = store THEN UNCHANGED past ELSE Fault("read")
  /\ UNCHANGED <<store, timers, server>>

StopTimer(h) ==
  /\ Calls(h, "stop")
  /\ Advance(h)
  /\ timers' = [timers EXCEPT !.phase = "none"]
  /\ past' = [past EXCEPT !.raced = @ \/ timers.sending # {}]
  /\ UNCHANGED <<store, server>>

(* A write that fails is logged, and the handler goes on.                  *)
Stored(h, call, group) ==
  /\ Calls(h, call)
  /\ Advance(h)
  /\ \/ store' = group /\ UNCHANGED past
     \/ UNCHANGED store /\ Fault("write")
  /\ UNCHANGED <<timers, server>>

DeleteGroup(h) == Stored(h, "clear", [run |-> NoRun, jobs |-> {}])
PutRun(h) ==
  Stored(h, "putRun", [store EXCEPT !.run = [id |-> Event(h).run, completed |-> Event(h).what = "completed"]])
PutJob(h) ==
  /\ Event(h).what = "job"
  /\ Stored(h, "putJob", [store EXCEPT !.jobs = @ \union {<<Event(h).run, Event(h).job>>}])

Sent(h, call, card) ==
  /\ Calls(h, call)
  /\ \/ server' = card /\ Advance(h) /\ UNCHANGED past
     \/ /\ UNCHANGED server /\ Refuse(h) /\ MayFail("call")
        /\ past' = [past EXCEPT !.hurt = {"call"}, !.newest = Later(h)]
  /\ UNCHANGED <<store, timers>>

CreateActivity(h) == Sent(h, "create", [server EXCEPT !.state = "ongoing"])
UpdateActivity(h) == Sent(h, "update", [state |-> "ongoing", frame |-> Frame(h)])

ScheduleEnd(h) ==
  /\ Calls(h, "schedule")
  /\ Advance(h)
  /\ timers' = [timers EXCEPT !.phase = "phase1", !.frame = Frame(h)]
  /\ past' = [past EXCEPT !.raced = @ \/ timers.sending # {}]
  /\ UNCHANGED <<store, server>>

Answer(h) ==
  /\ handler[h] # Idle /\ handler[h].plan = <<>>
  /\ handler' = [handler EXCEPT ![h] = Idle]
  /\ past' = [past EXCEPT
       !.newest = Later(h),
       !.done = IF Event(h).what = "completed" THEN @ \union {Event(h).run} ELSE @]
  /\ UNCHANGED <<store, timers, server>>

Work(h) ==
  \/ Read(h) \/ StopTimer(h) \/ DeleteGroup(h) \/ PutRun(h) \/ PutJob(h)
  \/ CreateActivity(h) \/ UpdateActivity(h) \/ ScheduleEnd(h) \/ Answer(h)

---------------------------------------------------------------------------
(* The Ender, which has no store here.  A frame being sent is not stopped. *)

Fire ==
  /\ timers.phase \in {"phase1", "phase2"} /\ timers.sending = {}
  /\ timers' = [timers EXCEPT !.sending = {[phase |-> timers.phase, frame |-> timers.frame]}]
  /\ UNCHANGED <<handler, store, server, past>>

Land ==
  \E sent \in timers.sending :
    LET mine == timers.phase = sent.phase /\ timers.frame = sent.frame
        over == sent.phase = "phase2"
    IN /\ \/ /\ server' = IF server.state = "none" THEN server
                         ELSE [state |-> IF over THEN "ended" ELSE "ongoing", frame |-> sent.frame]
             /\ UNCHANGED past
          \/ UNCHANGED server /\ Fault("lost end")
       /\ timers' = [timers EXCEPT !.sending = {},
                                   !.phase = IF ~mine THEN @ ELSE IF over THEN "none" ELSE "phase2"]
       /\ UNCHANGED <<handler, store>>

Crash ==
  /\ Fault("crash")
  /\ handler' = [h \in Handlers |-> Idle]
  /\ timers' = [phase |-> "none", frame |-> NoFrame, sending |-> {}]
  /\ UNCHANGED <<store, server>>

Next == (\E h \in Handlers : Receive(h) \/ Work(h)) \/ Fire \/ Land \/ Crash

Spec == Init /\ [][Next]_vars

---------------------------------------------------------------------------
(* Properties.                                                             *)

Clean(faults) == past.hurt \subseteq faults /\ ~past.raced
Quiet == Busy = {}

(* Whatever the order its webhooks come in, the card ends up on the newest *)
(* run there was a webhook of: its frame is up or about to be, it shows no *)
(* other run's jobs, and it stays up until that run completes.             *)
NewestRunShown ==
  Quiet /\ Clean({}) /\ past.newest # 0 =>
    /\ server.frame.run = past.newest \/ (timers.phase # "none" /\ timers.frame.run = past.newest)
    /\ \A job \in server.frame.jobs : job[1] = server.frame.run
    /\ past.newest \notin past.done => server.state = "ongoing" /\ timers.phase = "none"

(* Once the newest run has completed its card ends for good: a job or a    *)
(* start that comes late does not bring it back, whatever was refused.     *)
TombstoneHolds ==
  Quiet /\ Clean({"call"}) /\ past.newest \in past.done
    => server.state # "ongoing" \/ timers.phase # "none"
=============================================================================
