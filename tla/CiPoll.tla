-------------------------------- MODULE CiPoll --------------------------------
(***************************************************************************)
(* shared/cipoll/poller.go: the poll loop of one repository, the runs its  *)
(* forge reports, and the repository's one activity (the card).  The loop  *)
(* is one goroutine; it meets the end timers' callbacks, which take p.mu   *)
(* as it does, and a forge that moves on between any two of its calls.     *)
(*                                                                         *)
(* Every time the loop tracks a run it opens a session, numbered, and with *)
(* it the TimerGroup of the session's end.  A shape is a ladder of groups: *)
(* its total, and whether the labels are the run's own, a prior run's or   *)
(* none; what a card must fit is the weights sent with a ladder, as many   *)
(* as it has groups.  A run's groups come one by one; group i is step i,   *)
(* and step 0 is the placeholder between two waves.  What is due by the    *)
(* clock (the idle pass, a heartbeat, an eviction) may happen whenever the *)
(* loop looks; live_progress and step_weights are on.                      *)
(***************************************************************************)
EXTENDS Integers, FiniteSets

CONSTANTS
  Runs,       \* 1..n, by creation; a run's ID
  Groups,     \* how many groups each run has at most
  Seeds,      \* the prior runs' shapes a run may be seeded with, NoShape if with none
  Lag,        \* how many lists at most still report a run that is over
  Sessions,   \* 1..n; bound: how often a run is tracked
  Limit       \* bounds: attempts of all runs, upsets (faults and evictions)

ASSUME RunsAssumption == Runs \subseteq Nat \ {0} /\ IsFiniteSet(Runs)
ASSUME SessionsAssumption == Sessions \subseteq Nat \ {0}
ASSUME GroupsAssumption == Groups \in [Runs -> Nat \ {0}]
ASSUME SeedsAssumption ==
  \A r \in Runs : \A seed \in Seeds[r] :
    seed.total \in Nat /\ seed = [total |-> seed.total, labels |-> seed.labels]
ASSUME LagAssumption == Lag \in Nat
ASSUME LimitAssumption == Limit \in [{"attempts", "upsets"} -> Nat]

VARIABLES
  forge,      \* each run as the forge has it
  loop,       \* where the loop is, with what it carries between two calls
  tracked,    \* p.tracked[repo], or NoRun
  lastEnded,  \* p.lastEnded[repo], or NoEnd
  opened,     \* how many sessions there were
  end,        \* the end of each session
  card,       \* the activity on the server
  seenOver,   \* history: attempts the loop has scheduled the end of
  latest,     \* history: the last of them, until a run is picked
  twice,      \* history: one of them was picked again, against NoSecondCard
  foreign,    \* history: an old session wrote to the card of the present one
  lost,       \* history: of this session, an update landed and its answer did not
  used        \* of Limit

localVars == <<tracked, lastEnded, opened>>
history == <<seenOver, latest, twice>>
strays == <<foreign, lost>>
vars == <<forge, loop, localVars, end, card, history, strays, used>>

Shape(total, labels) == [total |-> total, labels |-> labels]
Bare == Shape(1, "none")
NoShape == Shape(0, "none")
NoStep == 0 - 1                   \* no step shown yet, no live window

NoRun == [run |-> 0]
NoEnd == [id |-> 0, started |-> 0]
NoAttempt == <<0, 0>>

Unborn == [on |-> "unborn", attempt |-> 0, started |-> 0, seen |-> 0, done |-> FALSE, lag |-> 0]
At(where) == [at |-> where]
NewEnd == [run |-> 0, started |-> 0, shape |-> NoShape, pc |-> "none",
           closed |-> FALSE, superseded |-> FALSE]
NoCard == [state |-> "none", of |-> 0, total |-> 0, ladder |-> NoShape, step |-> NoStep, live |-> NoStep]

Init ==
  /\ forge = [r \in Runs |-> Unborn]
  /\ loop = At("rest") /\ tracked = NoRun /\ lastEnded = NoEnd /\ opened = 0
  /\ end = [s \in Sessions |-> NewEnd]
  /\ card = NoCard
  /\ seenOver = {} /\ latest = NoAttempt /\ twice = FALSE /\ foreign = FALSE /\ lost = FALSE
  /\ used = [what \in DOMAIN Limit |-> 0]

Spend(what) ==
  /\ used[what] < Limit[what]
  /\ used' = [used EXCEPT ![what] = @ + 1]
Fault == Spend("upsets")
NoFault == UNCHANGED used

---------------------------------------------------------------------------
(* The forge.  A re-run keeps the ID and has no start until a runner picks *)
(* it up; jobs appear in waves, so all that are visible may be done while  *)
(* the run goes on.  A run moves just before the loop next asks of it. *)

Asked(r) ==
  \/ loop.at = "listing"
  \/ loop.at = "seeding" /\ end[opened].run = r
  \/ loop.at \in {"scanning", "confirming"} /\ tracked.run = r

Change(r, new) ==
  /\ Asked(r)
  /\ forge' = [forge EXCEPT ![r] = new]
  /\ UNCHANGED <<loop, localVars, end, card, history, strays>>

Create(r) ==
  /\ forge[r].on = "unborn" /\ \A q \in Runs : q < r => forge[q].on # "unborn"
  /\ Change(r, [Unborn EXCEPT !.on = "queued", !.attempt = 1]) /\ Spend("attempts")

PickUp(r) ==
  /\ forge[r].on = "queued"
  /\ Change(r, [forge[r] EXCEPT !.on = "going", !.started = forge[r].attempt, !.seen = 1])
  /\ NoFault

(* The last group ends with its run; after an earlier one the next wave of *)
(* jobs may be still to come, or may not come at all.                      *)
Work(r) ==
  /\ forge[r].on = "going"
  /\ \/ /\ ~forge[r].done /\ forge[r].seen < Groups[r]
        /\ Change(r, [forge[r] EXCEPT !.done = TRUE])
     \/ forge[r].done /\ Change(r, [forge[r] EXCEPT !.done = FALSE, !.seen = @ + 1])
     \/ /\ forge[r].done \/ forge[r].seen = Groups[r]
        /\ Change(r, [forge[r] EXCEPT !.on = "over", !.done = TRUE])
  /\ NoFault

(* Cancelled before a runner took it: no list reports a startless run that *)
(* is over (state.go).                                                     *)
Cancel(r) ==
  /\ forge[r].on = "queued"
  /\ Change(r, [forge[r] EXCEPT !.on = "over", !.seen = 1, !.done = TRUE])
  /\ NoFault

Rerun(r) ==
  /\ forge[r].on = "over" /\ Spend("attempts")
  /\ Change(r, [Unborn EXCEPT !.on = "queued", !.attempt = forge[r].attempt + 1])

Report(r) == [id |-> r, started |-> forge[r].started, attempt |-> forge[r].attempt]
Active == {r \in Runs : forge[r].on \in {"queued", "going"}}

(* What is over may be in the next lists yet, until one leaves it out; lag *)
(* is how many have reported it.                                           *)
Lagging == {r \in Runs : forge[r].on = "over" /\ forge[r].started # 0 /\ forge[r].lag < Lag}
Listed(run, reported) == [run EXCEPT !.lag = IF reported THEN @ + 1 ELSE Lag]

---------------------------------------------------------------------------
(* What the loop makes of what it is told.                                 *)

\* Mutant of closed: the attempt that was closed is not before itself.
ClosedBefore(last, run) == run.id = last.id /\ run.started < last.started

\* Mutant of closed: a re-run is taken for the attempt that was closed.
ClosedById(last, run) == run.id = last.id

closed(last, run) ==
  run.id = last.id /\ IF run.started = 0 THEN last.started = 0 ELSE run.started <= last.started

\* Mutant of Clamp: the shape of the scan, whatever was shown before.
ClampNever(known, scan) == scan

(* The total only climbs; live labels replace a prior run's of that total. *)
Clamp(known, scan) ==
  IF \/ scan.total > known.total
     \/ scan.total = known.total /\ scan.labels # known.labels
  THEN scan ELSE known

Pending == tracked # NoRun /\ tracked.end # "none"

(* Of what the card shows nothing is known, but that a window may run.     *)
Entry(run) ==
  [run |-> run.id, started |-> run.started, end |-> "none", shape |-> NoShape, sent |-> NoShape,
   total |-> 0, step |-> NoStep, liveSent |-> TRUE, liveStep |-> NoStep]

\* Mutant of trackedRun: no window is thought to run before one is sent.
EntryOptimist(run) == [Entry(run) EXCEPT !.liveSent = FALSE]

trackedRun(run) == Entry(run)

Track(run) ==
  /\ opened' = opened + 1 /\ tracked' = trackedRun(run)
  /\ end' = [end EXCEPT ![opened + 1] = [@ EXCEPT !.run = run.id]]
  /\ foreign' = FALSE /\ lost' = FALSE

Running == {"send1", "rearm", "send2", "clean"}      \* a callback is

(* Nothing asks an end that is over for more than its run. *)
Over(s) == [NewEnd EXCEPT !.run = end[s].run, !.pc = "over"]

\* Mutant of Close: a timer is stopped, but its group may be re-armed.
CloseIsStop(s) ==
  [end EXCEPT ![s] = IF @.pc \in {"armed1", "armed2"} THEN Over(s) ELSE @]

(* TimerGroup.Close: a callback that runs already is left to finish. *)
Close(s) ==
  [end EXCEPT ![s] = IF @.pc \in {"armed1", "armed2"} THEN Over(s) ELSE [@ EXCEPT !.closed = TRUE]]

---------------------------------------------------------------------------
(* Detection.                                                              *)

Go(from, to) == loop.at = from /\ loop' = to
ServerUntouched == UNCHANGED <<card, strays>>

(* Passes are further apart (60s, as shipped) than an end's request takes  *)
(* (30s): what the last pass superseded has left its callback.             *)
Rested == \A s \in Sessions : ~end[s].superseded

\* Mutant of PollIdle: a pending end is cancelled before a new run is seen.
PollIdleCancels ==
  /\ tracked = NoRun \/ Pending
  /\ Rested
  /\ Go("rest", [at |-> "listing", pending |-> tracked.run])
  /\ end' = IF Pending THEN Close(opened) ELSE end
  /\ ServerUntouched /\ UNCHANGED <<forge, localVars, history, used>>

(* A run on screen needs no list. *)
PollIdle ==
  /\ tracked = NoRun \/ Pending
  /\ Rested
  /\ Go("rest", [at |-> "listing", pending |-> tracked.run])
  /\ ServerUntouched /\ UNCHANGED <<forge, localVars, end, history, used>>

(* A question that fails changes nothing: it is asked again, as if waited. *)
ActiveRuns ==
  /\ loop.at = "listing"
  /\ \E late \in SUBSET Lagging :
       /\ loop' = [at |-> "listed", pending |-> loop.pending,
                   runs |-> {Report(r) : r \in Active \union late}]
       /\ forge' = [r \in Runs |-> IF r \in Lagging THEN Listed(forge[r], r \in late) ELSE forge[r]]
  /\ ServerUntouched /\ UNCHANGED <<localVars, end, history, used>>

Newest(runs) == {run \in runs : \A other \in runs : other.id <= run.id}

Attempt(run) == <<run.id, run.attempt>>
FirstLate(run) == Attempt(run) \in seenOver /\ forge[run.id].lag = 1

Pick(run) ==
  /\ loop' = [at |-> "creating", run |-> run]
  /\ twice' = (twice \/ Attempt(run) = latest \/ FirstLate(run))
  /\ latest' = NoAttempt /\ UNCHANGED seenOver

(* The newest run the loop has not closed.  It supersedes the end of a     *)
(* different run; the same run's end is left to finish.                    *)
Select ==
  LET open == {run \in loop.runs : ~closed(lastEnded, run)}
      different == {run \in Newest(open) : run.id # loop.pending}
      supersedes == Pending /\ loop.pending # 0 /\ tracked.run = loop.pending
  IN /\ loop.at = "listed"
     /\ \/ /\ different = {}
           /\ loop' = At("rest") /\ UNCHANGED <<tracked, end, history>>
        \/ /\ \E run \in different : Pick(run)
           /\ IF supersedes
              THEN /\ tracked' = NoRun
                   /\ end' = [Close(opened) EXCEPT ![opened].superseded = end[opened].pc \in Running]
              ELSE UNCHANGED <<tracked, end>>
     /\ ServerUntouched /\ UNCHANGED <<forge, lastEnded, opened, used>>

(* The slug is the repository's: what the card shows stays until the seed. *)
CreateActivity ==
  LET created == IF card.state = "none" THEN [card EXCEPT !.state = "ongoing"] ELSE card
  IN /\ loop.at = "creating" /\ opened + 1 \in Sessions
     /\ \/ /\ card' = created /\ Track(loop.run) /\ loop' = At("seeding") /\ NoFault
        \/ /\ card' \in {card, created} /\ loop' = At("rest") /\ Fault
           /\ UNCHANGED <<tracked, opened, end, strays>>
     /\ UNCHANGED <<forge, lastEnded, history>>

\* Mutant of Landed: what a failed update carried counts as sent.
LandedAnyway(send, promote) ==
  \/ card' = send /\ tracked' = promote /\ NoFault /\ UNCHANGED lost
  \/ card' = send /\ lost' = TRUE /\ tracked' = promote /\ Fault
  \/ UNCHANGED <<card, lost>> /\ tracked' = promote /\ Fault

(* An update lands, or its answer is lost, or it fails; only in the first  *)
(* case is what it carried counted as sent.                                *)
Landed(send, promote) ==
  \/ card' = send /\ tracked' = promote /\ NoFault /\ UNCHANGED lost
  \/ card' = send /\ lost' = TRUE /\ UNCHANGED tracked /\ Fault
  \/ UNCHANGED <<card, lost, tracked>> /\ Fault

(* A full update replaces the ladder and stops the live window. *)
FullUpdate(state, session, shape, step) ==
  [state |-> state, of |-> session, total |-> shape.total, ladder |-> shape,
   step |-> step, live |-> NoStep]

(* The shape of the first scan, or of a prior run that has more groups.  A *)
(* first scan that fails is one that finds no job yet.                     *)
FirstShapes(r) ==
  LET scan == IF forge[r].seen = 0 THEN Bare ELSE Shape(forge[r].seen, "own")
  IN {IF seed.total > scan.total THEN seed ELSE scan : seed \in Seeds[r]}

Seed ==
  LET update(shape) == FullUpdate("ongoing", opened, shape, 0)
      known(shape, sent) == [tracked EXCEPT !.shape = shape, !.sent = sent]
  IN /\ Go("seeding", At("rest"))
     /\ \E shape \in FirstShapes(end[opened].run) :
          \/ card' = update(shape) /\ tracked' = known(shape, shape) /\ NoFault
          \/ card' \in {card, update(shape)} /\ tracked' = known(shape, NoShape) /\ Fault
     /\ UNCHANGED <<forge, lastEnded, opened, end, history, strays>>

---------------------------------------------------------------------------
(* The active tier.                                                        *)

(* Evicted: no scan for longer than the card lives, or 12 hours.  What is  *)
(* tracked without an end stays so until the loop's calls return: only an  *)
(* end's callback takes an entry away, and none of this run is at work.    *)
PollActive ==
  /\ tracked # NoRun /\ ~Pending
  /\ \/ Go("rest", At("scanning")) /\ UNCHANGED tracked /\ NoFault
     \/ Go("rest", At("rest")) /\ tracked' = NoRun /\ Spend("upsets")
  /\ ServerUntouched /\ UNCHANGED <<forge, lastEnded, opened, end, history>>

(* The scan, held against what is known of the run. *)
LiveJobs ==
  LET now == forge[tracked.run]
      shape == Clamp(tracked.shape, Shape(now.seen, "own"))
  IN /\ loop.at = "scanning"
     /\ \/ /\ now.seen > 0
           /\ tracked' = [tracked EXCEPT !.shape = shape]
           /\ loop' = [at |-> IF now.done THEN "confirming" ELSE "patching",
                       shape |-> shape, step |-> now.seen]
        \/ now.seen = 0 /\ loop' = At("rest") /\ UNCHANGED tracked
     /\ ServerUntouched /\ UNCHANGED <<forge, lastEnded, opened, end, history, used>>

\* Mutant of Confirmed: a run whose visible jobs are done is over.
ConfirmedByJobs(run) == run.done

Confirmed(run) == run.on = "over"

(* The end's timers are armed with the last frame. *)
scheduleEnd(started, shape) ==
  /\ tracked' = [tracked EXCEPT !.started = started, !.end = "pending"]
  /\ end' = [end EXCEPT ![opened] = [@ EXCEPT !.started = started, !.shape = shape, !.pc = "armed1"]]

GetRun ==
  LET now == forge[tracked.run]
      started == IF now.started = 0 THEN tracked.started ELSE now.started
  IN /\ loop.at = "confirming"
     /\ \/ /\ Confirmed(now) /\ NoFault
           /\ scheduleEnd(started, loop.shape)
           /\ seenOver' = seenOver \union {<<tracked.run, now.attempt>>}
           /\ latest' = <<tracked.run, now.attempt>>
           /\ loop' = At("rest")
        \/ /\ \/ ~Confirmed(now) /\ NoFault
              \/ Fault
           /\ loop' = [at |-> "patching", shape |-> loop.shape, step |-> 0]
           /\ UNCHANGED <<tracked, end, seenOver, latest>>
     /\ ServerUntouched /\ UNCHANGED <<forge, lastEnded, opened, twice>>

(* Only what changed is sent: the ladder if its labels did, a live window  *)
(* when a new step can be timed, its removal when a new step cannot.       *)
Patch(timed) ==
  LET moved == loop.step # tracked.liveStep
      ladder == tracked.sent # tracked.shape
      anchor == timed /\ (~tracked.liveSent \/ moved)
      clear == ~timed /\ tracked.liveSent /\ moved
      live == IF anchor THEN loop.step ELSE NoStep
      relive == anchor \/ clear
      send == [card EXCEPT !.state = "ongoing", !.of = opened, !.total = loop.shape.total,
                           !.step = loop.step,
                           !.ladder = IF ladder THEN loop.shape ELSE @,
                           !.live = IF relive THEN live ELSE @]
      promote == [tracked EXCEPT !.sent = tracked.shape, !.total = loop.shape.total,
                                 !.step = loop.step,
                                 !.liveSent = IF relive THEN anchor ELSE @,
                                 !.liveStep = IF relive THEN live ELSE @]
      changed == ladder \/ relive \/ tracked.step # loop.step \/ tracked.total # loop.shape.total
  IN \/ Landed(send, promote)
     \/ ~changed /\ NoFault /\ UNCHANGED <<card, tracked, lost>>

PatchActivity ==
  /\ Go("patching", At("rest"))
  /\ Patch(FALSE) \/ (loop.step # 0 /\ Patch(TRUE))
  /\ UNCHANGED <<forge, lastEnded, opened, end, history, foreign>>

---------------------------------------------------------------------------
(* The two-phase end of a session, in its timers' callbacks.               *)

Step(s, from, to) ==
  /\ end[s].pc = from
  /\ end' = [end EXCEPT ![s] = IF to = "over" THEN Over(s) ELSE [@ EXCEPT !.pc = to]]

Fire(s) ==
  /\ Step(s, "armed1", "send1") \/ Step(s, "armed2", "send2")
  /\ ServerUntouched /\ UNCHANGED <<forge, loop, localVars, history, used>>

(* An update of the end; its failure is logged only. *)
Deliver(s, state) ==
  /\ \/ /\ card' = FullUpdate(state, s, end[s].shape, end[s].shape.total)
        /\ foreign' = (foreign \/ s # opened) /\ NoFault
     \/ UNCHANGED <<card, foreign>> /\ Fault
  /\ UNCHANGED lost

StillTracked(s) == tracked # NoRun /\ tracked.run = end[s].run

Phase1(s) ==
  /\ Step(s, "send1", IF StillTracked(s) THEN "rearm" ELSE "over")
  /\ Deliver(s, "ongoing")
  /\ UNCHANGED <<forge, loop, localVars, history>>

(* TimerGroup.Reset, beside p.mu: a closed group is not armed again. *)
Rearm(s) ==
  /\ Step(s, "rearm", IF end[s].closed THEN "over" ELSE "armed2")
  /\ ServerUntouched /\ UNCHANGED <<forge, loop, localVars, history, used>>

Phase2(s) ==
  /\ Step(s, "send2", "clean")
  /\ Deliver(s, "ended")
  /\ UNCHANGED <<forge, loop, localVars, history>>

Clean(s) ==
  /\ Step(s, "clean", "over")
  /\ IF StillTracked(s)
     THEN lastEnded' = [id |-> end[s].run, started |-> end[s].started] /\ tracked' = NoRun
     ELSE UNCHANGED <<lastEnded, tracked>>
  /\ ServerUntouched /\ UNCHANGED <<forge, loop, opened, history, used>>

Callback(s) == Fire(s) \/ Phase1(s) \/ Rearm(s) \/ Phase2(s) \/ Clean(s)

---------------------------------------------------------------------------
(* ctx is done: the group of a pending end is closed and waited for.       *)

Shutdown ==
  \/ /\ Go("rest", At("draining"))
     /\ end' = IF Pending THEN Close(opened) ELSE end
     /\ ServerUntouched /\ UNCHANGED <<forge, localVars, history, used>>
  \/ /\ Go("draining", At("returned"))
     /\ Pending => end[opened].pc = "over"
     /\ ServerUntouched /\ UNCHANGED <<forge, localVars, end, history, used>>

Returned == loop.at = "returned" /\ UNCHANGED vars

Loop ==
  \/ PollIdle \/ ActiveRuns \/ Select \/ CreateActivity \/ Seed
  \/ PollActive \/ LiveJobs \/ GetRun \/ PatchActivity

Next ==
  \/ \E r \in Runs : Create(r) \/ PickUp(r) \/ Work(r) \/ Cancel(r) \/ Rerun(r)
  \/ Loop \/ (\E s \in Sessions : Callback(s)) \/ Shutdown \/ Returned

(* The loop ticks, timers fire, and a drain that waits comes to its end.   *)
Fairness ==
  /\ WF_vars(Loop) /\ \A s \in Sessions : WF_vars(Callback(s))

Spec == Init /\ [][Next]_vars /\ Fairness

---------------------------------------------------------------------------
(* Properties.                                                             *)

Labels == {"none", "own"} \union {seed.labels : seed \in UNION {Seeds[r] : r \in Runs}}
Counts == UNION {0..Groups[r] : r \in Runs}
Totals == {0, 1} \union Counts \union {seed.total : seed \in UNION {Seeds[r] : r \in Runs}}
Shapes == [total : Totals, labels : Labels]
Steps == {NoStep, 0} \union Counts
RunRefs == Runs \union {0}

(* Every part of the state has its type; a pending end is an end of the    *)
(* last session, and its timers are not armed before it is tracked.        *)
TypeOK ==
  /\ forge \in [Runs -> [on : {"unborn", "queued", "going", "over"}, attempt : Nat, started : Nat,
                         seen : Nat, done : BOOLEAN, lag : 0..Lag]]
  /\ \A r \in Runs : forge[r].seen <= Groups[r]
  /\ loop.at \in {"rest", "listing", "listed", "creating", "seeding", "scanning",
                  "confirming", "patching", "draining", "returned"}
  /\ \/ tracked = NoRun
     \/ /\ tracked \in [run : Runs, started : Nat, end : {"none", "pending"}, shape : Shapes,
                        sent : Shapes, total : Nat, step : Steps, liveSent : BOOLEAN, liveStep : Steps]
        /\ opened # 0 /\ (~Pending => end[opened].pc \in {"none", "over"})
  /\ lastEnded \in [id : RunRefs, started : Nat] /\ opened \in Sessions \union {0}
  /\ end \in [Sessions -> [run : RunRefs, started : Nat, shape : Shapes,
                pc : {"none", "armed1", "send1", "rearm", "armed2", "send2", "clean", "over"},
                closed : BOOLEAN, superseded : BOOLEAN]]
  /\ \A s \in Sessions : s > opened => end[s] = NewEnd
  /\ card.state \in {"none", "ongoing", "ended"} /\ card.ladder \in Shapes
  /\ card.of \in Sessions \union {0} /\ card.total \in Nat /\ {card.step, card.live} \subseteq Int

(* The attempt whose end the loop has scheduled is not picked again off    *)
(* the first list that reports it as a run that is over, nor off any later *)
(* one before another run was picked: what is pending or in lastEnded is   *)
(* left alone, and of those there is one per repository (pollIdle).        *)
NoSecondCard == ~twice

(* The card is ended for an attempt that is over: not between two waves of *)
(* jobs, and not for the attempt before a re-run that goes on.             *)
CardNotEndedEarly ==
  card.state = "ended" =>
    \E attempt \in 1..forge[end[card.of].run].attempt :
      /\ <<end[card.of].run, attempt>> \in seenOver
      /\ attempt < forge[end[card.of].run].attempt \/ forge[end[card.of].run].on = "over"

(* An end that a new run has superseded begins no further frame: the card  *)
(* is the new run's (Close, not Stop, in pollIdle).                        *)
SupersededQuiet ==
  [][\A s \in Sessions :
       end[s].superseded /\ end'[s].pc \in {"send1", "send2"} => end'[s].pc = end[s].pc]_vars

(* The total on the card never falls while one run is on it.               *)
TotalClimbs ==
  [][card.of = opened /\ card'.of = opened' /\ opened' = opened /\ ~foreign' => card'.total >= card.total]_vars

(* The ladder on the card has as many groups as its total says: a failed   *)
(* update's ladder is sent again (shapeSent).                              *)
LadderFits == card.of = opened /\ ~foreign => card.ladder.total = card.total

(* A live window on the card is of the step it shows, never of one gone by *)
(* (liveSent, pessimistic at first, and clearLive).                        *)
WindowFits == card.of = opened /\ ~foreign /\ ~lost => card.live \in {NoStep, card.step}

(* What the loop believes to be on the card is on it.                      *)
CardFits == TypeOK /\ LadderFits /\ WindowFits

Stopping == loop.at \in {"draining", "returned"}

(* A run on screen that is over leaves the screen: its end is delivered,   *)
(* superseded or the process stops (scheduleEnd, pollIdle).                *)
EndIsDelivered ==
  \A r \in Runs :
    tracked.run = r /\ forge[r].on = "over" ~> tracked.run # r \/ forge[r].on # "over" \/ Stopping

(* The one run that goes on is on screen in the end, re-run or not.        *)
CardComes ==
  \A r \in Runs :
    <>[](forge[r].on = "going" /\ \A q \in Runs \ {r} : forge[q].on \in {"unborn", "over"})
      => <>(Stopping) \/ []<>(tracked.run = r)

(* A run comes on the screen and leaves it.                                *)
EndComes == EndIsDelivered /\ CardComes
============================================================================
